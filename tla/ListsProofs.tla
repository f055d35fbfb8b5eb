---------------------------- MODULE ListsProofs ----------------------------
(***************************************************************************)
(* Proofs about the lists, laid out as those of FormsProofs: an inductive  *)
(* invariant for each screen, for any rows, moves and bounds.              *)
(***************************************************************************)
EXTENDS Lists, FiniteSetTheorems, SequenceTheorems, TLAPS

-----------------------------------------------------------------------------
(* The trash.                                                              *)
TrashShape ==
  /\ DOMAIN ui = {"page", "view", "id", "known", "character", "seen", "fetch", "selected", "dialog",
                  "row", "requests", "blocking", "bulk", "errors", "acts"}
  /\ DOMAIN ui.bulk = {"op", "awaits", "setups", "failed", "left"} /\ DOMAIN ui.selected = TR!Kinds
  /\ DOMAIN srv = {"rows", "links", "ticked", "agreed", "acted", "refused", "others"}

\* What is selected in a table was ticked in that table.
TickedInItsTable == \A k \in TR!Kinds : \A i \in ui.selected[k] : <<k, i>> \in srv.ticked

\* Whatever is going to be acted on has been agreed to.
AllAgreed ==
  /\ ui.bulk.awaits \subseteq srv.agreed /\ ui.bulk.setups \subseteq srv.agreed
  /\ \A q \in ui.requests : q.op # "unlink" => q.row \in srv.agreed
  /\ srv.acted \subseteq srv.agreed

\* What was refused is named; the page of a combo names nothing, and a bulk operation that is still
\* under way there has been left.
RefusedAreNamed ==
  /\ srv.refused \subseteq ui.errors
  /\ ui.view = "detail" => srv.refused = {} /\ (ui.bulk.op # "none" => ui.bulk.left)

TrashParts == TrashShape /\ TickedInItsTable /\ AllAgreed /\ RefusedAreNamed

TrashInv == ui.page = "trash" => TrashParts

\* What an action leaves alone that has to do with ticking, agreeing and acting.
TrashQuiet ==
  /\ srv'.ticked = srv.ticked /\ srv'.agreed = srv.agreed /\ srv'.acted = srv.acted
  /\ srv'.refused = srv.refused /\ DOMAIN srv' = DOMAIN srv
  /\ DOMAIN ui' = DOMAIN ui /\ ui'.view = ui.view /\ ui'.selected = ui.selected
  /\ ui'.bulk = ui.bulk /\ ui'.errors = ui.errors

LEMMA TrashQuietKeeps ==
  ASSUME TrashParts, TrashQuiet, \A q \in ui'.requests : q \in ui.requests \/ q.op = "unlink"
  PROVE  TrashParts'
BY DEF TrashParts, TrashShape, TickedInItsTable, AllAgreed, RefusedAreNamed, TrashQuiet

TrashElsewhere ==
  \/ \E k \in TR!Kinds : TR!ListFetched(k)
  \/ TR!AskBulkDelete \/ TR!CancelDialog \/ TR!DetailFetched
  \/ \E row \in TR!Rows : TR!AskPermanentDelete(row) \/ TR!OtherRestores(row)
  \/ \E q \in ui.requests : TR!RowRefused(q) \/ \E ok \in BOOLEAN : TR!UnlinkAnswered(q, ok)
  \/ \E c \in TrashIds, s \in TrashIds : TR!HandleUnlink(c, s)

LEMMA TrashFieldsOnly == ASSUME TrashParts, TrashElsewhere PROVE TrashParts'
<1> USE DEF TrashShape, TrashQuiet, TR!Sets, TR!Serves, TR!Does
<1>0. TrashShape
  BY DEF TrashParts
<1>1. ASSUME NEW k \in TR!Kinds, TR!ListFetched(k) PROVE TrashParts'
  <2>1. TrashQuiet /\ ui'.requests = ui.requests
    BY <1>0, <1>1 DEF TR!ListFetched
  <2>2. QED
    BY <2>1, TrashQuietKeeps
<1>2. CASE TR!AskBulkDelete \/ TR!CancelDialog \/ TR!DetailFetched
  <2>1. TrashQuiet /\ ui'.requests = ui.requests
    BY <1>0, <1>2 DEF TR!AskBulkDelete, TR!CancelDialog, TR!DetailFetched
  <2>2. QED
    BY <2>1, TrashQuietKeeps
<1>3. ASSUME NEW row \in TR!Rows, TR!AskPermanentDelete(row) PROVE TrashParts'
  <2>1. TrashQuiet /\ ui'.requests = ui.requests
    BY <1>0, <1>3 DEF TR!AskPermanentDelete
  <2>2. QED
    BY <2>1, TrashQuietKeeps
<1>4. ASSUME NEW row \in TR!Rows, TR!OtherRestores(row) PROVE TrashParts'
  <2>1. TrashQuiet /\ ui'.requests = ui.requests
    BY <1>0, <1>4 DEF TR!OtherRestores
  <2>2. QED
    BY <2>1, TrashQuietKeeps
<1>5. ASSUME NEW q \in ui.requests, TR!RowRefused(q) PROVE TrashParts'
  <2>1. TrashQuiet /\ ui'.requests = ui.requests \ {q}
    BY <1>0, <1>5 DEF TR!RowRefused
  <2>2. QED
    BY <2>1, TrashQuietKeeps
<1>6. ASSUME NEW q \in ui.requests, NEW ok \in BOOLEAN, TR!UnlinkAnswered(q, ok) PROVE TrashParts'
  <2>1. TrashQuiet /\ ui'.requests = ui.requests \ {q}
    BY <1>0, <1>6 DEF TR!UnlinkAnswered
  <2>2. QED
    BY <2>1, TrashQuietKeeps
<1>7. ASSUME NEW c \in TrashIds, NEW s \in TrashIds, TR!HandleUnlink(c, s) PROVE TrashParts'
  <2> DEFINE q == [op |-> "unlink", row |-> <<"setup", s>>, combo |-> c]
  <2>1. TrashQuiet /\ ui'.requests = ui.requests \union {q}
    BY <1>0, <1>7 DEF TR!HandleUnlink
  <2>2. QED
    BY <2>1, TrashQuietKeeps
<1>8. QED
  BY <1>1, <1>2, <1>3, <1>4, <1>5, <1>6, <1>7 DEF TrashElsewhere

\* The selection changes, and with it what is ticked.
LEMMA TrashSelects ==
  ASSUME TrashParts, DOMAIN ui' = DOMAIN ui, ui'.view = ui.view, ui'.bulk = ui.bulk,
         ui'.errors = ui.errors, ui'.requests = ui.requests, DOMAIN ui'.selected = TR!Kinds,
         DOMAIN srv' = DOMAIN srv, srv'.agreed = srv.agreed, srv'.acted = srv.acted,
         srv'.refused = srv.refused, TickedInItsTable'
  PROVE  TrashParts'
BY DEF TrashParts, TrashShape, AllAgreed, RefusedAreNamed

LEMMA TrashTicks ==
  ASSUME TrashParts, NEW kind \in TR!Kinds, NEW is, TR!Ticked(kind, is),
         ui' = TR!Does([ui EXCEPT !.selected[kind] = is])
  PROVE  TrashParts'
<1>1. /\ DOMAIN ui' = DOMAIN ui /\ ui'.view = ui.view /\ ui'.bulk = ui.bulk /\ ui'.errors = ui.errors
      /\ ui'.requests = ui.requests /\ ui'.selected = [ui.selected EXCEPT ![kind] = is]
  BY DEF TR!Does, TrashParts, TrashShape
<1>2. /\ DOMAIN srv' = DOMAIN srv /\ srv'.agreed = srv.agreed /\ srv'.acted = srv.acted
      /\ srv'.refused = srv.refused
      /\ srv'.ticked = {row \in srv.ticked : row[1] # kind} \union ({kind} \X is)
  BY DEF TR!Ticked, TrashParts, TrashShape
<1>3. DOMAIN ui'.selected = TR!Kinds
  BY <1>1 DEF TrashParts, TrashShape
<1>4. ASSUME NEW k \in TR!Kinds, NEW i \in ui'.selected[k] PROVE <<k, i>> \in srv'.ticked
  <2>1. CASE k = kind
    <3>1. i \in is
      BY <1>1, <1>4, <2>1 DEF TrashParts, TrashShape
    <3>2. QED
      BY <1>2, <2>1, <3>1
  <2>2. CASE k # kind
    <3>1. <<k, i>> \in srv.ticked /\ <<k, i>>[1] # kind
      BY <1>1, <1>4, <2>2 DEF TrashParts, TrashShape, TickedInItsTable
    <3>2. QED
      BY <1>2, <3>1
  <2>3. QED
    BY <2>1, <2>2
<1>5. QED
  BY <1>1, <1>2, <1>3, <1>4, TrashSelects DEF TickedInItsTable

LEMMA TrashCharacter ==
  ASSUME TrashParts, NEW character, TR!HandleCharacterChange(character) PROVE TrashParts'
<1>1. /\ DOMAIN ui' = DOMAIN ui /\ ui'.view = ui.view /\ ui'.bulk = ui.bulk /\ ui'.errors = ui.errors
      /\ ui'.requests = ui.requests /\ ui'.selected = [k \in TR!Kinds |-> {}]
      /\ DOMAIN srv' = DOMAIN srv /\ srv'.agreed = srv.agreed /\ srv'.acted = srv.acted
      /\ srv'.refused = srv.refused
  BY DEF TR!HandleCharacterChange, TR!Does, TR!NoneSelected, TrashParts, TrashShape
<1>2. QED
  BY <1>1, TrashSelects DEF TickedInItsTable

\* What is selected and listed was ticked, so that asking for the selection is asking for what was
\* ticked.
LEMMA SelectedIsTicked == ASSUME TrashParts PROVE TR!SelectedRows \subseteq srv.ticked
BY DEF TrashParts, TickedInItsTable, TR!SelectedRows, TR!Rows

LEMMA TrashStarts == ASSUME TrashParts, NEW op, TR!OnList, TR!Starts(op) PROVE TrashParts'
<1>1. /\ DOMAIN ui' = DOMAIN ui /\ ui'.view = ui.view /\ ui'.errors = {} /\ ui'.requests = ui.requests
      /\ ui'.selected = ui.selected
      /\ ui'.bulk = [TR!NoBulk EXCEPT !.op = op,
                       !.awaits = {row \in TR!SelectedRows : row[1] = "combo"},
                       !.setups = {row \in TR!SelectedRows : row[1] = "setup"}]
  BY DEF TR!Starts, TR!Does, TrashParts, TrashShape
<1>2. /\ DOMAIN srv' = DOMAIN srv /\ srv'.agreed = srv.agreed \union srv.ticked
      /\ srv'.ticked = srv.ticked /\ srv'.acted = srv.acted /\ srv'.refused = {}
  BY DEF TR!Starts, TrashParts, TrashShape
<1>3. /\ DOMAIN ui'.bulk = {"op", "awaits", "setups", "failed", "left"}
      /\ ui'.bulk.awaits \subseteq TR!SelectedRows /\ ui'.bulk.setups \subseteq TR!SelectedRows
  BY <1>1 DEF TR!NoBulk
<1>4. ui.view = "list"
  BY DEF TR!OnList
<1>5. TrashShape' /\ TickedInItsTable'
  BY <1>1, <1>2, <1>3 DEF TrashParts, TrashShape, TickedInItsTable
<1>6. AllAgreed'
  BY <1>1, <1>2, <1>3, SelectedIsTicked DEF TrashParts, AllAgreed
<1>7. RefusedAreNamed'
  BY <1>1, <1>2, <1>4 DEF RefusedAreNamed
<1>8. QED
  BY <1>5, <1>6, <1>7 DEF TrashParts

LEMMA TrashBulkAnswered ==
  ASSUME TrashParts, NEW row, NEW ok \in BOOLEAN, TR!BulkAnswered(row, ok) PROVE TrashParts'
<1>1. /\ row \in ui.bulk.awaits /\ DOMAIN ui' = DOMAIN ui /\ ui'.view = ui.view
      /\ ui'.errors = ui.errors /\ ui'.requests = ui.requests /\ ui'.selected = ui.selected
      /\ DOMAIN ui'.bulk = DOMAIN ui.bulk /\ ui'.bulk.op = ui.bulk.op /\ ui'.bulk.left = ui.bulk.left
      /\ ui'.bulk.awaits = ui.bulk.awaits \ {row} /\ ui'.bulk.setups = ui.bulk.setups
  BY DEF TR!BulkAnswered, TrashParts, TrashShape
<1>2. /\ DOMAIN srv' = DOMAIN srv /\ srv'.agreed = srv.agreed /\ srv'.ticked = srv.ticked
      /\ srv'.refused = srv.refused /\ srv'.acted \subseteq srv.acted \union {row}
  BY DEF TR!BulkAnswered, TR!After, TrashParts, TrashShape
<1>3. TrashShape' /\ TickedInItsTable'
  BY <1>1, <1>2 DEF TrashParts, TrashShape, TickedInItsTable
<1>4. AllAgreed'
  BY <1>1, <1>2 DEF TrashParts, AllAgreed
<1>5. RefusedAreNamed'
  BY <1>1, <1>2 DEF TrashParts, RefusedAreNamed
<1>6. QED
  BY <1>3, <1>4, <1>5 DEF TrashParts

LEMMA TrashBulkGoesOn == ASSUME TrashParts, TR!BulkGoesOn PROVE TrashParts'
<1>1. /\ srv' = srv /\ DOMAIN ui' = DOMAIN ui /\ ui'.view = ui.view
      /\ ui'.errors = ui.errors /\ ui'.requests = ui.requests /\ ui'.selected = ui.selected
      /\ DOMAIN ui'.bulk = DOMAIN ui.bulk /\ ui'.bulk.op = ui.bulk.op /\ ui'.bulk.left = ui.bulk.left
      /\ ui'.bulk.awaits = ui.bulk.setups /\ ui'.bulk.setups = {}
  BY DEF TR!BulkGoesOn, TR!Sets, TrashParts, TrashShape
<1>2. TrashShape' /\ TickedInItsTable'
  BY <1>1 DEF TrashParts, TrashShape, TickedInItsTable
<1>3. AllAgreed' /\ RefusedAreNamed'
  BY <1>1 DEF TrashParts, AllAgreed, RefusedAreNamed
<1>4. QED
  BY <1>2, <1>3 DEF TrashParts

\* The result is told on the page the operation was started from, or not at all.
LEMMA TrashBulkEnds == ASSUME TrashParts, TR!BulkEnds PROVE TrashParts'
<1>1. /\ DOMAIN TR!NoBulk = {"op", "awaits", "setups", "failed", "left"} /\ TR!NoBulk.op = "none"
      /\ TR!NoBulk.awaits = {} /\ TR!NoBulk.setups = {}
  BY DEF TR!NoBulk
<1>2. CASE ui.bulk.left
  <2>1. /\ srv' = srv /\ DOMAIN ui' = DOMAIN ui /\ ui'.view = ui.view /\ ui'.errors = ui.errors
        /\ ui'.requests = ui.requests /\ ui'.selected = ui.selected /\ ui'.bulk = TR!NoBulk
    BY <1>2 DEF TR!BulkEnds, TR!Sets, TrashParts, TrashShape
  <2>2. TrashShape' /\ TickedInItsTable'
    BY <1>1, <2>1 DEF TrashParts, TrashShape, TickedInItsTable
  <2>3. AllAgreed' /\ RefusedAreNamed'
    BY <1>1, <2>1 DEF TrashParts, AllAgreed, RefusedAreNamed
  <2>4. QED
    BY <2>2, <2>3 DEF TrashParts
<1>3. CASE ~ui.bulk.left
  <2>1. /\ DOMAIN ui' = DOMAIN ui /\ ui'.view = ui.view /\ ui'.errors = ui.bulk.failed
        /\ ui'.requests = ui.requests /\ ui'.selected = [k \in TR!Kinds |-> {}]
        /\ ui'.bulk = TR!NoBulk /\ ui.bulk.op # "none"
    BY <1>3 DEF TR!BulkEnds, TR!Failed, TR!NoneSelected, TrashParts, TrashShape
  <2>2. /\ DOMAIN srv' = DOMAIN srv /\ srv'.agreed = srv.agreed /\ srv'.acted = srv.acted
        /\ srv'.refused = ui.bulk.failed
    BY <1>3 DEF TR!BulkEnds, TrashParts, TrashShape
  <2>3. ui.view # "detail"
    BY <1>3, <2>1 DEF TrashParts, RefusedAreNamed
  <2>4. TrashShape' /\ TickedInItsTable'
    BY <1>1, <2>1, <2>2 DEF TrashParts, TrashShape, TickedInItsTable
  <2>5. AllAgreed' /\ RefusedAreNamed'
    BY <1>1, <2>1, <2>2, <2>3 DEF TrashParts, AllAgreed, RefusedAreNamed
  <2>6. QED
    BY <2>4, <2>5 DEF TrashParts
<1>4. QED
  BY <1>2, <1>3

LEMMA TrashDismisses == ASSUME TrashParts, TR!DismissResult PROVE TrashParts'
<1>1. /\ DOMAIN ui' = DOMAIN ui /\ ui'.view = ui.view /\ ui'.bulk = ui.bulk /\ ui'.errors = {}
      /\ ui'.requests = ui.requests /\ ui'.selected = ui.selected /\ ui.view = "list"
  BY DEF TR!DismissResult, TR!Does, TR!OnList, TrashParts, TrashShape
<1>2. /\ DOMAIN srv' = DOMAIN srv /\ srv'.agreed = srv.agreed /\ srv'.acted = srv.acted
      /\ srv'.ticked = srv.ticked /\ srv'.refused = {}
  BY DEF TR!DismissResult, TrashParts, TrashShape
<1>3. QED
  BY <1>1, <1>2 DEF TrashParts, TrashShape, TickedInItsTable, AllAgreed, RefusedAreNamed

LEMMA TrashAsks ==
  ASSUME TrashParts, NEW op, NEW row, TR!Agrees(row),
         DOMAIN ui' = DOMAIN ui, ui'.view = ui.view, ui'.bulk = ui.bulk, ui'.errors = ui.errors,
         ui'.selected = ui.selected,
         ui'.requests = ui.requests \union {[op |-> op, row |-> row]}
  PROVE  TrashParts'
<1>1. /\ DOMAIN srv' = DOMAIN srv /\ srv'.agreed = srv.agreed \union {row} /\ srv'.acted = srv.acted
      /\ srv'.ticked = srv.ticked /\ srv'.refused = srv.refused
  BY DEF TR!Agrees, TrashParts, TrashShape
<1>2. TrashShape' /\ TickedInItsTable' /\ RefusedAreNamed'
  BY <1>1 DEF TrashParts, TrashShape, TickedInItsTable, RefusedAreNamed
<1>3. AllAgreed'
  BY <1>1 DEF TrashParts, AllAgreed
<1>4. QED
  BY <1>2, <1>3 DEF TrashParts

LEMMA TrashRowAsked ==
  ASSUME TrashParts, TR!HandlePermanentDelete \/ \E row \in TR!Rows : TR!HandleRestore(row)
  PROVE  TrashParts'
<1>1. ASSUME NEW row \in TR!Rows, TR!HandleRestore(row) PROVE TrashParts'
  <2>1. /\ TR!Agrees(row)
        /\ DOMAIN ui' = DOMAIN ui /\ ui'.view = ui.view /\ ui'.bulk = ui.bulk /\ ui'.errors = ui.errors
        /\ ui'.selected = ui.selected
        /\ ui'.requests = ui.requests \union {[op |-> "restore", row |-> row]}
    BY <1>1 DEF TR!HandleRestore, TR!Asks, TR!Does, TrashParts, TrashShape
  <2>2. QED
    BY <2>1, TrashAsks
<1>2. CASE TR!HandlePermanentDelete
  <2> DEFINE row == ui.row
  <2>1. /\ TR!Agrees(row)
        /\ DOMAIN ui' = DOMAIN ui /\ ui'.view = ui.view /\ ui'.bulk = ui.bulk /\ ui'.errors = ui.errors
        /\ ui'.selected = ui.selected
        /\ ui'.requests = ui.requests \union {[op |-> "delete", row |-> row]}
    BY <1>2 DEF TR!HandlePermanentDelete, TR!Asks, TrashParts, TrashShape
  <2> HIDE DEF row
  <2>2. QED
    BY <2>1, TrashAsks
<1>3. QED
  BY <1>1, <1>2

\* A page is built anew, and nothing is named on it.
LEMMA TrashReopened ==
  ASSUME TrashParts, NEW view, NEW id, NEW left, NEW acts,
         ui' = [TR!Fresh(view, id) EXCEPT !.bulk = [ui.bulk EXCEPT !.left = left], !.acts = acts],
         view = "detail" => (ui.bulk.op # "none" => left),
         DOMAIN srv' = DOMAIN srv, srv'.agreed = srv.agreed, srv'.acted \subseteq srv.agreed,
         srv'.refused = {}
  PROVE  TrashParts'
<1>1. /\ DOMAIN ui' = DOMAIN ui /\ ui'.view = view /\ ui'.errors = {} /\ ui'.requests = {}
      /\ ui'.selected = [k \in TR!Kinds |-> {}] /\ ui'.bulk = [ui.bulk EXCEPT !.left = left]
  BY DEF TR!Fresh, TrashParts, TrashShape
<1>2. /\ DOMAIN ui'.bulk = DOMAIN ui.bulk /\ ui'.bulk.op = ui.bulk.op
      /\ ui'.bulk.awaits = ui.bulk.awaits /\ ui'.bulk.setups = ui.bulk.setups
      /\ ui'.bulk.left = left
  BY <1>1 DEF TrashParts, TrashShape
<1>3. TrashShape' /\ TickedInItsTable'
  BY <1>1, <1>2 DEF TrashParts, TrashShape, TickedInItsTable
<1>4. AllAgreed' /\ RefusedAreNamed'
  BY <1>1, <1>2 DEF TrashParts, AllAgreed, RefusedAreNamed
<1>5. QED
  BY <1>3, <1>4 DEF TrashParts

LEMMA TrashLeaves ==
  ASSUME TrashParts, TR!BackToTrash \/ \E id \in TrashIds : TR!OpenDetail(id)
  PROVE  TrashParts'
<1>1. PICK view, id : TR!Leaves(view, id)
  BY DEF TR!BackToTrash, TR!OpenDetail
<1>2. /\ DOMAIN srv' = DOMAIN srv /\ srv'.agreed = srv.agreed /\ srv'.acted = srv.acted
      /\ srv'.refused = {}
  BY <1>1 DEF TR!Leaves, TrashParts, TrashShape
<1> DEFINE left == ui.bulk.op # "none"
           acts == ui.acts + 1
<1>3. ui' = [TR!Fresh(view, id) EXCEPT !.bulk = [ui.bulk EXCEPT !.left = left], !.acts = acts]
  BY <1>1 DEF TR!Leaves
<1>4. ui.bulk.op # "none" => left
  OBVIOUS
<1>5. srv'.acted \subseteq srv.agreed
  BY <1>2 DEF TrashParts, AllAgreed
<1> HIDE DEF left, acts
<1>6. QED
  BY <1>2, <1>3, <1>4, <1>5, TrashReopened

\* A row is dealt with; the page of a combo then goes back to the list.
LEMMA TrashRowAnswered ==
  ASSUME TrashParts, NEW q \in ui.requests, TR!RowAnswered(q) PROVE TrashParts'
<1>1. q.op # "unlink" /\ q.row \in srv.agreed
  BY DEF TR!RowAnswered, TrashParts, AllAgreed
<1>2. /\ DOMAIN srv' = DOMAIN srv /\ srv'.agreed = srv.agreed /\ srv'.ticked = srv.ticked
      /\ srv'.acted = srv.acted \union {q.row} /\ srv'.refused = srv.refused
  BY DEF TR!RowAnswered, TR!After, TrashParts, TrashShape
<1>3. srv'.acted \subseteq srv.agreed
  BY <1>1, <1>2 DEF TrashParts, AllAgreed
<1>4. CASE ui.view = "detail"
  <2>1. /\ DOMAIN ui' = DOMAIN ui /\ ui'.view = "list" /\ ui'.errors = {} /\ ui'.requests = {}
        /\ ui'.selected = [k \in TR!Kinds |-> {}] /\ ui'.bulk = ui.bulk
    BY <1>4 DEF TR!RowAnswered, TR!RowDone, TR!Fresh, TrashParts, TrashShape
  <2>2. TrashShape' /\ TickedInItsTable'
    BY <1>2, <2>1 DEF TrashParts, TrashShape, TickedInItsTable
  <2>3. AllAgreed' /\ RefusedAreNamed'
    BY <1>2, <1>3, <1>4, <2>1 DEF TrashParts, AllAgreed, RefusedAreNamed
  <2>4. QED
    BY <2>2, <2>3 DEF TrashParts
<1>5. CASE ui.view # "detail"
  <2>1. /\ DOMAIN ui' = DOMAIN ui /\ ui'.view = ui.view /\ ui'.errors = ui.errors
        /\ ui'.selected = ui.selected /\ ui'.bulk = ui.bulk /\ ui'.requests = ui.requests \ {q}
    BY <1>5 DEF TR!RowAnswered, TR!RowDone, TrashParts, TrashShape
  <2>2. TrashShape' /\ TickedInItsTable'
    BY <1>2, <2>1 DEF TrashParts, TrashShape, TickedInItsTable
  <2>3. AllAgreed' /\ RefusedAreNamed'
    BY <1>2, <1>3, <1>5, <2>1 DEF TrashParts, AllAgreed, RefusedAreNamed
  <2>4. QED
    BY <2>2, <2>3 DEF TrashParts
<1>6. QED
  BY <1>4, <1>5

LEMMA TrashStep == ASSUME TrashParts, TR!On, TR!Next PROVE TrashParts'
<1>1. CASE TrashElsewhere
  BY <1>1, TrashFieldsOnly
<1>2. ASSUME NEW kind \in TR!Kinds, NEW i \in TrashIds, TR!HandleRowSelection(kind, i) PROVE TrashParts'
  BY <1>2, TrashTicks DEF TR!HandleRowSelection
<1>3. ASSUME NEW kind \in TR!Kinds, NEW on \in BOOLEAN, TR!HandleSelectAll(kind, on) PROVE TrashParts'
  BY <1>3, TrashTicks DEF TR!HandleSelectAll
<1>4. CASE \E c \in Characters : TR!HandleCharacterChange(c)
  BY <1>4, TrashCharacter
<1>5. CASE TR!HandleBulkRestore \/ TR!HandleBulkPermanentDelete
  BY <1>5, TrashStarts DEF TR!HandleBulkRestore, TR!HandleBulkPermanentDelete, TR!CanStart
<1>6. CASE TR!BulkGoesOn \/ TR!BulkEnds \/ TR!DismissResult
  BY <1>6, TrashBulkGoesOn, TrashBulkEnds, TrashDismisses
<1>7. CASE TR!HandlePermanentDelete \/ \E row \in TR!Rows : TR!HandleRestore(row)
  BY <1>7, TrashRowAsked
<1>8. CASE \E row \in TR!Rows, ok \in BOOLEAN : TR!BulkAnswered(row, ok)
  BY <1>8, TrashBulkAnswered
<1>9. CASE \E q \in ui.requests : TR!RowAnswered(q)
  BY <1>9, TrashRowAnswered
<1>10. CASE TR!BackToTrash \/ \E id \in TrashIds : TR!OpenDetail(id)
  BY <1>10, TrashLeaves
<1>11. QED
  BY <1>1, <1>2, <1>3, <1>4, <1>5, <1>6, <1>7, <1>8, <1>9, <1>10
     DEF TR!Next, TR!Asked, TrashElsewhere

LEMMA TrashInit == TR!Init => TrashParts
<1> SUFFICES ASSUME TR!Init PROVE TrashParts
  OBVIOUS
<1>1. /\ DOMAIN srv = {"rows", "links", "ticked", "agreed", "acted", "refused", "others"}
      /\ srv.acted = {} /\ srv.refused = {}
  BY DEF TR!Init
<1>2. PICK seen, id : ui = [TR!Fresh("list", id) EXCEPT !.fetch = {}, !.seen = seen]
  BY DEF TR!Init
<1>3. /\ ui.view = "list" /\ ui.errors = {} /\ ui.requests = {} /\ ui.bulk = TR!NoBulk
      /\ ui.selected = [k \in TR!Kinds |-> {}]
      /\ DOMAIN ui = {"page", "view", "id", "known", "character", "seen", "fetch", "selected", "dialog",
                      "row", "requests", "blocking", "bulk", "errors", "acts"}
  BY <1>2 DEF TR!Fresh
<1>4. TrashShape /\ TickedInItsTable
  BY <1>1, <1>3 DEF TrashShape, TickedInItsTable, TR!NoBulk
<1>5. AllAgreed /\ RefusedAreNamed
  BY <1>1, <1>3 DEF AllAgreed, RefusedAreNamed, TR!NoBulk
<1>6. QED
  BY <1>4, <1>5 DEF TrashParts

LEMMA TrashInductive == TrashInv /\ [NextLists]_vars => TrashInv'
<1> SUFFICES ASSUME TrashInv, [NextLists]_vars PROVE TrashInv'
  OBVIOUS
<1>1. CASE ui.page = "trash" /\ TR!Next
  BY <1>1, TrashStep DEF TrashInv, TR!On
<1>2. CASE ui.page # "trash" /\ ui'.page = ui.page
  BY <1>2 DEF TrashInv
<1>3. CASE UNCHANGED vars
  BY <1>3, TrashQuietKeeps DEF TrashInv, TrashQuiet, vars
<1>4. QED
  BY <1>1, <1>2, <1>3 DEF NextLists, Stays

\* A bulk operation of the trash acts on rows that were ticked in their own table and that the user
\* was shown when agreeing; a row the server refused stays named until the result is dismissed or
\* the list is left (TrashPage.tsx, runBulk and its callers).
THEOREM OnlyAgreedIsDone == SpecLists => []BulkActsAsAgreed
<1>1. InitLists => TrashInv
  BY TrashInit DEF InitLists, TrashInv, TR!On, PU!On, SG!On, CL!On, IM!On
<1>2. TrashInv => BulkActsAsAgreed
  BY DEF TrashInv, TrashParts, AllAgreed, RefusedAreNamed, BulkActsAsAgreed, TR!BulkActsAsAgreed,
         TR!ActsOnlyOnAgreed, TR!RefusedStaysNamed, TR!On, TR!BarShown, TR!HasResult
<1>3. QED
  BY <1>1, <1>2, TrashInductive, PTL DEF SpecLists

-----------------------------------------------------------------------------
(* The lists of punishes.                                                  *)
PunishShape ==
  /\ DOMAIN ui = {"page", "screen", "data", "fetch", "read", "requests", "hidden", "acts"}
  /\ DOMAIN srv = {"combos", "adopted", "curated", "pruned", "made"}
  /\ \A q \in ui.requests : DOMAIN q = {"op", "combo", "move", "tells", "left", "n"}

\* What the query reads and shows is what is stored when it reads; a write starts it again.
ReadsWhatIsStored ==
  /\ ui.fetch \in {"sent", "read", "idle"}
  /\ ui.fetch = "read" => ui.read = Some(PU!Rows)
  /\ ui.fetch = "idle" => ui.data = Some(PU!Rows)

\* The one request of its kind keeps its callbacks, unless its page has been left.
OutcomeTold == \A q \in ui.requests : q.op \in {"materialize", "curate"} => q.tells \/ q.left

PunishParts == PunishShape /\ ReadsWhatIsStored /\ OutcomeTold

PunishInv == ui.page = "punish" => PunishParts

LEMMA PunishReads ==
  ASSUME PunishParts, PU!FetchRead \/ PU!FetchAnswered PROVE PunishParts'
<1>1. /\ srv' = srv /\ PU!Rows' = PU!Rows /\ DOMAIN ui' = DOMAIN ui /\ ui'.requests = ui.requests
      /\ \/ ui.fetch = "sent" /\ ui'.fetch = "read" /\ ui'.read = Some(PU!Rows)
         \/ ui.fetch = "read" /\ ui'.fetch = "idle" /\ ui'.data = ui.read
  BY DEF PU!FetchRead, PU!FetchAnswered, PU!Sets, PU!Some, Some, PU!Rows, PunishParts, PunishShape
<1>2. PunishShape' /\ ReadsWhatIsStored'
  BY <1>1 DEF PunishParts, PunishShape, ReadsWhatIsStored
<1>3. OutcomeTold'
  BY <1>1 DEF PunishParts, OutcomeTold
<1>4. QED
  BY <1>2, <1>3 DEF PunishParts

\* Doings of the user that send nothing.
LEMMA PunishHides ==
  ASSUME PunishParts, PU!RestoreAll \/ \E c \in PU!Combos : PU!HideCombo(c) PROVE PunishParts'
<1>1. /\ srv' = srv /\ PU!Rows' = PU!Rows /\ DOMAIN ui' = DOMAIN ui /\ ui'.requests = ui.requests
      /\ ui'.fetch = ui.fetch /\ ui'.read = ui.read /\ ui'.data = ui.data
  BY DEF PU!RestoreAll, PU!HideCombo, PU!Does, PU!Sets, PU!Rows, PunishParts, PunishShape
<1>2. QED
  BY <1>1 DEF PunishParts, PunishShape, ReadsWhatIsStored, OutcomeTold

\* Another page hears no answer any more.
LEMMA PunishGoes == ASSUME PunishParts, NEW screen, PU!GoTo(screen) PROVE PunishParts'
<1> DEFINE requests == {[q EXCEPT !.tells = FALSE, !.left = TRUE] : q \in ui.requests}
<1>1. /\ srv' = srv /\ DOMAIN ui' = DOMAIN ui /\ ui'.fetch = "sent" /\ ui'.requests = requests
  BY DEF PU!GoTo, PU!Does, PU!Sets, PU!Opens, PunishParts, PunishShape
<1>2. \A q \in requests : q.left /\ DOMAIN q = {"op", "combo", "move", "tells", "left", "n"}
  BY DEF PunishParts, PunishShape
<1> HIDE DEF requests
<1>3. PunishShape' /\ ReadsWhatIsStored' /\ OutcomeTold'
  BY <1>1, <1>2 DEF PunishParts, PunishShape, ReadsWhatIsStored, OutcomeTold
<1>4. QED
  BY <1>3 DEF PunishParts

\* A request of a kind whose outcome must be told is sent only when none of its kind is under way.
LEMMA PunishSends ==
  ASSUME PunishParts, NEW op, NEW c, NEW m,
         op \in {"materialize", "curate"} => ~PU!Pending(op),
         PU!Sets(PU!Does(PU!Mutate(ui, op, c, m)))
  PROVE  PunishParts'
<1> DEFINE new     == [op |-> op, combo |-> c, move |-> m, tells |-> TRUE, left |-> FALSE, n |-> ui.acts]
           mute(q) == [q EXCEPT !.tells = @ /\ q.op # op]
           muted   == {mute(q) : q \in ui.requests}
<1>1. /\ srv' = srv /\ DOMAIN ui' = DOMAIN ui /\ ui'.fetch = ui.fetch /\ ui'.read = ui.read
      /\ ui'.data = ui.data /\ ui'.requests = muted \union {new}
  BY DEF PU!Sets, PU!Does, PU!Mutate, PunishParts, PunishShape
<1>2. /\ new.op = op /\ new.tells = TRUE /\ DOMAIN new = {"op", "combo", "move", "tells", "left", "n"}
  OBVIOUS
<1>3. ASSUME NEW q \in ui.requests
      PROVE  /\ DOMAIN mute(q) = DOMAIN q /\ mute(q).op = q.op /\ mute(q).left = q.left
             /\ q.op # op /\ q.tells => mute(q).tells
  <2> DEFINE tells == q.tells /\ q.op # op
  <2>1. DOMAIN q = {"op", "combo", "move", "tells", "left", "n"}
    BY DEF PunishParts, PunishShape
  <2>2. mute(q) = [q EXCEPT !.tells = tells]
    OBVIOUS
  <2>3. q.op # op /\ q.tells => tells
    OBVIOUS
  <2> HIDE DEF tells
  <2>4. QED
    BY <2>1, <2>2, <2>3
<1>4. PU!Rows' = PU!Rows
  BY <1>1 DEF PU!Rows
<1> HIDE DEF new, mute
<1>5. PunishShape'
  BY <1>1, <1>2, <1>3 DEF PunishParts, PunishShape
<1>6. ReadsWhatIsStored'
  BY <1>1, <1>4 DEF PunishParts, ReadsWhatIsStored
<1>7. ASSUME NEW r \in ui'.requests, r.op \in {"materialize", "curate"} PROVE r.tells \/ r.left
  <2>1. CASE r = new
    BY <1>2, <2>1
  <2>2. CASE r \in muted
    <3>1. PICK q \in ui.requests : r = mute(q)
      BY <2>2
    <3>2. q.op # op
      BY <1>3, <1>7, <3>1 DEF PU!Pending
    <3>3. QED
      BY <1>3, <1>7, <3>1, <3>2 DEF PunishParts, OutcomeTold
  <2>3. QED
    BY <1>1, <1>7, <2>1, <2>2
<1>8. QED
  BY <1>5, <1>6, <1>7 DEF PunishParts, OutcomeTold

PunishSending ==
  \/ \E m \in PunishMoves : PU!Prune(m) \/ PU!Unprune(m)
  \/ \E c \in PU!Combos, m \in PunishMoves :
       \/ PU!ToggleAdopted(c, m) \/ PU!RemoveAdoption(c, m) \/ PU!DoMaterialize(c, m)
       \/ PU!Curate(c, m) \/ PU!Uncurate(c, m)

LEMMA PunishAsks == ASSUME PunishParts, PunishSending PROVE PunishParts'
<1>1. ASSUME NEW m \in PunishMoves, PU!Prune(m) \/ PU!Unprune(m) PROVE PunishParts'
  BY <1>1, PunishSends DEF PU!Prune, PU!Unprune
<1>2. ASSUME NEW c \in PU!Combos, NEW m \in PunishMoves, PU!ToggleAdopted(c, m) PROVE PunishParts'
  BY <1>2, PunishSends DEF PU!ToggleAdopted
<1>3. ASSUME NEW c \in PU!Combos, NEW m \in PunishMoves, PU!RemoveAdoption(c, m) \/ PU!Uncurate(c, m)
      PROVE  PunishParts'
  BY <1>3, PunishSends DEF PU!RemoveAdoption, PU!Uncurate
<1>4. ASSUME NEW c \in PU!Combos, NEW m \in PunishMoves, PU!DoMaterialize(c, m) \/ PU!Curate(c, m)
      PROVE  PunishParts'
  BY <1>4, PunishSends DEF PU!DoMaterialize, PU!Curate, PU!MayAsk
<1>5. QED
  BY <1>1, <1>2, <1>3, <1>4 DEF PunishSending

LEMMA PunishAnswered ==
  ASSUME PunishParts, NEW q \in ui.requests, PU!Succeeds(q) \/ PU!Fails(q) PROVE PunishParts'
<1>1. CASE PU!Fails(q)
  <2>1. /\ srv' = srv /\ PU!Rows' = PU!Rows /\ DOMAIN ui' = DOMAIN ui /\ ui'.requests = ui.requests \ {q}
        /\ ui'.fetch = ui.fetch /\ ui'.read = ui.read /\ ui'.data = ui.data
    BY <1>1 DEF PU!Fails, PU!Sets, PU!Rows, PunishParts, PunishShape
  <2>2. QED
    BY <2>1 DEF PunishParts, PunishShape, ReadsWhatIsStored, OutcomeTold
<1>2. CASE PU!Succeeds(q)
  <2>1. DOMAIN ui' = DOMAIN ui /\ ui'.requests = ui.requests \ {q} /\ ui'.fetch = "sent"
    BY <1>2 DEF PU!Succeeds, PU!Invalidated, PU!InvalidatePunish, PunishParts, PunishShape
  <2>2. DOMAIN srv' = DOMAIN srv
    BY <1>2 DEF PU!Succeeds, PU!After, PU!AfterMaterialize, PunishParts, PunishShape
  <2>3. QED
    BY <2>1, <2>2 DEF PunishParts, PunishShape, ReadsWhatIsStored, OutcomeTold
<1>3. QED
  BY <1>1, <1>2

LEMMA PunishStep == ASSUME PunishParts, PU!On, PU!Next PROVE PunishParts'
<1>1. CASE PU!FetchRead \/ PU!FetchAnswered
  BY <1>1, PunishReads
<1>2. CASE PU!RestoreAll \/ \E c \in PU!Combos : PU!HideCombo(c)
  BY <1>2, PunishHides
<1>3. CASE \E screen \in {"search", "list"} : PU!GoTo(screen)
  BY <1>3, PunishGoes
<1>4. CASE PunishSending
  BY <1>4, PunishAsks
<1>5. CASE \E q \in ui.requests : PU!Succeeds(q) \/ PU!Fails(q)
  BY <1>5, PunishAnswered
<1>6. QED
  BY <1>1, <1>2, <1>3, <1>4, <1>5 DEF PU!Next, PU!Asked, PunishSending

LEMMA PunishInit == PU!Init => PunishParts
<1> SUFFICES ASSUME PU!Init PROVE PunishParts
  OBVIOUS
<1>1. /\ DOMAIN srv = {"combos", "adopted", "curated", "pruned", "made"}
      /\ DOMAIN ui = {"page", "screen", "data", "fetch", "read", "requests", "hidden", "acts"}
      /\ ui.fetch = "sent" /\ ui.requests = {}
  BY DEF PU!Init
<1>2. QED
  BY <1>1 DEF PunishParts, PunishShape, ReadsWhatIsStored, OutcomeTold

LEMMA PunishInductive == PunishInv /\ [NextLists]_vars => PunishInv'
<1> SUFFICES ASSUME PunishInv, [NextLists]_vars PROVE PunishInv'
  OBVIOUS
<1>1. CASE ui.page = "punish" /\ PU!Next
  BY <1>1, PunishStep DEF PunishInv, PU!On
<1>2. CASE ui.page # "punish" /\ ui'.page = ui.page
  BY <1>2 DEF PunishInv
<1>3. CASE UNCHANGED vars
  BY <1>3 DEF PunishInv, PunishParts, PunishShape, ReadsWhatIsStored, OutcomeTold, PU!Rows, vars
<1>4. QED
  BY <1>1, <1>2, <1>3 DEF NextLists, Stays

LEMMA SameCardinality == ASSUME NEW S PROVE PU!Cardinality(S) = Cardinality(S)
BY DEF PU!Cardinality, Cardinality

\* The tabs and the parts of what belongs to no tab divide the adoptions between them.
LEMMA OnePlace == PU!EachAdoptionInOnePlace
<1> USE DEF PU!EachAdoptionInOnePlace
<1> HAVE PU!On /\ ui.screen = "list" /\ ui.data # PU!None
<1> TAKE p \in PU!Data.adopted \ PU!Data.curated
<1> DEFINE hit == PU!Hit(p[1])
           version == PU!HasVersion(p[1])
           tabs == {g \in PU!Guards : p \in PU!InTab(g)}
           parts == {s \in PU!Sections : p \in PU!SplitUnclassified[s]}
<1>1. tabs = IF hit \in PU!Guards THEN {hit} ELSE {}
  BY DEF PU!InTab
<1>2. /\ PU!Sections = {"convertible", "reusable", "materialized"}
      /\ p \in PU!Unclassified <=> hit \notin PU!Guards
      /\ p \in PU!SplitUnclassified["convertible"]
           <=> hit \notin PU!Guards /\ hit \notin PU!PunishCounters /\ ~version
      /\ p \in PU!SplitUnclassified["reusable"] <=> hit \notin PU!Guards /\ hit \in PU!PunishCounters
      /\ p \in PU!SplitUnclassified["materialized"]
           <=> hit \notin PU!Guards /\ hit \notin PU!PunishCounters /\ version
  BY DEF PU!Sections, PU!SplitUnclassified, PU!Unclassified
<1>3. parts = IF hit \in PU!Guards THEN {}
              ELSE IF hit \in PU!PunishCounters THEN {"reusable"}
              ELSE IF version THEN {"materialized"} ELSE {"convertible"}
  BY <1>2
<1> HIDE DEF tabs, parts, hit, version
<1>4. CASE hit \in PU!Guards
  <2>1. Cardinality(tabs) = 1 /\ Cardinality(parts) = 0
    BY <1>1, <1>3, <1>4, FS_EmptySet, FS_Singleton
  <2>2. Cardinality(tabs) + Cardinality(parts) = 1
    BY <2>1
  <2>3. QED
    BY <2>2, SameCardinality DEF tabs, parts
<1>5. CASE hit \notin PU!Guards
  <2>1. Cardinality(tabs) = 0
    BY <1>1, <1>5, FS_EmptySet
  <2>2. PICK s : parts = {s}
    BY <1>3, <1>5
  <2>3. Cardinality(parts) = 1
    BY <2>2, FS_Singleton
  <2>4. Cardinality(tabs) + Cardinality(parts) = 1
    BY <2>1, <2>3
  <2>5. QED
    BY <2>4, SameCardinality DEF tabs, parts
<1>6. QED
  BY <1>4, <1>5

\* An idle list of punishes shows what is stored, every adoption of it in exactly one tab or one part
\* of what belongs to no tab, and a page that was not left tells what became of an adoption it
\* materialises or curates (PunishListPage.tsx, hooks.ts).
THEOREM PunishListShowsAll == SpecLists => []PunishListIsTrue
<1>1. InitLists => PunishInv
  BY PunishInit DEF InitLists, PunishInv, TR!On, PU!On, SG!On, CL!On, IM!On
<1>2. PunishInv => PunishListIsTrue
  <2> SUFFICES ASSUME PunishInv, ui.page = "punish" PROVE PunishListIsTrue
    BY DEF PunishListIsTrue, PU!PunishListIsTrue, PU!EachAdoptionInOnePlace, PU!ShownIsStored,
           PU!OutcomeIsTold, PU!On
  <2>1. PU!ShownIsStored
    BY DEF PunishInv, PunishParts, ReadsWhatIsStored, PU!ShownIsStored, PU!Some, Some
  <2>2. PU!OutcomeIsTold
    BY DEF PunishInv, PunishParts, OutcomeTold, PU!OutcomeIsTold
  <2>3. PU!EachAdoptionInOnePlace
    BY OnePlace
  <2>4. QED
    BY <2>1, <2>2, <2>3 DEF PunishListIsTrue, PU!PunishListIsTrue
<1>3. QED
  BY <1>1, <1>2, PunishInductive, PTL DEF SpecLists

-----------------------------------------------------------------------------
(* The filters of the list of combos.                                      *)

\* What an address stands for when the session keeps the same one.
ResolvedAlike(address, default) ==
  IF address.character # None THEN The(address.character)
  ELSE IF default # None THEN The(default) ELSE Order[1]

\* While the list is shown the session holds its address, and what both stand for was declared last.
FiltersParts ==
  /\ DOMAIN ui = {"page", "section", "screen", "address", "acts"}
  /\ DOMAIN srv = {"session", "default", "declared"}
  /\ DOMAIN srv.session = {"character", "starter", "result", "axis"}
  /\ DOMAIN ui.address = {"character", "starter", "result", "axis"}
  /\ ui.screen = "list" => srv.session = ui.address
  /\ ResolvedAlike(srv.session, srv.default) = srv.declared
  /\ ui.address.axis # None => ui.address.result # None
  /\ srv.session.axis # None => srv.session.result # None

LEMMA FiltersKept ==
  ASSUME FiltersParts, NEW u, NEW s, NEW address, CL!Kept(u, s, address),
         DOMAIN u = DOMAIN ui, u.section = ui.section, DOMAIN s = DOMAIN srv,
         DOMAIN address = DOMAIN ui.address, ResolvedAlike(address, s.default) = s.declared,
         address.axis # None => address.result # None
  PROVE  FiltersParts' /\ ui'.section = ui.section
<1>1. DOMAIN ui' = DOMAIN ui /\ ui'.address = address /\ ui'.section = ui.section
  BY DEF CL!Kept, CL!Does, FiltersParts
<1>2. /\ DOMAIN srv' = DOMAIN srv /\ srv'.session = address /\ srv'.declared = s.declared
      /\ srv'.default = s.default
  BY DEF CL!Kept, FiltersParts
<1>3. QED
  BY <1>1, <1>2 DEF FiltersParts, ResolvedAlike

FiltersAct ==
  \/ CL!SetStarter \/ CL!ClearFilters \/ CL!OpenList \/ CL!OpenSettings
  \/ \E c : CL!SetCharacter(c) \/ CL!SetDefault(c)
  \/ \E value \in {None, Some("ok")} : CL!SetResult(value) \/ CL!SetAxis(value)

LEMMA FiltersStep == ASSUME FiltersParts, FiltersAct PROVE FiltersParts' /\ ui'.section = ui.section
<1> USE DEF CL!OnList
<1>1. ui.screen = "list" => srv.session = ui.address
  BY DEF FiltersParts
<1>2. ResolvedAlike(srv.session, srv.default) = srv.declared
  BY DEF FiltersParts
<1>3. DOMAIN ui.address = {"character", "starter", "result", "axis"}
  BY DEF FiltersParts
<1>4. CASE CL!SetStarter
  <2> DEFINE a == [ui.address EXCEPT !.starter = CL!Some(MoveOf[CL!Resolved(ui.address)])]
  <2>1. CL!Kept(ui, srv, a)
    BY <1>4 DEF CL!SetStarter
  <2>2. /\ DOMAIN a = DOMAIN ui.address /\ a.character = ui.address.character
        /\ a.axis = ui.address.axis /\ a.result = ui.address.result
    BY <1>3
  <2>3. ResolvedAlike(a, srv.default) = srv.declared
    BY <1>1, <1>2, <1>4, <2>2 DEF CL!SetStarter, ResolvedAlike
  <2>4. a.axis # None => a.result # None
    BY <2>2 DEF FiltersParts
  <2> HIDE DEF a
  <2>5. QED
    BY <2>1, <2>2, <2>3, <2>4, FiltersKept
<1>5. CASE CL!ClearFilters
  <2> DEFINE a == [CL!NoFilters EXCEPT !.character = ui.address.character]
  <2>1. CL!Kept(ui, srv, a)
    BY <1>5 DEF CL!ClearFilters
  <2>2. DOMAIN a = DOMAIN ui.address /\ a.character = ui.address.character /\ a.axis = None
    BY <1>3 DEF CL!NoFilters, CL!None, None
  <2>3. ResolvedAlike(a, srv.default) = srv.declared
    BY <1>1, <1>2, <1>5, <2>2 DEF CL!ClearFilters, ResolvedAlike
  <2> HIDE DEF a
  <2>4. QED
    BY <2>1, <2>2, <2>3, FiltersKept
<1>6. CASE CL!OpenList
  <2> DEFINE u == [ui EXCEPT !.screen = "list"]
  <2>1. CL!Kept(u, srv, srv.session)
    BY <1>6 DEF CL!OpenList
  <2>2. DOMAIN u = DOMAIN ui /\ u.section = ui.section
    BY DEF FiltersParts
  <2>3. /\ DOMAIN srv.session = DOMAIN ui.address
        /\ srv.session.axis # None => srv.session.result # None
    BY DEF FiltersParts
  <2> HIDE DEF u
  <2>4. QED
    BY <1>2, <2>1, <2>2, <2>3, FiltersKept
<1>7. CASE CL!OpenSettings
  <2>1. /\ srv' = srv /\ DOMAIN ui' = DOMAIN ui /\ ui'.section = ui.section
        /\ ui'.address = ui.address /\ ui'.screen = "settings"
    BY <1>7 DEF CL!OpenSettings, CL!Sets, CL!Does, FiltersParts
  <2>2. QED
    BY <2>1 DEF FiltersParts, ResolvedAlike
<1>8. ASSUME NEW c, CL!SetCharacter(c) PROVE FiltersParts' /\ ui'.section = ui.section
  <2> DEFINE s == [srv EXCEPT !.declared = c]
             a == [ui.address EXCEPT !.character = CL!Some(c), !.starter = CL!None]
  <2>1. CL!Kept(ui, s, a)
    BY <1>8 DEF CL!SetCharacter
  <2>2. /\ DOMAIN a = DOMAIN ui.address /\ a.character = <<c>>
        /\ a.axis = ui.address.axis /\ a.result = ui.address.result
    BY <1>3 DEF CL!Some
  <2>3. DOMAIN s = DOMAIN srv /\ s.declared = c
    BY DEF FiltersParts
  <2>4. ResolvedAlike(a, s.default) = s.declared
    BY <2>2, <2>3 DEF ResolvedAlike, None, The
  <2>5. a.axis # None => a.result # None
    BY <2>2 DEF FiltersParts
  <2> HIDE DEF a, s
  <2>6. QED
    BY <2>1, <2>2, <2>3, <2>4, <2>5, FiltersKept
<1>9. ASSUME NEW c, CL!SetDefault(c) PROVE FiltersParts' /\ ui'.section = ui.section
  <2>1. DOMAIN ui' = DOMAIN ui /\ ui'.section = ui.section /\ ui'.address = ui.address /\ ui'.screen = ui.screen
    BY <1>9 DEF CL!SetDefault, CL!Does, FiltersParts
  <2>2. ui.screen = "settings"
    BY <1>9 DEF CL!SetDefault
  <2>3. /\ DOMAIN srv' = DOMAIN srv /\ srv'.default = <<c>> /\ srv'.declared = c
        /\ srv'.session = [srv.session EXCEPT !.character = CL!None]
    BY <1>9 DEF CL!SetDefault, CL!ClearSessionCharacter, CL!Some, FiltersParts
  <2>4. /\ DOMAIN srv'.session = DOMAIN srv.session /\ srv'.session.character = None
        /\ srv'.session.axis = srv.session.axis /\ srv'.session.result = srv.session.result
    BY <2>3 DEF FiltersParts, CL!None, None
  <2>5. ResolvedAlike(srv'.session, srv'.default) = srv'.declared
    BY <2>3, <2>4 DEF ResolvedAlike, None, The
  <2>6. QED
    BY <2>1, <2>2, <2>3, <2>4, <2>5 DEF FiltersParts
<1>10. ASSUME NEW value \in {None, Some("ok")}, CL!SetResult(value)
       PROVE  FiltersParts' /\ ui'.section = ui.section
  <2> DEFINE a == IF value = CL!None THEN CL!ClearResult(ui.address)
                  ELSE [ui.address EXCEPT !.result = value]
  <2>1. CL!Kept(ui, srv, a)
    BY <1>10 DEF CL!SetResult
  <2>2. DOMAIN a = DOMAIN ui.address /\ a.character = ui.address.character
    BY <1>3 DEF CL!ClearResult
  <2>3. a.axis # None => a.result # None
    BY <1>3 DEF CL!ClearResult, FiltersParts, CL!None, None
  <2>4. ResolvedAlike(a, srv.default) = srv.declared
    BY <1>1, <1>2, <1>10, <2>2 DEF CL!SetResult, ResolvedAlike
  <2> HIDE DEF a
  <2>5. QED
    BY <2>1, <2>2, <2>3, <2>4, FiltersKept
<1>11. ASSUME NEW value \in {None, Some("ok")}, CL!SetAxis(value)
       PROVE  FiltersParts' /\ ui'.section = ui.section
  <2> DEFINE a == [ui.address EXCEPT !.axis = value]
  <2>1. CL!Kept(ui, srv, a) /\ ui.address.result # None
    BY <1>11 DEF CL!SetAxis, CL!None, None
  <2>2. /\ DOMAIN a = DOMAIN ui.address /\ a.character = ui.address.character
        /\ a.result = ui.address.result
    BY <1>3
  <2>3. ResolvedAlike(a, srv.default) = srv.declared
    BY <1>1, <1>2, <1>11, <2>2 DEF CL!SetAxis, ResolvedAlike
  <2> HIDE DEF a
  <2>4. QED
    BY <2>1, <2>2, <2>3, FiltersKept
<1>12. QED
  BY <1>4, <1>5, <1>6, <1>7, <1>8, <1>9, <1>10, <1>11 DEF FiltersAct

-----------------------------------------------------------------------------
(* The export.                                                             *)

LEMMA SameNumber == ASSUME NEW S PROVE CL!Cardinality(S) = Cardinality(S)
BY DEF CL!Cardinality, Cardinality

ExportShape ==
  /\ DOMAIN ui = {"page", "section", "tab", "data", "fetch", "selecting", "selected", "dialog",
                  "formats", "files", "wanted", "told", "run", "acts"}
  /\ DOMAIN ui.run = {"ids", "left", "combos", "failed"}
  /\ DOMAIN srv = {"alive", "trained"} /\ srv.alive \subseteq Ids
  /\ ui.dialog # "none" => ui.data # CL!None

\* An answer has at most the rows it counts; one that is going to be read again has a row that is gone.
AnswerCounts ==
  ui.data # CL!None =>
    /\ Cardinality(CL!Data.items) \in Nat /\ CL!Data.total \in Nat
    /\ Cardinality(CL!Data.items) <= CL!Data.total
    /\ ui.fetch => ~(CL!Data.items \subseteq srv.alive)

\* A run that leaves out something has been agreed to; one that can succeed is about what is there to
\* export now.
RunCounts ==
  /\ ui.dialog = "confirm" => ui.told = TRUE
  /\ ui.dialog = "running" =>
       /\ ui.told = TRUE \/ Cardinality(ui.run.ids) = ui.wanted
       /\ ui.told = TRUE \/ ~(ui.run.ids \subseteq srv.alive)
            \/ (ui.run.ids = CL!ExportIds /\ ui.wanted = CL!ExportTotal)
       /\ ui.run.combos # CL!None => CL!The(ui.run.combos) \subseteq srv.alive

\* As long as the dialog is open, the files of its earlier runs are of what is there to export now.
FilesCount ==
  /\ \A file \in ui.files : ui.told = TRUE \/ Cardinality(file.ids) = ui.wanted
  /\ ui.dialog # "none" /\ ui.files # {} =>
       \/ ui.told = TRUE
       \/ ui.wanted = CL!ExportTotal /\ (ui.selected = {} => ~ui.fetch)

ExportParts == ExportShape /\ AnswerCounts /\ RunCounts /\ FilesCount

LEMMA AnswerSize ==
  ASSUME NEW tab, srv.alive \subseteq Ids
  PROVE  /\ Cardinality(CL!Answer(tab).items) \in Nat /\ CL!Answer(tab).total \in Nat
         /\ Cardinality(CL!Answer(tab).items) <= CL!Answer(tab).total
<1>1. IsFiniteSet(CL!Matches(tab))
  <2>1. CL!Matches(tab) \subseteq Ids
    BY DEF CL!Matches
  <2>2. QED
    BY <2>1, ListsAssumption, FS_Subset
<1>2. CL!Answer(tab).items \subseteq CL!Matches(tab) /\ CL!Answer(tab).total = Cardinality(CL!Matches(tab))
  BY SameNumber DEF CL!Answer
<1>3. /\ IsFiniteSet(CL!Answer(tab).items)
      /\ Cardinality(CL!Answer(tab).items) <= Cardinality(CL!Matches(tab))
  BY <1>1, <1>2, FS_Subset
<1>4. QED
  BY <1>1, <1>2, <1>3, FS_CardinalityType

LEMMA ExportFetches == ASSUME ExportParts, CL!FetchRows PROVE ExportParts' /\ ui'.section = ui.section
<1>1. /\ srv' = srv /\ ui.fetch /\ DOMAIN ui' = DOMAIN ui /\ ui'.section = ui.section
      /\ ui'.data = CL!Some(CL!Answer(ui.tab)) /\ ui'.fetch = FALSE /\ ui'.selected = ui.selected
      /\ ui'.dialog = ui.dialog /\ ui'.files = ui.files /\ ui'.wanted = ui.wanted /\ ui'.told = ui.told
      /\ ui'.run = ui.run
  BY DEF CL!FetchRows, CL!Sets, ExportParts, ExportShape
<1>2. ui'.data # CL!None /\ CL!The(ui'.data) = CL!Answer(ui.tab)
  BY <1>1 DEF CL!Some, CL!The, CL!None
<1>3. ExportShape'
  BY <1>1, <1>2 DEF ExportParts, ExportShape
<1>4. AnswerCounts'
  BY <1>1, <1>2, AnswerSize DEF ExportParts, ExportShape, AnswerCounts, CL!Data
<1>5. RunCounts'
  <2>1. ASSUME ui.dialog = "running", ui.told # TRUE, ui.run.ids \subseteq srv.alive
        PROVE  (ui.run.ids = CL!ExportIds /\ ui.wanted = CL!ExportTotal)'
    <3>1. ui.run.ids = CL!ExportIds /\ ui.wanted = CL!ExportTotal
      BY <2>1 DEF ExportParts, RunCounts
    <3>2. CASE ui.selected = {}
      <4>1. CL!Data.items \subseteq srv.alive /\ ui.data # CL!None
        BY <2>1, <3>1, <3>2 DEF CL!ExportIds, ExportParts, ExportShape
      <4>2. QED
        BY <1>1, <4>1 DEF ExportParts, AnswerCounts
    <3>3. CASE ui.selected # {}
      BY <1>1, <3>1, <3>3 DEF CL!ExportIds, CL!ExportTotal
    <3>4. QED
      BY <3>2, <3>3
  <2>2. ui.dialog = "confirm" => ui.told = TRUE
    BY DEF ExportParts, RunCounts
  <2>3. ui.dialog = "running" =>
          /\ ui.told = TRUE \/ Cardinality(ui.run.ids) = ui.wanted
          /\ ui.run.combos # CL!None => CL!The(ui.run.combos) \subseteq srv.alive
    BY DEF ExportParts, RunCounts
  <2>4. QED
    BY <1>1, <2>1, <2>2, <2>3 DEF RunCounts
<1>6. FilesCount'
  <2>1. \A file \in ui.files : ui.told = TRUE \/ Cardinality(file.ids) = ui.wanted
    BY DEF ExportParts, FilesCount
  <2>2. ASSUME ui.dialog # "none", ui.files # {}, ui.told # TRUE PROVE (ui.wanted = CL!ExportTotal)'
    <3>1. ui.wanted = CL!ExportTotal /\ ui.selected # {}
      BY <1>1, <2>2 DEF ExportParts, FilesCount
    <3>2. QED
      BY <1>1, <3>1 DEF CL!ExportTotal
  <2>3. QED
    BY <1>1, <2>1, <2>2 DEF FilesCount
<1>7. QED
  BY <1>1, <1>3, <1>4, <1>5, <1>6 DEF ExportParts

\* Without the dialog nothing but the rows and the selection changes.
ExportRowsAct ==
  \/ CL!EnterSelectMode \/ CL!ExitSelectMode
  \/ \E tab \in {"all", "trained"} : CL!SetTab(tab)
  \/ \E id \in Ids : CL!ToggleSelect(id) \/ CL!ConfirmDelete(id)

LEMMA ExportRows == ASSUME ExportParts, ExportRowsAct PROVE ExportParts' /\ ui'.section = ui.section
<1> USE DEF CL!OnRows
<1>1. /\ ui.dialog = "none" /\ DOMAIN ui' = DOMAIN ui /\ ui'.section = ui.section
      /\ ui'.dialog = ui.dialog /\ ui'.files = ui.files /\ ui'.wanted = ui.wanted /\ ui'.told = ui.told
      /\ ui'.run = ui.run
  BY DEF ExportRowsAct, CL!EnterSelectMode, CL!ExitSelectMode, CL!SetTab, CL!ToggleSelect,
         CL!ConfirmDelete, CL!Sets, CL!Does, ExportParts, ExportShape
<1>2. DOMAIN srv' = DOMAIN srv /\ srv'.alive \subseteq srv.alive
  BY DEF ExportRowsAct, CL!EnterSelectMode, CL!ExitSelectMode, CL!SetTab, CL!ToggleSelect,
         CL!ConfirmDelete, CL!Sets, ExportParts, ExportShape
<1>3. AnswerCounts'
  <2>1. CASE \E tab \in {"all", "trained"} : CL!SetTab(tab)
    <3>1. ui'.data = CL!None
      BY <2>1 DEF CL!SetTab, CL!Sets, CL!Does, ExportParts, ExportShape
    <3>2. QED
      BY <3>1 DEF AnswerCounts
  <2>2. CASE \E id \in Ids : CL!ConfirmDelete(id)
    <3>1. PICK id \in Ids : CL!ConfirmDelete(id)
      BY <2>2
    <3>2. /\ ui'.data = ui.data /\ srv'.alive = srv.alive \ {id} /\ id \in CL!Data.items
      BY <3>1 DEF CL!ConfirmDelete, CL!Does, ExportParts, ExportShape
    <3>3. QED
      BY <3>2 DEF ExportParts, AnswerCounts, CL!Data
  <2>3. CASE CL!EnterSelectMode \/ CL!ExitSelectMode \/ \E id \in Ids : CL!ToggleSelect(id)
    <3>1. srv' = srv /\ ui'.data = ui.data /\ ui'.fetch = ui.fetch
      BY <2>3 DEF CL!EnterSelectMode, CL!ExitSelectMode, CL!ToggleSelect, CL!Sets, CL!Does,
                  ExportParts, ExportShape
    <3>2. QED
      BY <3>1 DEF ExportParts, AnswerCounts, CL!Data
  <2>4. QED
    BY <2>1, <2>2, <2>3 DEF ExportRowsAct
<1>4. ExportShape'
  BY <1>1, <1>2 DEF ExportParts, ExportShape
<1>5. RunCounts' /\ FilesCount'
  BY <1>1 DEF ExportParts, RunCounts, FilesCount
<1>6. QED
  BY <1>1, <1>3, <1>4, <1>5 DEF ExportParts

\* What the dialog leaves alone.
RowsStay == srv' = srv /\ ui'.data = ui.data /\ ui'.fetch = ui.fetch /\ ui'.selected = ui.selected

LEMMA RowsStayed ==
  ASSUME ExportParts, RowsStay, DOMAIN ui' = DOMAIN ui, DOMAIN ui'.run = DOMAIN ui.run, ui.data # CL!None
  PROVE  /\ ExportShape' /\ AnswerCounts' /\ CL!ExportIds' = CL!ExportIds /\ CL!ExportTotal' = CL!ExportTotal
BY DEF ExportParts, ExportShape, AnswerCounts, RowsStay, CL!Data, CL!ExportIds, CL!ExportTotal

LEMMA ExportOpens ==
  ASSUME ExportParts, CL!OpenExport \/ CL!CancelExport \/ \E format : CL!ToggleFormat(format)
  PROVE  ExportParts' /\ ui'.section = ui.section
<1>1. /\ RowsStay /\ DOMAIN ui' = DOMAIN ui /\ ui'.run = ui.run /\ ui'.section = ui.section
      /\ ui.data # CL!None /\ ui'.dialog \in {"open", "none"} /\ ui'.wanted = ui.wanted
      /\ ui'.files = {} \/ (ui'.files = ui.files /\ ui'.told = ui.told /\ ui.dialog # "none")
  BY DEF CL!OpenExport, CL!CancelExport, CL!ToggleFormat, CL!OnRows, CL!Sets, CL!Does, RowsStay,
         ExportParts, ExportShape
<1>2. ExportShape' /\ AnswerCounts' /\ CL!ExportIds' = CL!ExportIds /\ CL!ExportTotal' = CL!ExportTotal
  BY <1>1, RowsStayed
<1>3. RunCounts'
  BY <1>1 DEF RunCounts
<1>4. FilesCount'
  BY <1>1, <1>2 DEF ExportParts, FilesCount, RowsStay
<1>5. QED
  BY <1>1, <1>2, <1>3, <1>4 DEF ExportParts

LEMMA ExportStarts == ASSUME ExportParts, CL!HandleRun PROVE ExportParts' /\ ui'.section = ui.section
<1> DEFINE asks == CL!IsTruncated /\ ui.dialog = "open"
<1>1. ui.data # CL!None
  BY DEF CL!HandleRun, ExportParts, ExportShape
<1>2. CASE asks
  <2>1. /\ RowsStay /\ DOMAIN ui' = DOMAIN ui /\ ui'.run = ui.run /\ ui'.section = ui.section
        /\ ui'.dialog = "confirm" /\ ui'.told = TRUE /\ ui'.files = ui.files
    BY <1>2 DEF CL!HandleRun, CL!Sets, CL!Does, RowsStay, ExportParts, ExportShape
  <2>2. ExportShape' /\ AnswerCounts'
    BY <1>1, <2>1, RowsStayed
  <2>3. RunCounts' /\ FilesCount'
    BY <2>1 DEF RunCounts, FilesCount
  <2>4. QED
    BY <2>1, <2>2, <2>3 DEF ExportParts
<1>3. CASE ~asks
  <2>1. /\ RowsStay /\ DOMAIN ui' = DOMAIN ui /\ ui'.section = ui.section
        /\ ui'.dialog = "running" /\ ui'.told = ui.told /\ ui'.files = ui.files
        /\ ui'.wanted = CL!ExportTotal
        /\ ui'.run = [ids |-> CL!ExportIds, left |-> ui.formats, combos |-> CL!None, failed |-> {}]
    BY <1>3 DEF CL!HandleRun, CL!Runs, CL!ExportTotal, CL!Sets, CL!Does, RowsStay, ExportParts, ExportShape
  <2>2. DOMAIN ui'.run = DOMAIN ui.run /\ ui'.run.ids = CL!ExportIds /\ ui'.run.combos = CL!None
    BY <2>1 DEF ExportParts, ExportShape
  <2>3. ExportShape' /\ AnswerCounts' /\ CL!ExportIds' = CL!ExportIds /\ CL!ExportTotal' = CL!ExportTotal
    BY <1>1, <2>1, <2>2, RowsStayed
  <2>4. ui.told = TRUE \/ Cardinality(CL!ExportIds) = CL!ExportTotal
    <3>1. ui.dialog \in {"open", "confirm"}
      BY DEF CL!HandleRun
    <3>2. CASE ui.dialog = "confirm"
      BY <3>2 DEF ExportParts, RunCounts
    <3>3. CASE ui.dialog = "open"
      <4>1. ~(CL!ExportTotal > Cardinality(CL!ExportIds))
        BY <1>3, <3>3, SameNumber DEF CL!IsTruncated
      <4>2. CASE ui.selected # {}
        BY <4>2, SameNumber DEF CL!ExportTotal, CL!ExportIds
      <4>3. CASE ui.selected = {}
        <5>1. /\ Cardinality(CL!Data.items) \in Nat /\ CL!Data.total \in Nat
              /\ Cardinality(CL!Data.items) <= CL!Data.total
          BY <1>1 DEF ExportParts, AnswerCounts
        <5>2. CL!ExportTotal = CL!Data.total /\ CL!ExportIds = CL!Data.items
          BY <4>3 DEF CL!ExportTotal, CL!ExportIds
        <5>3. QED
          BY <4>1, <5>1, <5>2
      <4>4. QED
        BY <4>2, <4>3
    <3>4. QED
      BY <3>1, <3>2, <3>3
  <2>5. RunCounts'
    BY <2>1, <2>2, <2>3, <2>4 DEF RunCounts
  <2>6. FilesCount'
    <3>1. CASE ui.told = TRUE
      BY <2>1, <3>1 DEF FilesCount
    <3>2. CASE ui.told # TRUE /\ ui.files = {}
      BY <2>1, <3>2 DEF FilesCount
    <3>3. CASE ui.told # TRUE /\ ui.files # {}
      <4>1. ui.dialog # "none"
        BY DEF CL!HandleRun
      <4>2. /\ ui.wanted = CL!ExportTotal /\ (ui.selected = {} => ~ui.fetch)
            /\ \A file \in ui.files : Cardinality(file.ids) = ui.wanted
        BY <3>3, <4>1 DEF ExportParts, FilesCount
      <4>3. QED
        BY <2>1, <2>3, <4>2 DEF FilesCount, RowsStay
    <3>4. QED
      BY <3>1, <3>2, <3>3
  <2>7. QED
    BY <2>1, <2>3, <2>5, <2>6 DEF ExportParts
<1>4. QED
  BY <1>2, <1>3

LEMMA ExportReads == ASSUME ExportParts, CL!ReadCombos PROVE ExportParts' /\ ui'.section = ui.section
<1>1. /\ RowsStay /\ DOMAIN ui' = DOMAIN ui /\ ui'.section = ui.section /\ ui'.dialog = ui.dialog
      /\ ui'.told = ui.told /\ ui'.files = ui.files /\ ui'.wanted = ui.wanted /\ ui.dialog = "running"
      /\ DOMAIN ui'.run = DOMAIN ui.run /\ ui'.run.ids = ui.run.ids
      /\ ui'.run.combos = CL!Some(IF ui.run.left \ {"csv"} # {} /\ ui.run.ids \subseteq srv.alive
                                  THEN ui.run.ids ELSE {})
  BY DEF CL!ReadCombos, CL!Running, CL!Sets, RowsStay, ExportParts, ExportShape
<1>2. CL!The(ui'.run.combos) \subseteq srv.alive
  BY <1>1 DEF CL!Some, CL!The
<1>3. ExportShape' /\ AnswerCounts' /\ CL!ExportIds' = CL!ExportIds /\ CL!ExportTotal' = CL!ExportTotal
  BY <1>1, RowsStayed DEF ExportParts, ExportShape
<1>4. RunCounts'
  BY <1>1, <1>2, <1>3 DEF ExportParts, RunCounts, RowsStay
<1>5. FilesCount'
  BY <1>1, <1>3 DEF ExportParts, FilesCount, RowsStay
<1>6. QED
  BY <1>1, <1>3, <1>4, <1>5 DEF ExportParts

LEMMA ExportProduces ==
  ASSUME ExportParts, CL!Produce \/ CL!ProduceFails PROVE ExportParts' /\ ui'.section = ui.section
<1>1. /\ RowsStay /\ DOMAIN ui' = DOMAIN ui /\ ui'.section = ui.section /\ ui'.dialog = ui.dialog
      /\ ui'.told = ui.told /\ ui'.wanted = ui.wanted /\ ui.dialog = "running" /\ ui.run.combos # CL!None
      /\ DOMAIN ui'.run = DOMAIN ui.run /\ ui'.run.ids = ui.run.ids /\ ui'.run.combos = ui.run.combos
  <2> USE DEF CL!Running, CL!Sets, RowsStay, ExportParts, ExportShape
  <2>1. srv' = srv /\ ui.dialog = "running" /\ ui.run.combos # CL!None
    BY DEF CL!Produce, CL!ProduceFails
  <2> DEFINE Of(left, failed, files) == [ui EXCEPT !.run = [ui.run EXCEPT !.left = left, !.failed = failed],
                                                   !.files = files]
  <2>2. \E left, failed, files : ui' = Of(left, failed, files)
    <3>1. CASE ui' = CL!Fails(ui)
      <4>1. ui' = [ui EXCEPT !.run = [ui.run EXCEPT !.left = ui.run.left \ {CL!Format},
                                                    !.failed = ui.run.failed \union {CL!Format}],
                             !.files = ui.files]
        BY <3>1 DEF CL!Fails
      <4>2. QED
        BY <4>1
    <3>2. ASSUME NEW files, ui' = [ui EXCEPT !.run.left = @ \ {CL!Format}, !.files = files] 
          PROVE  \E left, failed, made : ui' = Of(left, failed, made)
      <4>1. ui' = [ui EXCEPT !.run = [ui.run EXCEPT !.left = ui.run.left \ {CL!Format},
                                                    !.failed = ui.run.failed], !.files = files]
        BY <3>2
      <4>2. QED
        BY <4>1
    <3>3. QED
      BY <3>1, <3>2 DEF CL!Produce, CL!ProduceFails
  <2>3. PICK left, failed, files : ui' = Of(left, failed, files)
    BY <2>2
  <2>4. ui'.run = [ui.run EXCEPT !.left = left, !.failed = failed]
    BY <2>3
  <2>5. QED
    BY <2>1, <2>3, <2>4
<1>2. ExportShape' /\ AnswerCounts' /\ CL!ExportIds' = CL!ExportIds /\ CL!ExportTotal' = CL!ExportTotal
  BY <1>1, RowsStayed DEF ExportParts, ExportShape
<1>3. RunCounts'
  BY <1>1, <1>2 DEF ExportParts, RunCounts, RowsStay
<1>4. \/ ui'.files = ui.files
      \/ \E format : ui'.files = ui.files \union {[format |-> format, ids |-> ui.run.ids]} /\ ui.run.ids \subseteq srv.alive
  <2>1. CASE CL!ProduceFails
    BY <2>1 DEF CL!ProduceFails, CL!Fails, CL!Sets, ExportParts, ExportShape
  <2>2. CASE CL!Produce
    <3> DEFINE included == IF CL!Format = "csv" THEN ui.run.ids \intersect srv.alive ELSE CL!The(ui.run.combos)
    <3>1. included \subseteq srv.alive
      BY <1>1 DEF ExportParts, RunCounts
    <3>2. \/ ui'.files = ui.files
          \/ included = ui.run.ids /\ ui'.files = ui.files \union {[format |-> CL!Format, ids |-> included]}
      BY <2>2 DEF CL!Produce, CL!Fails, CL!Sets, ExportParts, ExportShape
    <3>3. QED
      BY <3>1, <3>2
  <2>3. QED
    BY <2>1, <2>2
<1>5. FilesCount'
  <2>1. CASE ui.told = TRUE
    BY <1>1, <2>1 DEF FilesCount
  <2>2. CASE ui.told # TRUE /\ ui'.files = ui.files
    BY <1>1, <1>2, <2>2 DEF ExportParts, FilesCount, RowsStay
  <2>3. CASE ui.told # TRUE /\ ui'.files # ui.files
    <3>1. PICK format : ui'.files = ui.files \union {[format |-> format, ids |-> ui.run.ids]}
      BY <1>4, <2>3
    <3>2. ui.run.ids \subseteq srv.alive
      BY <1>4, <2>3
    <3>3. Cardinality(ui.run.ids) = ui.wanted /\ ui.run.ids = CL!ExportIds /\ ui.wanted = CL!ExportTotal
      BY <1>1, <2>3, <3>2 DEF ExportParts, RunCounts
    <3>4. ui.selected = {} => ~ui.fetch
      BY <1>1, <3>2, <3>3 DEF ExportParts, ExportShape, AnswerCounts, CL!ExportIds
    <3>5. \A file \in ui'.files : Cardinality(file.ids) = ui.wanted
      <4>1. \A file \in ui.files : Cardinality(file.ids) = ui.wanted
        BY <2>3 DEF ExportParts, FilesCount
      <4>2. [format |-> format, ids |-> ui.run.ids].ids = ui.run.ids
        OBVIOUS
      <4>3. QED
        BY <3>1, <3>3, <4>1, <4>2
    <3>6. QED
      BY <1>1, <1>2, <3>3, <3>4, <3>5 DEF FilesCount, RowsStay
  <2>4. QED
    BY <2>1, <2>2, <2>3
<1>6. QED
  BY <1>1, <1>2, <1>3, <1>5 DEF ExportParts

LEMMA ExportEnds == ASSUME ExportParts, CL!RunEnds PROVE ExportParts' /\ ui'.section = ui.section
<1>1. /\ RowsStay /\ DOMAIN ui' = DOMAIN ui /\ ui'.section = ui.section /\ ui'.dialog \in {"none", "open"}
      /\ ui'.told = ui.told /\ ui'.wanted = ui.wanted /\ ui'.files = ui.files /\ ui.dialog = "running"
      /\ DOMAIN ui'.run = DOMAIN ui.run
  BY DEF CL!RunEnds, CL!NoRun, CL!Running, CL!Sets, RowsStay, ExportParts, ExportShape
<1>2. ExportShape' /\ AnswerCounts' /\ CL!ExportIds' = CL!ExportIds /\ CL!ExportTotal' = CL!ExportTotal
  BY <1>1, RowsStayed DEF ExportParts, ExportShape
<1>3. RunCounts' /\ FilesCount'
  BY <1>1, <1>2 DEF ExportParts, RunCounts, FilesCount, RowsStay
<1>4. QED
  BY <1>1, <1>2, <1>3 DEF ExportParts

-----------------------------------------------------------------------------
(* The states of training.                                                 *)

\* The tags of a row as the accounts of the other tab have them, with one state at most.
TagsOf(tags, id) ==
  /\ "tag" \in tags <=> id \in srv.tagged
  /\ \A s, t \in tags \intersect TrainingStatuses : s = t

\* Whatever was read of a row has a version that is not newer, and the tags of the row if it is the same.
ReadOf(tags, version, id) ==
  /\ version \in Nat /\ version <= srv.combos[id].version
  /\ version = srv.combos[id].version => TagsOf(tags, id)

StatusParts ==
  /\ DOMAIN ui = {"page", "section", "loaded", "fetch", "changing", "rows", "requests", "acts"}
  /\ DOMAIN srv = {"combos", "tagged", "others"} /\ srv.tagged \subseteq StatusRows
  /\ DOMAIN srv.combos = StatusRows /\ DOMAIN ui.rows = StatusRows
  /\ \A id \in StatusRows :
       /\ DOMAIN srv.combos[id] = {"tags", "version"} /\ srv.combos[id].version \in Nat
       /\ TagsOf(srv.combos[id].tags, id)
       /\ ReadOf(ui.rows[id].tags, ui.rows[id].version, id)
  /\ \A q \in ui.requests : q.id \in StatusRows /\ ReadOf(q.tags, q.version, q.id)

\* The rows are as they were.
LEMMA StatusSame ==
  ASSUME StatusParts, srv' = srv, DOMAIN ui' = DOMAIN ui, DOMAIN ui'.rows = StatusRows,
         \A id \in StatusRows : ReadOf(ui'.rows[id].tags, ui'.rows[id].version, id),
         \A q \in ui'.requests : q \in ui.requests \/ (q.id \in StatusRows /\ ReadOf(q.tags, q.version, q.id))
  PROVE  StatusParts'
BY DEF StatusParts, ReadOf, TagsOf

\* One row is written: what was read of it has an older version now.
LEMMA StatusWritten ==
  ASSUME StatusParts, NEW row \in StatusRows, DOMAIN srv' = DOMAIN srv, srv'.tagged \subseteq StatusRows,
         \A i \in StatusRows \ {row} : i \in srv'.tagged <=> i \in srv.tagged,
         srv'.combos = [srv.combos EXCEPT ![row] = srv'.combos[row]],
         DOMAIN srv'.combos[row] = {"tags", "version"},
         srv'.combos[row].version = srv.combos[row].version + 1,
         TagsOf(srv.combos[row].tags, row)',
         DOMAIN ui' = DOMAIN ui, ui'.rows = ui.rows, ui'.requests \subseteq ui.requests
  PROVE  StatusParts'
<1>1. ASSUME NEW i \in StatusRows, NEW tags, NEW version, ReadOf(tags, version, i)
      PROVE  ReadOf(tags, version, i)'
  <2>1. CASE i = row
    BY <1>1, <2>1 DEF ReadOf, StatusParts
  <2>2. CASE i # row
    BY <1>1, <2>2 DEF ReadOf, StatusParts, TagsOf
  <2>3. QED
    BY <2>1, <2>2
<1>2. ASSUME NEW i \in StatusRows
      PROVE  /\ DOMAIN srv'.combos[i] = {"tags", "version"} /\ srv'.combos[i].version \in Nat
             /\ TagsOf(srv.combos[i].tags, i)'
             /\ ReadOf(ui.rows[i].tags, ui.rows[i].version, i)'
  <2>1. ReadOf(ui.rows[i].tags, ui.rows[i].version, i)'
    <3>1. ReadOf(ui.rows[i].tags, ui.rows[i].version, i)
      BY DEF StatusParts
    <3>2. /\ ui.rows[i].version \in Nat /\ ui.rows[i].version <= srv.combos[i].version
          /\ ui.rows[i].version = srv.combos[i].version => TagsOf(ui.rows[i].tags, i)
      BY <3>1 DEF ReadOf
    <3>3. QED
      BY <3>2 DEF ReadOf, TagsOf, StatusParts
  <2>2. QED
    BY <2>1 DEF StatusParts, TagsOf
<1>3. ASSUME NEW q \in ui'.requests PROVE q.id \in StatusRows /\ ReadOf(q.tags, q.version, q.id)'
  <2>1. q.id \in StatusRows /\ ReadOf(q.tags, q.version, q.id)
    BY DEF StatusParts
  <2>2. QED
    BY <2>1 DEF StatusParts, ReadOf, TagsOf
<1>4. QED
  BY <1>2, <1>3 DEF StatusParts

StatusAct ==
  \/ CL!TagsLoaded \/ CL!RowsFetched
  \/ \E id \in StatusRows : CL!OtherTags(id)
  \/ \E id \in StatusRows, status \in {{}} \union {{s} : s \in TrainingStatuses} : CL!ChangeStatus(id, status)
  \/ \E q \in ui.requests : CL!StatusAnswered(q)

LEMMA StatusStep == ASSUME StatusParts, StatusAct PROVE StatusParts' /\ ui'.section = ui.section
<1> USE DEF CL!Sets, CL!Serves, CL!Does
<1>1. CASE CL!TagsLoaded
  <2>1. /\ srv' = srv /\ DOMAIN ui' = DOMAIN ui /\ ui'.rows = ui.rows /\ ui'.requests = ui.requests
        /\ ui'.section = ui.section
    BY <1>1 DEF CL!TagsLoaded, StatusParts
  <2>2. QED
    BY <2>1, StatusSame DEF StatusParts
<1>2. CASE CL!RowsFetched
  <2>1. /\ srv' = srv /\ DOMAIN ui' = DOMAIN ui /\ ui'.requests = ui.requests
        /\ ui'.rows = [id \in StatusRows |-> CL!Row(id)] /\ ui'.section = ui.section
    BY <1>2 DEF CL!RowsFetched, StatusParts
  <2>2. \A id \in StatusRows : ui'.rows[id] = [tags |-> srv.combos[id].tags, version |-> srv.combos[id].version]
    BY <2>1 DEF CL!Row
  <2>3. ASSUME NEW id \in StatusRows PROVE ReadOf(ui'.rows[id].tags, ui'.rows[id].version, id)
    <3>1. ui'.rows[id] = [tags |-> srv.combos[id].tags, version |-> srv.combos[id].version]
      BY <2>2
    <3>2. ui'.rows[id].tags = srv.combos[id].tags /\ ui'.rows[id].version = srv.combos[id].version
      BY <3>1
    <3>3. srv.combos[id].version \in Nat /\ TagsOf(srv.combos[id].tags, id)
      BY DEF StatusParts
    <3>4. QED
      BY <3>2, <3>3 DEF ReadOf
  <2>4. QED
    BY <2>1, <2>3, StatusSame
<1>3. ASSUME NEW id \in StatusRows, NEW status \in {{}} \union {{s} : s \in TrainingStatuses}, CL!ChangeStatus(id, status)
      PROVE  StatusParts' /\ ui'.section = ui.section
  <2> DEFINE sent == (ui.rows[id].tags \ TrainingStatuses) \union status
             r == [id |-> id, version |-> ui.rows[id].version, n |-> ui.acts, tags |-> sent]
  <2>1. /\ srv' = srv /\ DOMAIN ui' = DOMAIN ui /\ ui'.rows = ui.rows /\ ui'.requests = ui.requests \union {r}
        /\ ui'.section = ui.section
    BY <1>3 DEF CL!ChangeStatus, StatusParts
  <2>2. ReadOf(ui.rows[id].tags, ui.rows[id].version, id)
    BY DEF StatusParts
  <2>3. "tag" \in sent <=> "tag" \in ui.rows[id].tags
    BY ListsAssumption
  <2>4. \A s, t \in sent \intersect TrainingStatuses : s = t
    OBVIOUS
  <2>5. ReadOf(sent, ui.rows[id].version, id)
    BY <2>2, <2>3, <2>4 DEF ReadOf, TagsOf
  <2>6. r.id = id /\ r.version = ui.rows[id].version /\ r.tags = sent
    OBVIOUS
  <2> HIDE DEF r, sent
  <2>7. r.id \in StatusRows /\ ReadOf(r.tags, r.version, r.id)
    BY <2>5, <2>6
  <2>8. QED
    BY <2>1, <2>7, StatusSame DEF StatusParts
<1>4. ASSUME NEW id \in StatusRows, CL!OtherTags(id) PROVE StatusParts' /\ ui'.section = ui.section
  <2>1. ui' = ui
    BY <1>4 DEF CL!OtherTags
  <2>2. /\ DOMAIN srv' = DOMAIN srv
        /\ srv'.tagged = IF id \in srv.tagged THEN srv.tagged \ {id} ELSE srv.tagged \union {id}
        /\ srv'.combos = [srv.combos EXCEPT ![id] =
             [tags |-> IF id \in srv.tagged THEN srv.combos[id].tags \ {"tag"} ELSE srv.combos[id].tags \union {"tag"},
              version |-> srv.combos[id].version + 1]]
    BY <1>4 DEF CL!OtherTags, StatusParts
  <2>3. /\ DOMAIN srv'.combos[id] = {"tags", "version"}
        /\ srv'.combos[id].version = srv.combos[id].version + 1
        /\ srv'.combos[id].tags = IF id \in srv.tagged THEN srv.combos[id].tags \ {"tag"}
                                  ELSE srv.combos[id].tags \union {"tag"}
    <3>1. srv'.combos[id] = [tags |-> IF id \in srv.tagged THEN srv.combos[id].tags \ {"tag"}
                                      ELSE srv.combos[id].tags \union {"tag"},
                             version |-> srv.combos[id].version + 1]
      BY <2>2 DEF StatusParts
    <3>2. QED
      BY <3>1
  <2>4. TagsOf(srv.combos[id].tags, id)
    BY DEF StatusParts
  <2>5. TagsOf(srv.combos[id].tags, id)'
    BY <2>2, <2>3, <2>4, ListsAssumption DEF TagsOf
  <2>6. srv'.tagged \subseteq StatusRows /\ \A i \in StatusRows \ {id} : i \in srv'.tagged <=> i \in srv.tagged
    BY <2>2 DEF StatusParts
  <2>7. srv'.combos = [srv.combos EXCEPT ![id] = srv'.combos[id]]
    BY <2>2 DEF StatusParts
  <2>8. QED
    BY <2>1, <2>2, <2>3, <2>5, <2>6, <2>7, StatusWritten
<1>5. ASSUME NEW q \in ui.requests, CL!StatusAnswered(q) PROVE StatusParts' /\ ui'.section = ui.section
  <2>1. DOMAIN ui' = DOMAIN ui /\ ui'.rows = ui.rows /\ ui'.requests = ui.requests \ {q} /\ ui'.section = ui.section
    BY <1>5 DEF CL!StatusAnswered, StatusParts
  <2>2. q.id \in StatusRows /\ ReadOf(q.tags, q.version, q.id)
    BY DEF StatusParts
  <2>3. CASE CL!IsCurrent(q)
    <3>1. /\ DOMAIN srv' = DOMAIN srv /\ srv'.tagged = srv.tagged
          /\ srv'.combos = [srv.combos EXCEPT ![q.id] = [tags |-> q.tags, version |-> srv.combos[q.id].version + 1]]
      BY <1>5, <2>3 DEF CL!StatusAnswered, StatusParts
    <3>2. srv'.combos[q.id] = [tags |-> q.tags, version |-> srv.combos[q.id].version + 1]
      BY <2>2, <3>1 DEF StatusParts
    <3>3. TagsOf(q.tags, q.id)
      BY <2>2, <2>3 DEF ReadOf, CL!IsCurrent
    <3>4. TagsOf(srv.combos[q.id].tags, q.id)'
      BY <3>1, <3>2, <3>3 DEF TagsOf
    <3>5. srv'.combos = [srv.combos EXCEPT ![q.id] = srv'.combos[q.id]]
      BY <3>1, <3>2
    <3>6. srv'.tagged \subseteq StatusRows
      BY <3>1 DEF StatusParts
    <3>7. QED
      BY <2>1, <2>2, <3>1, <3>2, <3>4, <3>5, <3>6, StatusWritten
  <2>4. CASE ~CL!IsCurrent(q)
    <3>1. srv' = srv
      BY <1>5, <2>4 DEF CL!StatusAnswered
    <3>2. QED
      BY <2>1, <3>1, StatusSame DEF StatusParts
  <2>5. QED
    BY <2>3, <2>4
<1>6. QED
  BY <1>1, <1>2, <1>3, <1>4, <1>5 DEF StatusAct

-----------------------------------------------------------------------------
(* The lists together.                                                     *)

ListsParts ==
  /\ ui.section \in {"filters", "export", "status"}
  /\ ui.section = "filters" => FiltersParts
  /\ ui.section = "export" => ExportParts
  /\ ui.section = "status" => StatusParts

ListsInv == ui.page = "lists" => ListsParts

LEMMA ListsStep == ASSUME ListsParts, CL!On, CL!Next PROVE ListsParts'
<1> USE DEF CL!In
<1>1. CASE ui.section = "filters"
  <2>1. FiltersAct
    BY <1>1 DEF CL!Next, FiltersAct, CL!FetchRows, CL!EnterSelectMode, CL!ExitSelectMode, CL!SetTab,
       CL!ToggleSelect, CL!ConfirmDelete, CL!OnRows, CL!OpenExport, CL!HandleRun, CL!CancelExport,
       CL!ReadCombos, CL!Produce, CL!ProduceFails, CL!RunEnds, CL!Running, CL!ToggleFormat,
       CL!TagsLoaded, CL!RowsFetched, CL!OtherTags, CL!ChangeStatus, CL!OnStatus,
       CL!None, CL!Some, None, Some
  <2>2. QED
    BY <1>1, <2>1, FiltersStep DEF ListsParts
<1>2. CASE ui.section = "export"
  <2>1. \/ CL!FetchRows \/ ExportRowsAct
        \/ CL!OpenExport \/ CL!CancelExport \/ \E format : CL!ToggleFormat(format)
        \/ CL!HandleRun \/ CL!ReadCombos \/ CL!Produce \/ CL!ProduceFails \/ CL!RunEnds
    BY <1>2 DEF CL!Next, ExportRowsAct, CL!SetCharacter, CL!SetDefault, CL!SetStarter, CL!ClearFilters,
       CL!OpenList, CL!OpenSettings, CL!SetResult, CL!SetAxis, CL!OnList,
       CL!TagsLoaded, CL!RowsFetched, CL!OtherTags, CL!ChangeStatus, CL!OnStatus
  <2>2. ExportParts
    BY <1>2 DEF ListsParts
  <2>3. ExportParts' /\ ui'.section = ui.section
    BY <2>1, <2>2, ExportFetches, ExportRows, ExportOpens, ExportStarts, ExportReads, ExportProduces, ExportEnds
  <2>4. QED
    BY <1>2, <2>3 DEF ListsParts
<1>3. CASE ui.section = "status"
  <2>1. StatusAct
    BY <1>3 DEF CL!Next, StatusAct, CL!SetCharacter, CL!SetDefault, CL!SetStarter, CL!ClearFilters,
       CL!OpenList, CL!OpenSettings, CL!SetResult, CL!SetAxis, CL!OnList,
       CL!FetchRows, CL!EnterSelectMode, CL!ExitSelectMode, CL!SetTab,
       CL!ToggleSelect, CL!ConfirmDelete, CL!OnRows, CL!OpenExport, CL!HandleRun, CL!CancelExport,
       CL!ReadCombos, CL!Produce, CL!ProduceFails, CL!RunEnds, CL!Running, CL!ToggleFormat
  <2>2. QED
    BY <1>3, <2>1, StatusStep DEF ListsParts
<1>4. QED
  BY <1>1, <1>2, <1>3 DEF ListsParts

LEMMA ListsInit == CL!Init => ListsParts
<1> SUFFICES ASSUME CL!Init PROVE ListsParts
  OBVIOUS
<1> USE DEF CL!Init
<1>1. CASE ui.section = "filters"
  <2>1. /\ ui = [page |-> "lists", section |-> "filters", screen |-> "list", address |-> CL!NoFilters, acts |-> 0]
        /\ srv = [session |-> CL!NoFilters, default |-> CL!None, declared |-> Order[1]]
    BY <1>1
  <2>2. QED
    BY <1>1, <2>1 DEF ListsParts, FiltersParts, ResolvedAlike, CL!NoFilters, CL!None, None
<1>2. CASE ui.section = "export"
  <2>1. /\ ui = [page |-> "lists", section |-> "export", tab |-> "all", data |-> CL!None, fetch |-> TRUE,
                 selecting |-> FALSE, selected |-> {}, dialog |-> "none", formats |-> {}, files |-> {},
                 wanted |-> 0, told |-> FALSE, run |-> CL!NoRun, acts |-> 0]
        /\ DOMAIN srv = {"alive", "trained"} /\ srv.alive = Ids
    BY <1>2
  <2>2. ExportShape /\ AnswerCounts
    BY <2>1 DEF ExportShape, AnswerCounts, CL!NoRun
  <2>3. RunCounts /\ FilesCount
    BY <2>1 DEF RunCounts, FilesCount
  <2>4. QED
    BY <1>2, <2>2, <2>3 DEF ListsParts, ExportParts
<1>3. CASE ui.section = "status"
  <2>1. /\ DOMAIN ui = {"page", "section", "loaded", "fetch", "changing", "rows", "requests", "acts"}
        /\ DOMAIN srv = {"combos", "tagged", "others"} /\ srv.tagged = {} /\ ui.requests = {}
        /\ ui.rows = [id \in StatusRows |-> [tags |-> {}, version |-> 1]] /\ srv.combos = ui.rows
    <3>1. /\ ui = [page |-> "lists", section |-> "status", loaded |-> FALSE, fetch |-> FALSE,
                   changing |-> CL!None, rows |-> [id \in StatusRows |-> [tags |-> {}, version |-> 1]],
                   requests |-> {}, acts |-> 0]
          /\ srv = [combos |-> [id \in StatusRows |-> [tags |-> {}, version |-> 1]], tagged |-> {}, others |-> 0]
      BY <1>3
    <3>2. QED
      BY <3>1
  <2>2. \A id \in StatusRows : srv.combos[id] = [tags |-> {}, version |-> 1] /\ ui.rows[id] = srv.combos[id]
    BY <2>1
  <2>3. StatusParts
    BY <2>1, <2>2 DEF StatusParts, ReadOf, TagsOf
  <2>4. QED
    BY <1>3, <2>3 DEF ListsParts
<1>4. ui.section \in {"filters", "export", "status"}
  OBVIOUS
<1>5. QED
  BY <1>1, <1>2, <1>3, <1>4

LEMMA ListsInductive == ListsInv /\ [NextLists]_vars => ListsInv'
<1> SUFFICES ASSUME ListsInv, [NextLists]_vars PROVE ListsInv'
  OBVIOUS
<1>1. CASE ui.page = "lists" /\ CL!Next
  BY <1>1, ListsStep DEF ListsInv, CL!On
<1>2. CASE ui.page # "lists" /\ ui'.page = ui.page
  BY <1>2 DEF ListsInv
<1>3. CASE UNCHANGED vars
  BY <1>3 DEF ListsInv, ListsParts, FiltersParts, StatusParts, ReadOf, TagsOf,
     ExportParts, ExportShape, AnswerCounts, RunCounts, FilesCount, CL!Data, CL!ExportIds, CL!ExportTotal, vars
<1>4. QED
  BY <1>1, <1>2, <1>3 DEF NextLists, Stays

LEMMA OneStateAtMost ==
  ASSUME NEW S, \A s, t \in S : s = t PROVE Cardinality(S) <= 1
<1>1. CASE S = {}
  BY <1>1, FS_EmptySet
<1>2. CASE S # {}
  <2>1. PICK s : S = {s}
    BY <1>2
  <2>2. Cardinality(S) = 1
    BY <2>1, FS_Singleton
  <2>3. QED
    BY <2>2
<1>3. QED
  BY <1>1, <1>2

\* The list shows the character declared last and no axis without its result, an exported file has all
\* there was to export unless the user was told, and changing the state of training never takes or gives
\* a tag of another tab (ComboListPage.tsx, ComboExportDialog.tsx, useUpdateMyComboStatus.ts).
THEOREM ListsShowAndKeep == SpecLists => []ListsAreHonest
<1>1. InitLists => ListsInv
  BY ListsInit DEF InitLists, ListsInv, TR!On, PU!On, SG!On, CL!On, IM!On
<1>2. ListsInv => ListsAreHonest
  <2> SUFFICES ASSUME ListsInv, ui.page = "lists" PROVE ListsAreHonest
    BY DEF ListsAreHonest, CL!ListsAreHonest, CL!DeclaredIsShown, CL!AxisNeedsResult, CL!LeftOutIsTold,
           CL!TagsOfOthersKept, CL!On
  <2>1. ListsParts
    BY DEF ListsInv
  <2>2. CL!DeclaredIsShown
    <3>1. SUFFICES ASSUME ui.section = "filters", ui.screen = "list"
                   PROVE  CL!Resolved(ui.address) = srv.declared
      BY DEF CL!DeclaredIsShown
    <3>2. srv.session = ui.address /\ ResolvedAlike(srv.session, srv.default) = srv.declared
      BY <2>1, <3>1 DEF ListsParts, FiltersParts
    <3>3. QED
      BY <3>2 DEF CL!Resolved, ResolvedAlike, CL!None, None, CL!The, The
  <2>3. CL!AxisNeedsResult
    BY <2>1 DEF CL!AxisNeedsResult, ListsParts, FiltersParts, CL!None, None
  <2>4. CL!LeftOutIsTold
    BY <2>1, SameNumber DEF CL!LeftOutIsTold, ListsParts, ExportParts, FilesCount
  <2>5. CL!TagsOfOthersKept
    <3>1. SUFFICES ASSUME ui.section = "status", NEW id \in StatusRows
                   PROVE  /\ "tag" \in srv.combos[id].tags <=> id \in srv.tagged
                          /\ Cardinality(srv.combos[id].tags \intersect TrainingStatuses) <= 1
      BY SameNumber DEF CL!TagsOfOthersKept
    <3>2. TagsOf(srv.combos[id].tags, id)
      BY <2>1, <3>1 DEF ListsParts, StatusParts
    <3>3. QED
      BY <3>2, OneStateAtMost DEF TagsOf
  <2>6. QED
    BY <2>2, <2>3, <2>4, <2>5 DEF ListsAreHonest, CL!ListsAreHonest
<1>3. QED
  BY <1>1, <1>2, ListsInductive, PTL DEF SpecLists

-----------------------------------------------------------------------------
(* The proposals of setups.                                                *)
LEMMA SameCount == ASSUME NEW S PROVE SG!Cardinality(S) = Cardinality(S)
BY DEF SG!Cardinality, Cardinality

\* The ranking puts the proposals into one order.
LEMMA PrecedesOnce ==
  ASSUME NEW a, NEW p \in Proposals, NEW q \in Proposals
  PROVE  /\ ~SG!Precedes(a, p, p)
         /\ p # q => SG!Precedes(a, p, q) \/ SG!Precedes(a, q, p)
BY SuggestionsAssumption DEF SG!Precedes, SG!ByFrame

LEMMA PrecedesOn ==
  ASSUME NEW a, NEW p \in Proposals, NEW q \in Proposals, NEW r \in Proposals,
         SG!Precedes(a, p, q), SG!Precedes(a, q, r)
  PROVE  SG!Precedes(a, p, r)
BY SuggestionsAssumption DEF SG!Precedes, SG!ByFrame

Before(a, p) == {q \in SG!Found(a) : SG!Precedes(a, q, p)}

LEMMA BeforeCounts ==
  ASSUME NEW a, NEW p \in SG!Found(a)
  PROVE  /\ IsFiniteSet(Before(a, p)) /\ Cardinality(Before(a, p)) \in Nat
         /\ \A q \in SG!Found(a) : SG!Precedes(a, q, p) =>
              Cardinality(Before(a, q)) < Cardinality(Before(a, p))
<1>1. SG!Found(a) \subseteq Proposals
  BY DEF SG!Found
<1>2. \A q \in SG!Found(a) : IsFiniteSet(Before(a, q)) /\ Cardinality(Before(a, q)) \in Nat
  <2>1. IsFiniteSet(SG!Found(a))
    BY <1>1, SuggestionsAssumption, FS_Subset
  <2>2. QED
    BY <2>1, FS_Subset, FS_CardinalityType DEF Before
<1>3. ASSUME NEW q \in SG!Found(a), SG!Precedes(a, q, p)
      PROVE  Cardinality(Before(a, q)) < Cardinality(Before(a, p))
  <2>1. Before(a, q) \subseteq Before(a, p)
    BY <1>1, <1>3, PrecedesOn DEF Before
  <2>2. q \in Before(a, p) /\ q \notin Before(a, q)
    BY <1>1, <1>3, PrecedesOnce DEF Before
  <2>3. /\ Cardinality(Before(a, q)) <= Cardinality(Before(a, p))
        /\ Cardinality(Before(a, q)) # Cardinality(Before(a, p))
    BY <1>2, <2>1, <2>2, FS_Subset
  <2>4. QED
    BY <1>2, <2>3
<1>4. QED
  BY <1>2, <1>3

\* The first of what the conditions find, as many as they allow.
FirstOf(a, items) ==
  /\ items \subseteq SG!Found(a) /\ Cardinality(items) <= a.limit
  /\ \A p \in items, q \in SG!Found(a) : SG!Precedes(a, q, p) => q \in items

LEMMA NoneIsFirst == ASSUME NEW a, a.limit \in Nat PROVE FirstOf(a, {})
BY FS_EmptySet DEF FirstOf

LEMMA RankedIsFirst ==
  ASSUME NEW a, a.limit \in Nat
  PROVE  FirstOf(a, {p \in SG!Found(a) : Cardinality(Before(a, p)) < a.limit})
<1> DEFINE items == {p \in SG!Found(a) : Cardinality(Before(a, p)) < a.limit}
           place == [p \in items |-> Cardinality(Before(a, p))]
<1>1. place \in [items -> 0 .. (a.limit - 1)]
  BY BeforeCounts
<1>2. ASSUME NEW p \in items, NEW q \in items, p # q PROVE place[p] # place[q]
  <2>1. SG!Precedes(a, p, q) \/ SG!Precedes(a, q, p)
    BY <1>2, PrecedesOnce DEF SG!Found
  <2>2. Cardinality(Before(a, p)) # Cardinality(Before(a, q))
    BY <2>1, BeforeCounts
  <2>3. QED
    BY <2>2
<1>3. place \in Injection(items, 0 .. (a.limit - 1))
  BY <1>1, <1>2 DEF Injection, IsInjective
<1>4. Cardinality(items) <= a.limit
  <2>1. /\ IsFiniteSet(0 .. (a.limit - 1))
        /\ Cardinality(0 .. (a.limit - 1)) = IF 0 > a.limit - 1 THEN 0 ELSE a.limit - 1 - 0 + 1
    <3>1. 0 \in Int /\ a.limit - 1 \in Int
      OBVIOUS
    <3> HIDE DEF items, place
    <3>2. QED
      BY <3>1, FS_Interval
  <2>2. Cardinality(0 .. (a.limit - 1)) = a.limit
    BY <2>1
  <2>3. QED
    BY <1>3, <2>1, <2>2, FS_Injection
<1>5. ASSUME NEW p \in items, NEW q \in SG!Found(a), SG!Precedes(a, q, p) PROVE q \in items
  BY <1>5, BeforeCounts
<1>6. items \subseteq SG!Found(a)
  OBVIOUS
<1>7. QED
  BY <1>4, <1>5, <1>6 DEF FirstOf

LEMMA AnswerIsFirst == ASSUME NEW a, a.limit \in Nat PROVE FirstOf(a, SG!Answer(a).items)
<1>1. SG!Answer(a).items = {} \/
      SG!Answer(a).items = {p \in SG!Found(a) : Cardinality(Before(a, p)) < a.limit}
  <2>1. \A p : SG!Cardinality({q \in SG!Found(a) : SG!Precedes(a, q, p)}) = Cardinality(Before(a, p))
    BY SameCount DEF Before
  <2>2. QED
    BY <2>1 DEF SG!Answer
<1>2. QED
  BY <1>1, NoneIsFirst, RankedIsFirst

-----------------------------------------------------------------------------
PageFields   == {"page", "knockdown", "applied", "dismissed", "filter", "cache", "fetches", "forms",
                 "creates", "acts"}
FilterFields == {"nMin", "nMax", "sort", "types", "target", "mode", "gMin", "gMax", "limit"}
FormFields   == {"row", "named", "confirmed", "duplicate", "for", "ticks"}
CreateFields == {"row", "steps", "confirmed", "mounted", "done", "for", "ticks"}

Fields(record, fields) == record = [x \in fields |-> record[x]]

\* Conditions that a search applies.
Applicable(a) == Fields(a, FilterFields) /\ a.limit \in Nat

SuggestionShape ==
  /\ Fields(ui, PageFields) /\ Fields(srv, {"adopted", "mine", "others"})
  /\ \A f \in ui.fetches : Fields(f, {"key", "by", "read"})
  /\ \A f \in ui.forms : Fields(f, FormFields)
  /\ \A c \in ui.creates : Fields(c, CreateFields)
  /\ Applicable(ui.filter)
  /\ ui.applied # None => Applicable(The(ui.applied))

\* What is cached or read was found by the conditions that are its key.
AnswersTheirKey ==
  /\ \A e \in ui.cache : FirstOf(e.key, e.data.items)
  /\ \A f \in ui.fetches : /\ f.key = f.by /\ f.key.limit \in Nat
                           /\ f.read # None => FirstOf(f.key, The(f.read).items)

\* A form belongs to the row it was opened for and has what was ticked in it, and so has its request.
FormsAreOfRows ==
  /\ \A f \in ui.forms : f.row = SG!SuggestionKey(f.for) /\ f.confirmed = f.ticks
  /\ \A c \in ui.creates : c.steps = c.for.steps /\ c.confirmed = c.ticks

\* The answer shows the recipe as adopted, or shows nothing.
Tells(data, steps) == data.items = {} \/ steps \in data.adopted

\* Whatever will be shown under the present conditions tells of the recipe.
WillTell(u, steps) ==
  \/ u.applied = None
  \/ /\ \A f \in u.fetches : f.key = The(u.applied) /\ f.read # None => Tells(The(f.read), steps)
     /\ \/ \E f \in u.fetches : f.key = The(u.applied)
        \/ \A e \in u.cache : e.key = The(u.applied) => Tells(e.data, steps)

\* A setup made here is stored; either its answer is still to come, or the screen will tell of it.
MadeAreTold ==
  /\ srv.mine \subseteq srv.adopted
  /\ \A steps \in srv.mine :
       (\E c \in ui.creates : c.done = "made" /\ c.steps = steps) \/ WillTell(ui, steps)

SuggestionParts == SuggestionShape /\ AnswersTheirKey /\ FormsAreOfRows /\ MadeAreTold

SuggestionInv == ui.page = "suggestions" => SuggestionParts

LEMMA SuggestionNone == SG!None = None /\ (\A x : SG!The(x) = The(x) /\ SG!Some(x) = Some(x))
BY DEF SG!None, None, SG!The, The, SG!Some, Some

LEMMA TheSome == ASSUME NEW x PROVE The(Some(x)) = x /\ Some(x) # None
BY DEF The, Some, None

\* Another account of the same adoption: only its row may have gone.
SameDeed(c, d) ==
  /\ Fields(c, CreateFields) => Fields(d, CreateFields)
  /\ d.steps = c.steps /\ d.confirmed = c.confirmed
  /\ d.done = c.done /\ d.for = c.for /\ d.ticks = c.ticks

\* The page with the rows that are shown: forms may go, and nothing else does.
ShownAs(u, v) ==
  /\ Fields(v, PageFields)
  /\ v.page = u.page /\ v.applied = u.applied /\ v.filter = u.filter
  /\ v.cache = u.cache /\ v.fetches = u.fetches
  /\ v.forms \subseteq u.forms
  /\ \A d \in v.creates : \E c \in u.creates : SameDeed(c, d)
  /\ \A c \in u.creates : \E d \in v.creates : SameDeed(c, d)

LEMMA ShowsKeeps ==
  ASSUME NEW u, Fields(u, PageFields), \A c \in u.creates : Fields(c, CreateFields)
  PROVE  ShownAs(u, SG!Shows(u))
<1> DEFINE keys == {SG!RowKey(u, p) : p \in SG!Visible(u)}
           kept == {f \in u.forms : f.row \in keys}
           deed(c) == [c EXCEPT !.mounted = @ /\ c.row \in keys]
           deeds == {deed(c) : c \in u.creates}
           shown == [u EXCEPT !.forms = kept, !.creates = deeds]
<1>1. SG!Shows(u) = shown
  BY DEF SG!Shows
<1>2. \A c \in u.creates : SameDeed(c, deed(c))
  BY DEF SameDeed, CreateFields, Fields
<1>3. kept \subseteq u.forms
  OBVIOUS
<1>4. \A d \in deeds : \E c \in u.creates : SameDeed(c, d)
  BY <1>2
<1>5. \A c \in u.creates : \E d \in deeds : SameDeed(c, d)
  BY <1>2
<1> HIDE DEF kept, deeds
<1>6. QED
  BY <1>1, <1>3, <1>4, <1>5 DEF ShownAs, PageFields, Fields

\* The page without its rows, after a doing of the user or none.
DoneAs(u, v) ==
  /\ Fields(v, PageFields)
  /\ v.page = u.page /\ v.applied = u.applied /\ v.filter = u.filter /\ v.cache = u.cache
  /\ v.fetches = u.fetches /\ v.forms = u.forms /\ v.creates = u.creates

LEMMA DoesKeeps ==
  ASSUME NEW u, Fields(u, PageFields), SG!Does(u)
  PROVE  DoneAs(u, ui') /\ srv' = srv
BY DEF SG!Does, SG!Sets, DoneAs, PageFields, Fields

\* The requests and forms of a step that opens none.
LEMMA FormsKept ==
  ASSUME SuggestionParts,
         \A f \in ui'.forms : f \in ui.forms,
         \A d \in ui'.creates : \E c \in ui.creates : SameDeed(c, d)
  PROVE  FormsAreOfRows' /\ (\A f \in ui'.forms : Fields(f, FormFields))
                         /\ (\A c \in ui'.creates : Fields(c, CreateFields))
BY DEF SuggestionParts, SuggestionShape, FormsAreOfRows, SameDeed

LEMMA SuggestionSifts ==
  ASSUME SuggestionParts, NEW field \in FilterFields \ {"limit"}, NEW value, SG!Sifts(field, value)
  PROVE  SuggestionParts'
<1> DEFINE u == [ui EXCEPT !.filter[field] = value]
<1>1. SG!Does(u)
  BY DEF SG!Sifts
<1>2. /\ Fields(u, PageFields) /\ u.filter = [ui.filter EXCEPT ![field] = value]
      /\ u.page = ui.page /\ u.applied = ui.applied /\ u.cache = ui.cache
      /\ u.fetches = ui.fetches /\ u.forms = ui.forms /\ u.creates = ui.creates
  BY DEF SuggestionParts, SuggestionShape, PageFields, Fields
<1>3. Applicable(u.filter)
  <2>1. Fields(ui.filter, FilterFields) /\ ui.filter.limit \in Nat
    BY DEF SuggestionParts, SuggestionShape, Applicable
  <2>2. \A f : Fields(f, FilterFields) =>
          /\ Fields([f EXCEPT ![field] = value], FilterFields)
          /\ [f EXCEPT ![field] = value].limit = f.limit
    <3>1. field \in FilterFields /\ field # "limit" /\ "limit" \in FilterFields
      BY DEF FilterFields
    <3> HIDE DEF FilterFields
    <3>2. QED
      BY <3>1 DEF Fields
  <2>3. QED
    BY <1>2, <2>1, <2>2 DEF Applicable
<1>4. DoneAs(u, ui') /\ srv' = srv
  BY <1>1, <1>2, DoesKeeps
<1> HIDE DEF u
<1>5. QED
  BY <1>2, <1>3, <1>4 DEF DoneAs, SuggestionParts, SuggestionShape, AnswersTheirKey, FormsAreOfRows,
     MadeAreTold, WillTell

LEMMA SuggestionFilters ==
  ASSUME SuggestionParts,
         \/ \E type \in Types : SG!ToggleType(type)
         \/ \E mode \in {"meaty", "gap"} : SG!SetMode(mode)
         \/ \E sort \in {"n", "target"} : SG!SetSort(sort)
         \/ \E target \in {None} \union {Some(p.target) : p \in Proposals} : SG!SetTarget(target)
         \/ \E typed \in Typed : SG!SetNumber(typed)
  PROVE  SuggestionParts'
<1>1. \A field \in FilterFields \ {"limit"} : \A value : SG!Sifts(field, value) => SuggestionParts'
  BY SuggestionSifts
<1>2. {"nMin", "nMax", "sort", "types", "target", "mode", "gMin", "gMax"} \subseteq FilterFields \ {"limit"}
  BY DEF FilterFields
<1>3. \E field \in FilterFields \ {"limit"} : \E value : SG!Sifts(field, value)
  BY <1>2 DEF SG!ToggleType, SG!SetMode, SG!SetSort, SG!SetTarget, SG!SetNumber
<1>4. QED
  BY <1>1, <1>3

\* A page whose conditions are searched for: one query of them is on its way, and all others stay.
LEMMA FetchesKeeps ==
  ASSUME NEW u, Fields(u, PageFields), u.applied # None
  PROVE  LET v == SG!Fetches(u)
             key == The(u.applied)
         IN  /\ Fields(v, PageFields) /\ v.page = u.page /\ v.applied = u.applied
             /\ v.filter = u.filter /\ v.cache = u.cache /\ v.forms = u.forms
             /\ v.creates = u.creates
             /\ v.fetches = {f \in u.fetches : f.key # key}
                              \union {[key |-> key, by |-> key, read |-> None]}
<1>1. SG!Fetches(u) = [u EXCEPT !.fetches = {f \in @ : f.key # The(u.applied)} \union
        {[key |-> The(u.applied), by |-> The(u.applied), read |-> None]}]
  BY SuggestionNone DEF SG!Fetches, SG!QueryKey
<1>2. QED
  BY <1>1 DEF Fields, PageFields

\* A page that searches for conditions and rejects other rows than before.
LEMMA SuggestionSearches ==
  ASSUME SuggestionParts, NEW u, Fields(u, PageFields), u.applied # None, Applicable(The(u.applied)),
         u.page = ui.page, u.filter = ui.filter, u.cache = ui.cache, u.fetches = ui.fetches,
         u.forms = ui.forms, u.creates = ui.creates, SG!Does(SG!Shows(SG!Fetches(u)))
  PROVE  SuggestionParts'
<1> DEFINE v == SG!Fetches(u)
           key == The(u.applied)
           fresh == [key |-> key, by |-> key, read |-> None]
<1>1. /\ Fields(v, PageFields) /\ v.page = ui.page /\ v.applied = u.applied
      /\ v.filter = ui.filter /\ v.cache = ui.cache /\ v.forms = ui.forms /\ v.creates = ui.creates
      /\ v.fetches = {f \in ui.fetches : f.key # key} \union {fresh}
  BY FetchesKeeps
<1> HIDE DEF v
<1>2. ShownAs(v, SG!Shows(v))
  BY <1>1, ShowsKeeps DEF SuggestionParts, SuggestionShape
<1>3. DoneAs(SG!Shows(v), ui') /\ srv' = srv
  <2>1. SG!Does(SG!Shows(v))
    BY DEF v
  <2>2. QED
    BY <1>2, <2>1, DoesKeeps DEF ShownAs
<1>4. /\ Fields(ui', PageFields) /\ ui'.page = ui.page /\ ui'.applied = u.applied
      /\ ui'.filter = ui.filter /\ ui'.cache = ui.cache /\ ui'.forms \subseteq ui.forms
      /\ ui'.fetches = {f \in ui.fetches : f.key # key} \union {fresh}
      /\ \A d \in ui'.creates : \E c \in ui.creates : SameDeed(c, d)
  BY <1>1, <1>2, <1>3 DEF DoneAs, ShownAs
<1>5. FormsAreOfRows' /\ (\A f \in ui'.forms : Fields(f, FormFields))
                      /\ (\A c \in ui'.creates : Fields(c, CreateFields))
  BY <1>4, FormsKept
<1>6. Fields(fresh, {"key", "by", "read"}) /\ fresh.key = key /\ fresh.by = key /\ fresh.read = None
  BY DEF Fields
<1> HIDE DEF key, fresh
<1>7. SuggestionShape'
  BY <1>3, <1>4, <1>5, <1>6 DEF SuggestionParts, SuggestionShape
<1>8. AnswersTheirKey'
  BY <1>4, <1>6 DEF SuggestionParts, AnswersTheirKey, Applicable, key
<1>9. MadeAreTold'
  <2>1. fresh \in ui'.fetches /\ \A f \in ui'.fetches : f.key = key => f = fresh
    BY <1>4
  <2>2. \A steps : WillTell(ui', steps)
    BY <1>4, <1>6, <2>1 DEF WillTell, key
  <2>3. QED
    BY <1>3, <2>2 DEF SuggestionParts, MadeAreTold
<1>10. QED
  BY <1>5, <1>7, <1>8, <1>9 DEF SuggestionParts

LEMMA SuggestionRuns == ASSUME SuggestionParts, SG!RunSearch PROVE SuggestionParts'
<1> DEFINE u == [ui EXCEPT !.dismissed = {}, !.applied = Some(ui.filter)]
<1>1. SG!Does(SG!Shows(SG!Fetches(u)))
  BY SuggestionNone DEF SG!RunSearch
<1>2. /\ Fields(u, PageFields) /\ u.applied = Some(ui.filter)
      /\ u.page = ui.page /\ u.filter = ui.filter /\ u.cache = ui.cache
      /\ u.fetches = ui.fetches /\ u.forms = ui.forms /\ u.creates = ui.creates
  BY DEF SuggestionParts, SuggestionShape, PageFields, Fields
<1> HIDE DEF u
<1>3. u.applied # None /\ Applicable(The(u.applied))
  BY <1>2, TheSome DEF SuggestionParts, SuggestionShape
<1>4. QED
  BY <1>1, <1>2, <1>3, SuggestionSearches

LEMMA SuggestionMore == ASSUME SuggestionParts, SG!ShowMore PROVE SuggestionParts'
<1> DEFINE a == The(ui.applied)
           more == IF a.limit + First < Most THEN a.limit + First ELSE Most
           wider == [a EXCEPT !.limit = more]
           u == [ui EXCEPT !.applied = Some(wider)]
<1>1. ui.applied # None
  BY SuggestionNone DEF SG!ShowMore, SG!CanShowMore, SG!Visible, SG!Items, SG!Cached
<1>2. Fields(a, FilterFields) /\ a.limit \in Nat
  BY <1>1 DEF SuggestionParts, SuggestionShape, Applicable
<1>3. more \in Nat
  BY <1>2, SuggestionsAssumption
<1>4. SG!Does(SG!Shows(SG!Fetches(u)))
  <2>1. wider = [a EXCEPT !.limit = IF @ + First < Most THEN @ + First ELSE Most]
    BY <1>2 DEF Fields, FilterFields
  <2>2. QED
    BY <2>1, SuggestionNone DEF SG!ShowMore
<1> HIDE DEF more
<1>5. Applicable(wider)
  BY <1>2, <1>3 DEF Applicable, Fields, FilterFields
<1> HIDE DEF wider
<1>6. /\ Fields(u, PageFields) /\ u.applied = Some(wider)
      /\ u.page = ui.page /\ u.filter = ui.filter /\ u.cache = ui.cache
      /\ u.fetches = ui.fetches /\ u.forms = ui.forms /\ u.creates = ui.creates
  BY DEF SuggestionParts, SuggestionShape, PageFields, Fields
<1> HIDE DEF u
<1>7. u.applied # None /\ Applicable(The(u.applied))
  BY <1>5, <1>6, TheSome
<1>8. QED
  BY <1>4, <1>6, <1>7, SuggestionSearches

\* A step of the rows that neither searches nor answers, with forms and requests that are in order.
LEMMA SuggestionRowKeeps ==
  ASSUME SuggestionParts, Fields(ui', PageFields), srv' = srv,
         ui'.filter = ui.filter, ui'.applied = ui.applied, ui'.cache = ui.cache,
         ui'.fetches = ui.fetches,
         \A f \in ui'.forms :
           Fields(f, FormFields) /\ f.row = SG!SuggestionKey(f.for) /\ f.confirmed = f.ticks,
         \A c \in ui'.creates :
           Fields(c, CreateFields) /\ c.steps = c.for.steps /\ c.confirmed = c.ticks,
         \A c \in ui.creates : \E d \in ui'.creates : SameDeed(c, d)
  PROVE  SuggestionParts'
<1>1. SuggestionShape'
  BY DEF SuggestionParts, SuggestionShape
<1>2. AnswersTheirKey' /\ FormsAreOfRows'
  BY DEF SuggestionParts, AnswersTheirKey, FormsAreOfRows
<1>3. \A steps : WillTell(ui, steps) => WillTell(ui', steps)
  BY DEF WillTell
<1>4. MadeAreTold'
  BY <1>3 DEF SuggestionParts, MadeAreTold, SameDeed
<1>5. QED
  BY <1>1, <1>2, <1>4 DEF SuggestionParts

LEMMA SuggestionRejects ==
  ASSUME SuggestionParts, NEW p, SG!Reject(p)
  PROVE  SuggestionParts'
<1> DEFINE u == [ui EXCEPT !.dismissed = @ \union {SG!SuggestionKey(p)}]
<1>1. SG!Does(SG!Shows(u))
  BY DEF SG!Reject
<1>2. /\ Fields(u, PageFields) /\ u.applied = ui.applied
      /\ u.page = ui.page /\ u.filter = ui.filter /\ u.cache = ui.cache
      /\ u.fetches = ui.fetches /\ u.forms = ui.forms /\ u.creates = ui.creates
  BY DEF SuggestionParts, SuggestionShape, PageFields, Fields
<1> HIDE DEF u
<1>3. ShownAs(u, SG!Shows(u))
  BY <1>2, ShowsKeeps DEF SuggestionParts, SuggestionShape
<1>4. DoneAs(SG!Shows(u), ui') /\ srv' = srv
  BY <1>1, <1>3, DoesKeeps DEF ShownAs
<1>5. /\ Fields(ui', PageFields) /\ ui'.filter = ui.filter /\ ui'.applied = ui.applied
      /\ ui'.cache = ui.cache /\ ui'.fetches = ui.fetches /\ ui'.forms \subseteq ui.forms
      /\ \A d \in ui'.creates : \E c \in ui.creates : SameDeed(c, d)
      /\ \A c \in ui.creates : \E d \in ui'.creates : SameDeed(c, d)
  BY <1>2, <1>3, <1>4 DEF DoneAs, ShownAs
<1>6. FormsAreOfRows' /\ (\A f \in ui'.forms : Fields(f, FormFields))
                      /\ (\A c \in ui'.creates : Fields(c, CreateFields))
  BY <1>5, FormsKept
<1>7. QED
  BY <1>4, <1>5, <1>6, SuggestionRowKeeps DEF FormsAreOfRows

\* The user changes the forms.
LEMMA SuggestionForms ==
  ASSUME SuggestionParts, NEW forms, SG!Does([ui EXCEPT !.forms = forms]),
         \A f \in forms :
           Fields(f, FormFields) /\ f.row = SG!SuggestionKey(f.for) /\ f.confirmed = f.ticks
  PROVE  SuggestionParts'
<1> DEFINE u == [ui EXCEPT !.forms = forms]
<1>1. /\ Fields(u, PageFields) /\ u.applied = ui.applied /\ u.forms = forms
      /\ u.page = ui.page /\ u.filter = ui.filter /\ u.cache = ui.cache
      /\ u.fetches = ui.fetches /\ u.creates = ui.creates
  BY DEF SuggestionParts, SuggestionShape, PageFields, Fields
<1>2. DoneAs(u, ui') /\ srv' = srv
  BY <1>1, DoesKeeps
<1> HIDE DEF u
<1>3. /\ Fields(ui', PageFields) /\ ui'.filter = ui.filter /\ ui'.applied = ui.applied
      /\ ui'.cache = ui.cache /\ ui'.fetches = ui.fetches /\ ui'.forms = forms
      /\ ui'.creates = ui.creates
  BY <1>1, <1>2 DEF DoneAs
<1>4. \A c : SameDeed(c, c)
  BY DEF SameDeed
<1>5. QED
  BY <1>2, <1>3, <1>4, SuggestionRowKeeps DEF SuggestionParts, SuggestionShape, FormsAreOfRows

\* The form of a row that is being edited is one of the forms.
LEMMA FormOfRow ==
  ASSUME SuggestionParts, NEW p, SG!Editing(p)
  PROVE  /\ SG!Form(p) \in ui.forms /\ SG!Form(p).row = SG!SuggestionKey(p)
         /\ Fields(SG!Form(p), FormFields)
         /\ SG!Form(p).row = SG!SuggestionKey(SG!Form(p).for)
         /\ SG!Form(p).confirmed = SG!Form(p).ticks
<1>1. SG!Form(p) \in ui.forms /\ SG!Form(p).row = SG!SuggestionKey(p)
  BY DEF SG!Editing, SG!Form, SG!RowKey
<1>2. QED
  BY <1>1 DEF SuggestionParts, SuggestionShape, FormsAreOfRows

LEMMA SuggestionEdits ==
  ASSUME SuggestionParts, NEW p,
         \/ SG!StartAdopt(p) \/ SG!EditName(p) \/ SG!CancelAdopt(p)
         \/ \E cell \in OkiCells : SG!ToggleConfirmed(p, cell)
  PROVE  SuggestionParts'
<1> DEFINE Ordered(f) ==
             Fields(f, FormFields) /\ f.row = SG!SuggestionKey(f.for) /\ f.confirmed = f.ticks
<1>1. \A f \in ui.forms : Ordered(f)
  BY DEF SuggestionParts, SuggestionShape, FormsAreOfRows
<1>2. \A forms : SG!Does([ui EXCEPT !.forms = forms]) /\ (\A f \in forms : Ordered(f)) => SuggestionParts'
  BY SuggestionForms
<1>3. CASE SG!StartAdopt(p)
  <2> DEFINE form == [row |-> SG!RowKey(ui, p), named |-> SG!GeneratedName(p), confirmed |-> {},
                      duplicate |-> FALSE, for |-> p, ticks |-> {}]
  <2>1. Ordered(form)
    BY DEF Fields, FormFields, SG!RowKey
  <2> HIDE DEF form, Ordered
  <2>2. SG!Does([ui EXCEPT !.forms = ui.forms \union {form}])
    BY <1>3 DEF SG!StartAdopt, form
  <2>3. QED
    BY <1>1, <1>2, <2>1, <2>2
<1>4. ASSUME NEW form, Ordered(form), SG!SetForm(p, form) PROVE SuggestionParts'
  <2>1. SG!Does([ui EXCEPT !.forms = (ui.forms \ {SG!Form(p)}) \union {form}])
    BY <1>4 DEF SG!SetForm
  <2> HIDE DEF Ordered
  <2>2. QED
    BY <1>1, <1>2, <1>4, <2>1
<1>5. CASE SG!EditName(p)
  <2> DEFINE form == [SG!Form(p) EXCEPT !.named = ~@]
  <2>1. SG!SetForm(p, form) /\ SG!Editing(p)
    BY <1>5 DEF SG!EditName, SG!OpenForm
  <2>2. Ordered(form)
    BY <2>1, FormOfRow DEF Fields, FormFields
  <2> HIDE DEF form, Ordered
  <2>3. QED
    BY <1>4, <2>1, <2>2
<1>6. CASE SG!CancelAdopt(p)
  <2>1. SG!Does([ui EXCEPT !.forms = ui.forms \ {SG!Form(p)}])
    BY <1>6 DEF SG!CancelAdopt
  <2> HIDE DEF Ordered
  <2>2. QED
    BY <1>1, <1>2, <2>1
<1>7. ASSUME NEW cell \in OkiCells, SG!ToggleConfirmed(p, cell) PROVE SuggestionParts'
  <2> DEFINE toggled(set) == IF cell \in set THEN set \ {cell} ELSE set \union {cell}
             form == [SG!Form(p) EXCEPT !.confirmed = toggled(@), !.ticks = toggled(@)]
  <2>1. SG!SetForm(p, form) /\ SG!Editing(p)
    BY <1>7 DEF SG!ToggleConfirmed, SG!OpenForm
  <2> HIDE DEF toggled
  <2>2. Ordered(form)
    BY <2>1, FormOfRow DEF Fields, FormFields
  <2> HIDE DEF form, Ordered
  <2>3. QED
    BY <1>4, <2>1, <2>2
<1>8. QED
  BY <1>3, <1>5, <1>6, <1>7

LEMMA SuggestionConfirms ==
  ASSUME SuggestionParts, NEW p, SG!ConfirmAdopt(p)
  PROVE  SuggestionParts'
<1> DEFINE form == SG!Form(p)
           create == [row |-> SG!RowKey(ui, p), steps |-> p.steps, confirmed |-> form.confirmed,
                      mounted |-> TRUE, done |-> "no", for |-> form.for, ticks |-> form.ticks]
           u == [ui EXCEPT !.creates = @ \union {create}]
<1>1. SG!Does(u) /\ SG!Editing(p)
  BY DEF SG!ConfirmAdopt, SG!OpenForm
<1>2. /\ Fields(create, CreateFields) /\ create.steps = create.for.steps
      /\ create.confirmed = create.ticks
  BY <1>1, FormOfRow DEF Fields, CreateFields, SG!SuggestionKey
<1> HIDE DEF create
<1>3. /\ Fields(u, PageFields) /\ u.applied = ui.applied /\ u.forms = ui.forms
      /\ u.page = ui.page /\ u.filter = ui.filter /\ u.cache = ui.cache
      /\ u.fetches = ui.fetches /\ u.creates = ui.creates \union {create}
  BY DEF SuggestionParts, SuggestionShape, PageFields, Fields
<1> HIDE DEF u
<1>4. DoneAs(u, ui') /\ srv' = srv
  BY <1>1, <1>3, DoesKeeps
<1>5. /\ Fields(ui', PageFields) /\ ui'.filter = ui.filter /\ ui'.applied = ui.applied
      /\ ui'.cache = ui.cache /\ ui'.fetches = ui.fetches /\ ui'.forms = ui.forms
      /\ ui'.creates = ui.creates \union {create}
  BY <1>3, <1>4 DEF DoneAs
<1>6. \A c : SameDeed(c, c)
  BY DEF SameDeed
<1>7. \A c \in ui'.creates :
        Fields(c, CreateFields) /\ c.steps = c.for.steps /\ c.confirmed = c.ticks
  BY <1>2, <1>5 DEF SuggestionParts, SuggestionShape, FormsAreOfRows
<1>8. \A f \in ui'.forms :
        Fields(f, FormFields) /\ f.row = SG!SuggestionKey(f.for) /\ f.confirmed = f.ticks
  BY <1>5 DEF SuggestionParts, SuggestionShape, FormsAreOfRows
<1>9. \A c \in ui.creates : \E d \in ui'.creates : SameDeed(c, d)
  BY <1>5, <1>6
<1>10. QED
  BY <1>4, <1>5, <1>7, <1>8, <1>9, SuggestionRowKeeps

LEMMA SuggestionReads ==
  ASSUME SuggestionParts, NEW f \in ui.fetches, SG!FetchRead(f)
  PROVE  SuggestionParts'
<1> DEFINE answer == SG!Answer(f.by)
           got == [f EXCEPT !.read = Some(answer)]
<1>1. Fields(f, {"key", "by", "read"}) /\ f.key = f.by /\ f.key.limit \in Nat /\ f.read = None
  BY SuggestionNone DEF SuggestionParts, SuggestionShape, AnswersTheirKey, SG!FetchRead
<1>2. /\ ui' = [ui EXCEPT !.fetches = (ui.fetches \ {f}) \union {got}] /\ srv' = srv
  BY SuggestionNone DEF SG!FetchRead, SG!Sets
<1>3. FirstOf(f.key, answer.items)
  BY <1>1, AnswerIsFirst
<1>4. answer.items = {} \/ answer.adopted = srv.adopted
  BY DEF SG!Answer
<1> HIDE DEF answer
<1>5. /\ Fields(got, {"key", "by", "read"}) /\ got.key = f.key /\ got.by = f.by
      /\ got.read # None /\ The(got.read) = answer
  BY <1>1, TheSome DEF Fields
<1> HIDE DEF got
<1>6. /\ Fields(ui', PageFields) /\ ui'.filter = ui.filter /\ ui'.applied = ui.applied
      /\ ui'.cache = ui.cache /\ ui'.fetches = (ui.fetches \ {f}) \union {got}
      /\ ui'.forms = ui.forms /\ ui'.creates = ui.creates
  BY <1>2 DEF SuggestionParts, SuggestionShape, PageFields, Fields
<1>7. SuggestionShape'
  BY <1>2, <1>5, <1>6 DEF SuggestionParts, SuggestionShape
<1>8. AnswersTheirKey' /\ FormsAreOfRows'
  BY <1>1, <1>3, <1>5, <1>6 DEF SuggestionParts, AnswersTheirKey, FormsAreOfRows
<1>9. ASSUME NEW steps \in srv.mine, WillTell(ui, steps) PROVE WillTell(ui', steps)
  <2>1. steps \in srv.adopted
    BY DEF SuggestionParts, MadeAreTold
  <2>2. Tells(answer, steps)
    BY <1>4, <2>1 DEF Tells
  <2>3. QED
    BY <1>5, <1>6, <1>9, <2>2 DEF WillTell
<1>10. MadeAreTold'
  BY <1>2, <1>6, <1>9 DEF SuggestionParts, MadeAreTold
<1>11. QED
  BY <1>7, <1>8, <1>10 DEF SuggestionParts

LEMMA SuggestionAnswered ==
  ASSUME SuggestionParts, NEW f \in ui.fetches, SG!FetchAnswered(f)
  PROVE  SuggestionParts'
<1> DEFINE entry == [key |-> f.key, data |-> The(f.read)]
           u == [ui EXCEPT !.fetches = @ \ {f},
                           !.cache = {e \in @ : e.key # f.key} \union {entry}]
<1>1. f.read # None /\ ui' = SG!Shows(u) /\ srv' = srv
  BY SuggestionNone DEF SG!FetchAnswered, SG!Sets
<1>2. FirstOf(f.key, The(f.read).items)
  BY <1>1 DEF SuggestionParts, AnswersTheirKey
<1>3. entry.key = f.key /\ entry.data = The(f.read)
  OBVIOUS
<1> HIDE DEF entry
<1>4. /\ Fields(u, PageFields) /\ u.applied = ui.applied /\ u.page = ui.page /\ u.filter = ui.filter
      /\ u.cache = {e \in ui.cache : e.key # f.key} \union {entry}
      /\ u.fetches = ui.fetches \ {f} /\ u.forms = ui.forms /\ u.creates = ui.creates
  BY DEF SuggestionParts, SuggestionShape, PageFields, Fields
<1> HIDE DEF u
<1>5. ShownAs(u, ui')
  BY <1>1, <1>4, ShowsKeeps DEF SuggestionParts, SuggestionShape
<1>6. /\ Fields(ui', PageFields) /\ ui'.filter = ui.filter /\ ui'.applied = ui.applied
      /\ ui'.cache = {e \in ui.cache : e.key # f.key} \union {entry}
      /\ ui'.fetches = ui.fetches \ {f} /\ ui'.forms \subseteq ui.forms
      /\ \A d \in ui'.creates : \E c \in ui.creates : SameDeed(c, d)
      /\ \A c \in ui.creates : \E d \in ui'.creates : SameDeed(c, d)
  BY <1>4, <1>5 DEF ShownAs
<1>7. FormsAreOfRows' /\ (\A g \in ui'.forms : Fields(g, FormFields))
                      /\ (\A c \in ui'.creates : Fields(c, CreateFields))
  BY <1>6, FormsKept
<1>8. SuggestionShape'
  BY <1>1, <1>6, <1>7 DEF SuggestionParts, SuggestionShape
<1>9. AnswersTheirKey'
  BY <1>2, <1>3, <1>6 DEF SuggestionParts, AnswersTheirKey
<1>10. ASSUME NEW steps, WillTell(ui, steps) PROVE WillTell(ui', steps)
  <2>1. CASE f.key = The(ui.applied)
    <3>1. ui.applied = None \/ Tells(entry.data, steps)
      BY <1>1, <1>3, <1>10, <2>1 DEF WillTell
    <3>2. QED
      BY <1>3, <1>6, <1>10, <2>1, <3>1 DEF WillTell
  <2>2. CASE f.key # The(ui.applied)
    BY <1>3, <1>6, <1>10, <2>2 DEF WillTell
  <2>3. QED
    BY <2>1, <2>2
<1>11. MadeAreTold'
  BY <1>1, <1>6, <1>10 DEF SuggestionParts, MadeAreTold, SameDeed
<1>12. QED
  BY <1>7, <1>8, <1>9, <1>11 DEF SuggestionParts

LEMMA SuggestionAdopts ==
  ASSUME SuggestionParts, NEW c \in ui.creates, SG!Adopt(c)
  PROVE  SuggestionParts'
<1> DEFINE done == IF c.steps \in srv.adopted THEN "duplicate" ELSE "made"
           told == [c EXCEPT !.done = done]
<1>1. c.done = "no" /\ ui' = [ui EXCEPT !.creates = (ui.creates \ {c}) \union {told}]
  BY DEF SG!Adopt
<1>2. srv' = [srv EXCEPT !.adopted = @ \union {c.steps},
                         !.mine = IF c.steps \in srv.adopted THEN @ ELSE @ \union {c.steps}]
  BY DEF SG!Adopt
<1>3. Fields(srv, {"adopted", "mine", "others"}) /\ Fields(c, CreateFields)
  BY DEF SuggestionParts, SuggestionShape
<1>4. /\ Fields(srv', {"adopted", "mine", "others"})
      /\ srv'.adopted = srv.adopted \union {c.steps}
      /\ srv'.mine = IF c.steps \in srv.adopted THEN srv.mine ELSE srv.mine \union {c.steps}
  BY <1>2, <1>3 DEF Fields
<1>5. /\ Fields(told, CreateFields) /\ told.steps = c.steps /\ told.confirmed = c.confirmed
      /\ told.for = c.for /\ told.ticks = c.ticks /\ told.done = done
  BY <1>3 DEF Fields, CreateFields
<1> HIDE DEF told
<1>6. /\ Fields(ui', PageFields) /\ ui'.filter = ui.filter /\ ui'.applied = ui.applied
      /\ ui'.cache = ui.cache /\ ui'.fetches = ui.fetches /\ ui'.forms = ui.forms
      /\ ui'.creates = (ui.creates \ {c}) \union {told}
  BY <1>1 DEF SuggestionParts, SuggestionShape, PageFields, Fields
<1>7. SuggestionShape'
  BY <1>4, <1>5, <1>6 DEF SuggestionParts, SuggestionShape
<1>8. AnswersTheirKey'
  BY <1>6 DEF SuggestionParts, AnswersTheirKey
<1>9. FormsAreOfRows'
  BY <1>5, <1>6 DEF SuggestionParts, FormsAreOfRows
<1>10. MadeAreTold'
  <2>1. srv'.mine \subseteq srv'.adopted
    BY <1>4 DEF SuggestionParts, MadeAreTold
  <2>2. \A steps : WillTell(ui, steps) => WillTell(ui', steps)
    BY <1>6 DEF WillTell
  <2>3. ASSUME NEW steps \in srv.mine
        PROVE  (\E d \in ui'.creates : d.done = "made" /\ d.steps = steps) \/ WillTell(ui', steps)
    BY <1>1, <1>6, <2>2 DEF SuggestionParts, MadeAreTold
  <2>4. CASE c.steps \in srv.adopted
    BY <1>4, <2>1, <2>3, <2>4 DEF MadeAreTold
  <2>5. CASE c.steps \notin srv.adopted
    <3>1. told \in ui'.creates /\ told.done = "made" /\ told.steps = c.steps
      BY <1>5, <1>6, <2>5
    <3>2. QED
      BY <1>4, <2>1, <2>3, <2>5, <3>1 DEF MadeAreTold
  <2>6. QED
    BY <2>4, <2>5
<1>11. QED
  BY <1>7, <1>8, <1>9, <1>10 DEF SuggestionParts

\* The page without a request whose answer has come.
LEMMA SettledKeeps ==
  ASSUME SuggestionParts, NEW c
  PROVE  LET u == SG!Settled(c)
         IN  /\ Fields(u, PageFields) /\ u.applied = ui.applied /\ u.page = ui.page
             /\ u.filter = ui.filter /\ u.cache = ui.cache /\ u.fetches = ui.fetches
             /\ u.forms = ui.forms /\ u.creates = ui.creates \ {c}
BY DEF SG!Settled, SuggestionParts, SuggestionShape, PageFields, Fields

\* A request is settled that made nothing; the forms stay in order.
LEMMA SuggestionSettles ==
  ASSUME SuggestionParts, NEW c, c.done # "made", srv' = srv,
         Fields(ui', PageFields), ui'.filter = ui.filter, ui'.applied = ui.applied,
         ui'.cache = ui.cache, ui'.fetches = ui.fetches, ui'.creates = ui.creates \ {c},
         \A f \in ui'.forms :
           Fields(f, FormFields) /\ f.row = SG!SuggestionKey(f.for) /\ f.confirmed = f.ticks
  PROVE  SuggestionParts'
<1>1. SuggestionShape'
  BY DEF SuggestionParts, SuggestionShape
<1>2. AnswersTheirKey' /\ FormsAreOfRows'
  BY DEF SuggestionParts, AnswersTheirKey, FormsAreOfRows
<1>3. \A steps : WillTell(ui, steps) => WillTell(ui', steps)
  BY DEF WillTell
<1>4. MadeAreTold'
  BY <1>3 DEF SuggestionParts, MadeAreTold
<1>5. QED
  BY <1>1, <1>2, <1>4 DEF SuggestionParts

LEMMA SuggestionFails == ASSUME SuggestionParts, NEW c, SG!Fails(c) PROVE SuggestionParts'
<1>1. c.done # "made" /\ ui' = SG!Settled(c) /\ srv' = srv
  BY DEF SG!Fails, SG!Sets
<1>2. QED
  BY <1>1, SettledKeeps, SuggestionSettles DEF SuggestionParts, SuggestionShape, FormsAreOfRows

LEMMA SuggestionRefused == ASSUME SuggestionParts, NEW c, SG!Refused(c) PROVE SuggestionParts'
<1> DEFINE u == SG!Settled(c)
           refused(f) == [f EXCEPT !.duplicate = @ \/ (c.mounted /\ f.row = c.row)]
           forms == {refused(f) : f \in ui.forms}
<1>1. c.done # "made" /\ ui' = [u EXCEPT !.forms = {refused(f) : f \in u.forms}] /\ srv' = srv
  BY DEF SG!Refused, SG!Sets, SG!Settled, SuggestionParts, SuggestionShape, Fields, PageFields
<1>2. /\ Fields(u, PageFields) /\ u.applied = ui.applied /\ u.page = ui.page
      /\ u.filter = ui.filter /\ u.cache = ui.cache /\ u.fetches = ui.fetches
      /\ u.forms = ui.forms /\ u.creates = ui.creates \ {c}
  BY SettledKeeps
<1>3. \A g \in forms :
        Fields(g, FormFields) /\ g.row = SG!SuggestionKey(g.for) /\ g.confirmed = g.ticks
  <2>1. \A f \in ui.forms : refused(f).row = f.row /\ refused(f).for = f.for
          /\ refused(f).confirmed = f.confirmed /\ refused(f).ticks = f.ticks
          /\ Fields(refused(f), FormFields)
    BY DEF SuggestionParts, SuggestionShape, Fields, FormFields
  <2> HIDE DEF refused
  <2>2. QED
    BY <2>1 DEF SuggestionParts, FormsAreOfRows
<1> HIDE DEF u, refused
<1>4. /\ Fields(ui', PageFields) /\ ui'.filter = ui.filter /\ ui'.applied = ui.applied
      /\ ui'.cache = ui.cache /\ ui'.fetches = ui.fetches /\ ui'.forms = forms
      /\ ui'.creates = ui.creates \ {c}
  BY <1>1, <1>2 DEF Fields, PageFields
<1> HIDE DEF forms
<1>5. QED
  BY <1>1, <1>3, <1>4, SuggestionSettles

LEMMA SuggestionAdopted == ASSUME SuggestionParts, NEW c, SG!Adopted(c) PROVE SuggestionParts'
<1> DEFINE u == SG!Settled(c)
           forms == {f \in ui.forms : ~(c.mounted /\ f.row = c.row)}
           v == SG!Closed(u, c)
<1>1. ui' = SG!Refetches(v, c) /\ srv' = srv
  BY DEF SG!Adopted, SG!Sets
<1>2. /\ Fields(v, PageFields) /\ v.applied = ui.applied /\ v.page = ui.page
      /\ v.filter = ui.filter /\ v.cache = ui.cache /\ v.fetches = ui.fetches
      /\ v.forms = forms /\ v.creates = ui.creates \ {c}
  <2>1. /\ Fields(u, PageFields) /\ u.applied = ui.applied /\ u.page = ui.page
        /\ u.filter = ui.filter /\ u.cache = ui.cache /\ u.fetches = ui.fetches
        /\ u.forms = ui.forms /\ u.creates = ui.creates \ {c}
    BY SettledKeeps
  <2> HIDE DEF u
  <2>2. v = [u EXCEPT !.forms = forms]
    BY <2>1 DEF SG!Closed
  <2>3. QED
    BY <2>1, <2>2 DEF Fields, PageFields
<1> HIDE DEF v, u
<1>3. CASE ui.applied = None
  <2>1. ui' = v
    BY <1>1, <1>2, <1>3, SuggestionNone DEF SG!Refetches
  <2>2. SuggestionShape' /\ AnswersTheirKey' /\ FormsAreOfRows'
    BY <1>1, <1>2, <2>1 DEF SuggestionParts, SuggestionShape, AnswersTheirKey, FormsAreOfRows
  <2>3. MadeAreTold'
    BY <1>1, <1>2, <1>3, <2>1 DEF SuggestionParts, MadeAreTold, WillTell
  <2>4. QED
    BY <2>2, <2>3 DEF SuggestionParts
<1>4. CASE ui.applied # None
  <2> DEFINE key == The(ui.applied)
             fresh == [key |-> key, by |-> key, read |-> None]
  <2>1. ui' = SG!Fetches(v)
    BY <1>1, <1>2, <1>4, SuggestionNone DEF SG!Refetches
  <2>2. /\ Fields(ui', PageFields) /\ ui'.applied = ui.applied
        /\ ui'.filter = ui.filter /\ ui'.cache = ui.cache /\ ui'.forms = forms
        /\ ui'.creates = ui.creates \ {c}
        /\ ui'.fetches = {f \in ui.fetches : f.key # key} \union {fresh}
    BY <1>2, <1>4, <2>1, FetchesKeeps
  <2>3. Fields(fresh, {"key", "by", "read"}) /\ fresh.key = key /\ fresh.by = key /\ fresh.read = None
    BY DEF Fields
  <2>4. key.limit \in Nat
    BY <1>4 DEF SuggestionParts, SuggestionShape, Applicable
  <2> HIDE DEF fresh
  <2>5. SuggestionShape'
    BY <1>1, <2>2, <2>3 DEF SuggestionParts, SuggestionShape
  <2>6. AnswersTheirKey' /\ FormsAreOfRows'
    BY <2>2, <2>3, <2>4 DEF SuggestionParts, AnswersTheirKey, FormsAreOfRows
  <2>7. fresh \in ui'.fetches /\ \A f \in ui'.fetches : f.key = key => f = fresh
    BY <2>2
  <2>8. \A steps : WillTell(ui', steps)
    BY <2>2, <2>3, <2>7 DEF WillTell
  <2>9. MadeAreTold'
    BY <1>1, <2>8 DEF SuggestionParts, MadeAreTold
  <2>10. QED
    BY <2>5, <2>6, <2>9 DEF SuggestionParts
<1>5. QED
  BY <1>3, <1>4

LEMMA SuggestionElsewhere == ASSUME SuggestionParts, NEW p, SG!OtherTab(p) PROVE SuggestionParts'
<1>1. ui' = ui /\ Fields(srv, {"adopted", "mine", "others"})
  BY DEF SG!OtherTab, SG!Serves, SuggestionParts, SuggestionShape
<1>2. /\ Fields(srv', {"adopted", "mine", "others"}) /\ srv'.mine = srv.mine \ {p.steps}
      /\ srv.adopted \ {p.steps} \subseteq srv'.adopted
  BY <1>1 DEF SG!OtherTab, SG!Serves, Fields
<1>3. SuggestionShape' /\ AnswersTheirKey' /\ FormsAreOfRows'
  BY <1>1, <1>2 DEF SuggestionParts, SuggestionShape, AnswersTheirKey, FormsAreOfRows
<1>4. MadeAreTold'
  BY <1>1, <1>2 DEF SuggestionParts, MadeAreTold
<1>5. QED
  BY <1>3, <1>4 DEF SuggestionParts

LEMMA SuggestionStep == ASSUME SuggestionParts, SG!On, SG!Next PROVE SuggestionParts'
<1>1. ASSUME NEW p \in SG!Rows,
             SG!Reject(p) \/ SG!StartAdopt(p) \/ SG!EditName(p) \/ SG!CancelAdopt(p) \/ SG!ConfirmAdopt(p)
      PROVE  SuggestionParts'
  BY <1>1, SuggestionRejects, SuggestionEdits, SuggestionConfirms
<1>2. ASSUME NEW f \in SG!Reading, SG!FetchRead(f) \/ SG!FetchAnswered(f) PROVE SuggestionParts'
  <2>1. f \in ui.fetches
    BY DEF SG!Reading
  <2>2. QED
    BY <1>2, <2>1, SuggestionReads, SuggestionAnswered
<1>3. ASSUME NEW c \in SG!Adopting, SG!Adopt(c) \/ SG!Adopted(c) \/ SG!Refused(c) \/ SG!Fails(c)
      PROVE  SuggestionParts'
  <2>1. c \in ui.creates
    BY DEF SG!Adopting
  <2>2. QED
    BY <1>3, <2>1, SuggestionAdopts, SuggestionAdopted, SuggestionRefused, SuggestionFails
<1>4. ASSUME NEW p \in SG!Rows, NEW cell \in OkiCells, SG!ToggleConfirmed(p, cell) PROVE SuggestionParts'
  BY <1>4, SuggestionEdits
<1>5. \A target : target \in {SG!None} \union {SG!Some(p.target) : p \in Proposals} =>
        target \in {None} \union {Some(p.target) : p \in Proposals}
  BY SuggestionNone
<1>6. QED
  BY <1>1, <1>2, <1>3, <1>4, <1>5, SuggestionFilters, SuggestionRuns, SuggestionMore,
     SuggestionElsewhere DEF SG!Next

LEMMA SuggestionInit == SG!Init => SuggestionParts
<1> SUFFICES ASSUME SG!Init PROVE SuggestionParts
  OBVIOUS
<1>1. /\ Fields(ui, PageFields) /\ ui.applied = None /\ ui.cache = {} /\ ui.fetches = {}
      /\ ui.forms = {} /\ ui.creates = {}
      /\ Fields(ui.filter, FilterFields) /\ ui.filter.limit = First
  BY SuggestionNone DEF SG!Init, Fields, PageFields, FilterFields
<1>2. srv.mine = {} /\ Fields(srv, {"adopted", "mine", "others"})
  BY DEF SG!Init, Fields
<1>3. Applicable(ui.filter)
  BY <1>1, SuggestionsAssumption DEF Applicable
<1>4. QED
  BY <1>1, <1>2, <1>3 DEF SuggestionParts, SuggestionShape, AnswersTheirKey, FormsAreOfRows, MadeAreTold

LEMMA SuggestionInductive == SuggestionInv /\ [NextLists]_vars => SuggestionInv'
<1> SUFFICES ASSUME SuggestionInv, [NextLists]_vars PROVE SuggestionInv'
  OBVIOUS
<1>1. CASE ui.page = "suggestions" /\ SG!Next
  BY <1>1, SuggestionStep DEF SuggestionInv, SG!On
<1>2. CASE ui.page # "suggestions" /\ ui'.page = ui.page
  BY <1>2 DEF SuggestionInv
<1>3. CASE UNCHANGED vars
  BY <1>3 DEF SuggestionInv, SuggestionParts, SuggestionShape, AnswersTheirKey, FormsAreOfRows,
     MadeAreTold, vars
<1>4. QED
  BY <1>1, <1>2, <1>3 DEF NextLists, Stays

LEMMA ShownIsFirst == ASSUME SuggestionInv PROVE SG!AdoptionIsFaithful
<1> USE DEF SuggestionInv, SG!On
<1>1. SG!AdoptsWhatWasOpened
  BY DEF SG!AdoptsWhatWasOpened, SuggestionParts, FormsAreOfRows
<1>2. ASSUME SG!On, ui.applied # None
      PROVE  /\ FirstOf(The(ui.applied), SG!Items(ui))
             /\ SG!Items(ui) # {} => \E e \in ui.cache :
                  e.key = The(ui.applied) /\ SG!Data(ui) = e.data /\ SG!Items(ui) = e.data.items
  <2>1. SG!Cached(ui) = {e \in ui.cache : e.key = The(ui.applied)}
    BY <1>2, SuggestionNone DEF SG!Cached, SG!QueryKey
  <2>2. CASE SG!Cached(ui) = {}
    <3>1. SG!Items(ui) = {}
      BY <2>2 DEF SG!Items
    <3>2. The(ui.applied).limit \in Nat
      BY <1>2 DEF SuggestionParts, SuggestionShape, Applicable
    <3>3. QED
      BY <3>1, <3>2, NoneIsFirst
  <2>3. CASE SG!Cached(ui) # {}
    <3>1. PICK e \in SG!Cached(ui) : SG!Data(ui) = e.data
      BY <2>3 DEF SG!Data
    <3>2. SG!Items(ui) = e.data.items
      BY <2>3, <3>1 DEF SG!Items
    <3>3. QED
      BY <1>2, <2>1, <3>1, <3>2 DEF SuggestionParts, AnswersTheirKey
  <2>4. QED
    BY <2>2, <2>3
<1>3. SG!ShownAsAsked
  BY <1>2, SameCount, SuggestionNone DEF SG!ShownAsAsked, FirstOf
<1>4. SG!AdoptedIsShown
  <2> SUFFICES ASSUME SG!On, ui.fetches = {}, ui.creates = {}, NEW p \in SG!Visible(ui),
                      p.steps \in srv.mine
               PROVE  p.steps \in SG!Data(ui).adopted
    BY DEF SG!AdoptedIsShown, SG!Offered
  <2>1. p \in SG!Items(ui)
    BY DEF SG!Visible
  <2>2. ui.applied # None
    BY <2>1, SuggestionNone DEF SG!Items, SG!Cached
  <2>3. WillTell(ui, p.steps)
    BY DEF SuggestionParts, MadeAreTold
  <2>4. QED
    BY <1>2, <2>1, <2>2, <2>3 DEF WillTell, Tells
<1>5. QED
  BY <1>1, <1>3, <1>4 DEF SG!AdoptionIsFaithful

\* A proposal is shown as it was asked for, whichever answers come late; what is adopted is what its
\* form was opened for and had ticked; and once every answer is in, a setup made here is not
\* offered again (useSetplaySuggestions.ts, SetplaySuggestionSection.tsx).
THEOREM AdoptedAsOpened == SpecLists => []AdoptionIsFaithful
<1>1. InitLists => SuggestionInv
  BY SuggestionInit DEF InitLists, SuggestionInv, TR!On, PU!On, CL!On, IM!On
<1>2. SuggestionInv => AdoptionIsFaithful
  BY ShownIsFirst DEF AdoptionIsFaithful
<1>3. QED
  BY <1>1, <1>2, SuggestionInductive, PTL DEF SpecLists

-----------------------------------------------------------------------------
(* Bringing combos in.                                                     *)
LEMMA SameSize == ASSUME NEW S PROVE IM!Cardinality(S) = Cardinality(S)
BY DEF IM!Cardinality, Cardinality

LEMMA ImportNone == IM!None = None /\ (\A x : IM!The(x) = The(x) /\ IM!Some(x) = Some(x))
BY DEF IM!None, None, IM!The, The, IM!Some, Some

UpTo(S, i) == {j \in S : j <= i}

LEMMA UpToCounts ==
  ASSUME NEW S \in SUBSET Nat, IsFiniteSet(S)
  PROVE  [i \in S |-> Cardinality(UpTo(S, i))] \in Bijection(S, 1..Cardinality(S))
<1> DEFINE place == [i \in S |-> Cardinality(UpTo(S, i))]
           size  == Cardinality(S)
<1>1. size \in Nat /\ Cardinality(1..size) = size /\ IsFiniteSet(1..size)
  BY FS_CardinalityType, FS_Interval
<1>2. \A i \in S : IsFiniteSet(UpTo(S, i)) /\ Cardinality(UpTo(S, i)) \in 1..size
  <2> SUFFICES ASSUME NEW i \in S PROVE IsFiniteSet(UpTo(S, i)) /\ Cardinality(UpTo(S, i)) \in 1..size
    OBVIOUS
  <2>1. UpTo(S, i) \subseteq S /\ i \in UpTo(S, i)
    BY DEF UpTo
  <2>2. IsFiniteSet(UpTo(S, i)) /\ Cardinality(UpTo(S, i)) <= size
    BY <2>1, FS_Subset
  <2>3. Cardinality(UpTo(S, i)) \in Nat /\ Cardinality(UpTo(S, i)) # 0
    BY <2>1, <2>2, FS_CardinalityType, FS_EmptySet
  <2>4. QED
    BY <1>1, <2>2, <2>3
<1>3. ASSUME NEW i \in S, NEW j \in S, i < j PROVE place[i] # place[j]
  <2>1. UpTo(S, i) \subseteq UpTo(S, j) /\ j \in UpTo(S, j) /\ j \notin UpTo(S, i)
    <3>1. i \in Nat /\ j \in Nat /\ \A k \in S : k \in Nat
      OBVIOUS
    <3>2. \A k \in S : (k <= i => k <= j) /\ j <= j /\ ~(j <= i)
      BY <1>3, <3>1
    <3>3. QED
      BY <3>2 DEF UpTo
  <2>2. Cardinality(UpTo(S, i)) # Cardinality(UpTo(S, j))
    <3>1. UpTo(S, i) \in SUBSET UpTo(S, j) /\ UpTo(S, i) # UpTo(S, j) /\ IsFiniteSet(UpTo(S, j))
      BY <1>2, <2>1
    <3>2. QED
      BY <3>1, FS_Subset
  <2>3. QED
    BY <2>2
<1>4. \A i, j \in S : place[i] = place[j] => i = j
  <2> HIDE DEF place
  <2>1. \A i, j \in S : i = j \/ i < j \/ j < i
    OBVIOUS
  <2>2. QED
    BY <1>3, <2>1
<1>5. place \in Injection(S, 1..size)
  <2>1. place \in [S -> 1..size]
    BY <1>2
  <2> HIDE DEF place
  <2>2. QED
    BY <2>1, <1>4 DEF Injection, IsInjective
<1>6. place \in Surjection(S, 1..size)
  BY <1>1, <1>5, FS_Injection
<1>7. QED
  BY <1>5, <1>6 DEF Bijection

\* What is put in order is all there, and nothing else is.
LEMMA InOrderHolds ==
  ASSUME NEW S \in SUBSET Nat, IsFiniteSet(S)
  PROVE  /\ Cardinality(S) \in Nat
         /\ IM!InOrder(S) \in [1..Cardinality(S) -> S]
         /\ \A i \in S : \E n \in 1..Cardinality(S) : IM!InOrder(S)[n] = i
<1> DEFINE place == [i \in S |-> Cardinality(UpTo(S, i))]
           size  == Cardinality(S)
<1>1. place \in Bijection(S, 1..size)
  BY UpToCounts
<1>2. (\A n \in 1..size : \E i \in S : place[i] = n) /\ (\A i, j \in S : place[i] = place[j] => i = j)
      /\ \A i \in S : place[i] \in 1..size
  <2> HIDE DEF place
  <2> QED
    BY <1>1 DEF Bijection, Injection, Surjection, IsInjective
<1>3. \A i \in S : IM!Cardinality({j \in S : j <= i}) = place[i]
  BY SameSize DEF UpTo
<1>4. \A n \in 1..size : IM!InOrder(S)[n] = CHOOSE i \in S : IM!Cardinality({j \in S : j <= i}) = n
  BY SameSize DEF IM!InOrder
<1>5. \A n \in 1..size : IM!InOrder(S)[n] \in S /\ place[IM!InOrder(S)[n]] = n
  <2> HIDE DEF place
  <2> SUFFICES ASSUME NEW n \in 1..size PROVE IM!InOrder(S)[n] \in S /\ place[IM!InOrder(S)[n]] = n
    OBVIOUS
  <2>1. \E i \in S : IM!Cardinality({j \in S : j <= i}) = n
    BY <1>2, <1>3
  <2>2. /\ IM!InOrder(S)[n] \in S
        /\ IM!Cardinality({j \in S : j <= IM!InOrder(S)[n]}) = n
    BY <1>4, <2>1
  <2>3. QED
    BY <1>3, <2>2
<1>6. \A i \in S : IM!InOrder(S)[place[i]] = i
  <2> HIDE DEF place
  <2> QED
    BY <1>2, <1>5
<1>7. QED
  <2> HIDE DEF place
  <2> QED
    BY <1>2, <1>5, <1>6, FS_CardinalityType, SameSize DEF IM!InOrder

LEMMA OneMore ==
  ASSUME NEW x, NEW n \in Nat, NEW e, e = [m \in 1..n |-> e[m]]
  PROVE  Len(<<x>> \o e) = n + 1
<1> DEFINE S == {x} \union {e[m] : m \in 1..n}
<1>1. e \in Seq(S) /\ Len(e) = n
  <2>1. e \in [1..n -> S]
    OBVIOUS
  <2>2. e \in Seq(S)
    BY <2>1, SeqDef
  <2>3. QED
    BY <2>2, LenProperties
<1>2. <<x>> \in Seq(S) /\ Len(<<x>>) = 1
  OBVIOUS
<1>3. QED
  BY <1>1, <1>2, ConcatProperties

IsList(l) == Len(l) \in Nat /\ DOMAIN l = 1..Len(l)

\* A table is a list of lists.
Table(table) == IsList(table.combos) /\ \A i \in DOMAIN table.combos : IsList(table.combos[i])

LEMMA Tabulates ==
  ASSUME NEW q, q.text \in DOMAIN Texts, NEW number PROVE Table(IM!Resolved(q, number))
<1> DEFINE text  == Texts[q.text]
           line(i) == [j \in DOMAIN text[i] |-> CodeOf[<<q.character, text[i][j]>>]]
           lines == [i \in DOMAIN text |-> line(i)]
<1>1. text \in Seq(Seq(STRING))
  BY ImportAssumption
<1>2. ASSUME NEW n \in Nat, NEW l, l = [m \in 1..n |-> l[m]] PROVE IsList(l)
  <2>1. l \in [1..n -> {l[m] : m \in 1..n}]
    BY <1>2
  <2>2. l \in Seq({l[m] : m \in 1..n})
    BY <2>1, SeqDef
  <2>3. QED
    BY <2>2, LenProperties DEF IsList
<1>3. DOMAIN text = 1..Len(text) /\ Len(text) \in Nat /\ \A i \in DOMAIN text : text[i] \in Seq(STRING)
  <2> HIDE DEF text
  <2>1. QED
    BY <1>1, LenProperties, ElementOfSeq
<1>4. \A i \in DOMAIN text : IsList(line(i))
  <2> SUFFICES ASSUME NEW i \in DOMAIN text PROVE IsList(line(i))
    OBVIOUS
  <2>1. DOMAIN text[i] = 1..Len(text[i]) /\ Len(text[i]) \in Nat
    BY <1>3, LenProperties
  <2>2. line(i) = [m \in 1..Len(text[i]) |-> line(i)[m]]
    BY <2>1
  <2>3. QED
    BY <2>1, <2>2, <1>2
<1>5. IsList(lines) /\ DOMAIN lines = DOMAIN text
  <2>1. lines = [m \in 1..Len(text) |-> lines[m]]
    BY <1>3
  <2>2. QED
    BY <2>1, <1>2, <1>3
<1>6. IM!Resolved(q, number).combos = lines
  BY DEF IM!Resolved
<1>7. \A i \in DOMAIN lines : lines[i] = line(i)
  OBVIOUS
<1>8. QED
  <2> HIDE DEF line, lines
  <2>1. QED
    BY <1>4, <1>5, <1>6, <1>7 DEF Table

-----------------------------------------------------------------------------
ImportFields == {"page", "screen", "loaded", "commits", "tables", "copied", "acts", "character", "text",
                 "resolving", "building", "resolveResult", "overrides", "excluded", "comboFile",
                 "setupFile", "preview", "checked", "previewing", "dupAction", "confirm", "report"}
CommitFields == {"asked", "at", "mounted", "left", "passed", "parents", "setups"}

ImportShape ==
  /\ Fields(ui, ImportFields) /\ Fields(srv, {"combos", "setups", "handed", "others"})
  /\ \A c \in ui.commits : Fields(c, CommitFields)

\* What is left out was left out of the table that is shown.
TextPart ==
  /\ ui.text \in DOMAIN Texts \union {""}
  /\ ui.resolving # None => The(ui.resolving).text \in DOMAIN Texts
  /\ ui.resolveResult # None => Table(The(ui.resolveResult))
  /\ \A e \in ui.excluded :
       ui.resolveResult # None /\ e = [step |-> e.step, table |-> The(ui.resolveResult).number]

LeftOut(csv, i) ==
  {j \in DOMAIN csv.table.combos[i] : [step |-> <<i, j>>, table |-> csv.table.number] \in csv.excluded}
RowsOf(csv, i) == {n \in DOMAIN csv.rows : csv.rows[n].memo = i}

HoldsItsTable(csv) ==
  \A i \in DOMAIN csv.table.combos :
    Len(csv.table.combos[i]) - Cardinality(LeftOut(csv, i)) =
      IF RowsOf(csv, i) = {} THEN 0 ELSE Len(csv.rows[CHOOSE n \in RowsOf(csv, i) : TRUE].recipe) - 1

Named(rows) == \A n \in DOMAIN rows : rows[n].local # 0 /\ rows[n].draft \in BOOLEAN

FilePart ==
  /\ ui.comboFile # None => Named(The(ui.comboFile))
  /\ ui.building # None => Named(The(ui.building).rows) /\ HoldsItsTable(The(ui.building))
  /\ srv.handed # None => Named(The(srv.handed).rows) /\ HoldsItsTable(The(srv.handed))

-----------------------------------------------------------------------------
LEMMA StepsAreKept ==
  ASSUME TextPart, ui.resolveResult # None, IM!Unresolved(ui) = {},
         NEW i \in DOMAIN The(ui.resolveResult).combos
  PROVE  LET table   == The(ui.resolveResult)
             leftOut == {j \in DOMAIN table.combos[i] : [step |-> <<i, j>>, table |-> table.number] \in ui.excluded}
         IN  /\ IM!KeptSteps(ui, i) \in SUBSET Nat /\ IsFiniteSet(IM!KeptSteps(ui, i))
             /\ Cardinality(IM!KeptSteps(ui, i)) = Len(table.combos[i]) - Cardinality(leftOut)
<1> DEFINE table   == The(ui.resolveResult)
           steps   == DOMAIN table.combos[i]
           leftOut == {j \in steps : [step |-> <<i, j>>, table |-> table.number] \in ui.excluded}
<1>1. Len(table.combos[i]) \in Nat /\ steps = 1..Len(table.combos[i])
  BY DEF TextPart, Table, IsList
<1>2. \A j \in steps : IM!IsStepExcluded(ui, <<i, j>>) <=> j \in leftOut
  BY DEF TextPart, IM!IsStepExcluded
<1>3. \A j \in steps : IM!IsStepExcluded(ui, <<i, j>>) \/ IM!IsStepResolved(ui, <<i, j>>)
  <2>1. \A j \in steps : <<i, j>> \in IM!Keys(table)
    BY DEF IM!Keys
  <2>2. QED
    BY <2>1, ImportNone DEF IM!Unresolved
<1>4. IM!KeptSteps(ui, i) = steps \ leftOut
  BY <1>2, <1>3, ImportNone DEF IM!KeptSteps
<1>5. IsFiniteSet(steps) /\ Cardinality(steps) = Len(table.combos[i])
  BY <1>1, FS_Interval
<1>6. IsFiniteSet(steps \ leftOut) /\ Cardinality(steps \ leftOut) = Cardinality(steps) - Cardinality(leftOut)
  <2>1. steps \cap leftOut = leftOut
    OBVIOUS
  <2> HIDE DEF steps, leftOut
  <2>2. /\ IsFiniteSet(steps \ leftOut)
        /\ Cardinality(steps \ leftOut) = Cardinality(steps) - Cardinality(steps \cap leftOut)
    BY <1>5, FS_Difference
  <2>3. QED
    BY <2>1, <2>2
<1>7. steps \ leftOut \in SUBSET Nat
  BY <1>1
<1>8. QED
  BY <1>4, <1>5, <1>6, <1>7

LEMMA CsvHolds ==
  ASSUME TextPart, ui.resolveResult # None, IM!Unresolved(ui) = {}
  PROVE  LET csv == [rows |-> IM!BuildCsvPayload(ui), table |-> The(ui.resolveResult), excluded |-> ui.excluded]
         IN  Named(csv.rows) /\ HoldsItsTable(csv)
<1> DEFINE table == The(ui.resolveResult)
           rows  == IM!BuildCsvPayload(ui)
           kept  == IM!KeptCombos(ui)
           order == IM!InOrder(kept)
           csv   == [rows |-> rows, table |-> table, excluded |-> ui.excluded]
           leftOut(i) == {j \in DOMAIN table.combos[i] : [step |-> <<i, j>>, table |-> table.number] \in ui.excluded}
           steps(i) == IM!KeptSteps(ui, i)
           held(i) == {n \in DOMAIN rows : rows[n].memo = i}
<1>1. kept = {i \in DOMAIN table.combos : steps(i) # {}}
  BY ImportNone DEF IM!KeptCombos
<1>2. kept \in SUBSET Nat /\ IsFiniteSet(kept)
  <2>1. Len(table.combos) \in Nat /\ DOMAIN table.combos = 1..Len(table.combos)
    BY DEF TextPart, Table, IsList
  <2>2. kept \in SUBSET (1..Len(table.combos)) /\ kept \in SUBSET Nat
    BY <1>1, <2>1
  <2>3. QED
    <3>1. IsFiniteSet(1..Len(table.combos))
      BY <2>1, FS_Interval
    <3> HIDE DEF kept, table
    <3>2. QED
      BY <3>1, <2>2, FS_Subset
<1>3. /\ order \in [1..Cardinality(kept) -> kept] /\ Cardinality(kept) \in Nat
      /\ \A i \in kept : \E n \in 1..Cardinality(kept) : order[n] = i
  BY <1>2, InOrderHolds
<1>4. /\ DOMAIN rows = DOMAIN order
      /\ \A n \in DOMAIN order :
           rows[n] = [local |-> n, recipe |-> <<ui.character>> \o IM!StepsOf(ui, order[n]), memo |-> order[n],
                      draft |-> FALSE, valid |-> TRUE]
  BY DEF IM!BuildCsvPayload
<1>5. Named(rows)
  <2>1. \A n \in DOMAIN order : n # 0
    BY <1>3
  <2> HIDE DEF rows, order
  <2>2. \A n \in DOMAIN rows : rows[n].local = n /\ rows[n].draft = FALSE
    BY <1>4
  <2>3. QED
    BY <2>1, <2>2, <1>4 DEF Named
<1>6. ASSUME NEW i \in kept PROVE Len(<<ui.character>> \o IM!StepsOf(ui, i)) = Cardinality(steps(i)) + 1
  <2>1. steps(i) \in SUBSET Nat /\ IsFiniteSet(steps(i))
    BY <1>1, StepsAreKept
  <2>2. DOMAIN IM!InOrder(steps(i)) = 1..Cardinality(steps(i)) /\ Cardinality(steps(i)) \in Nat
    BY <2>1, InOrderHolds
  <2>3. IM!StepsOf(ui, i) = [n \in 1..Cardinality(steps(i)) |-> IM!StepsOf(ui, i)[n]]
    BY <2>2 DEF IM!StepsOf
  <2>4. QED
    BY <2>2, <2>3, OneMore
<1>7. ASSUME NEW i \in DOMAIN table.combos
      PROVE  Len(table.combos[i]) - Cardinality(leftOut(i)) =
               IF held(i) = {} THEN 0 ELSE Len(rows[CHOOSE n \in held(i) : TRUE].recipe) - 1
  <2>1. Cardinality(steps(i)) = Len(table.combos[i]) - Cardinality(leftOut(i)) /\ IsFiniteSet(steps(i))
    BY StepsAreKept
  <2>2. held(i) = {n \in DOMAIN order : order[n] = i}
    <3> HIDE DEF rows, order
    <3>1. QED
      BY <1>4
  <2>3. CASE i \notin kept
    <3>1. held(i) = {}
      <4> HIDE DEF order, kept, rows
      <4>1. QED
        BY <2>2, <2>3, <1>3
    <3>2. steps(i) = {}
      BY <2>3, <1>1
    <3>3. QED
      BY <2>1, <3>1, <3>2, FS_EmptySet
  <2>4. CASE i \in kept
    <3>1. held(i) # {}
      <4> HIDE DEF order, kept, rows
      <4>1. QED
        BY <2>2, <2>4, <1>3
    <3>2. PICK n \in held(i) : n = CHOOSE m \in held(i) : TRUE
      BY <3>1
    <3>3. n \in DOMAIN order /\ order[n] = i
      BY <2>2
    <3>4. rows[n].recipe = <<ui.character>> \o IM!StepsOf(ui, i)
      <4> HIDE DEF rows, order
      <4>1. QED
        BY <3>3, <1>4
    <3>5. Len(rows[n].recipe) = Cardinality(steps(i)) + 1
      BY <3>4, <2>4, <1>6
    <3>6. Cardinality(steps(i)) \in Nat
      BY <2>1, FS_CardinalityType
    <3>7. Len(rows[n].recipe) - 1 = Cardinality(steps(i))
      BY <3>5, <3>6
    <3> HIDE DEF rows, held, steps, leftOut, table
    <3>8. QED
      BY <2>1, <3>1, <3>2, <3>7
  <2>5. QED
    BY <2>3, <2>4
<1>8. HoldsItsTable(csv)
  <2>1. csv.rows = rows /\ csv.table = table /\ csv.excluded = ui.excluded
    OBVIOUS
  <2> HIDE DEF csv, rows, table
  <2>2. \A i : LeftOut(csv, i) = leftOut(i) /\ RowsOf(csv, i) = held(i)
    BY <2>1 DEF LeftOut, RowsOf
  <2> HIDE DEF leftOut, held
  <2>3. QED
    BY <2>1, <2>2, <1>7 DEF HoldsItsTable
<1>9. QED
  BY <1>5, <1>8

-----------------------------------------------------------------------------
\* The combos of the database: a recipe is registered once.
Once(combos) ==
  /\ IsFiniteSet(combos)
  /\ \A x \in combos : /\ x = [id |-> x.id, recipe |-> x.recipe, draft |-> x.draft]
                       /\ x.id \in Nat /\ x.id # 0 /\ x.draft \in BOOLEAN
  /\ \A x, y \in combos : x.recipe = y.recipe /\ ~x.draft /\ ~y.draft => x = y

\* The combo is that of a row that the import was to bring in, and a new one unless it may be another.
RowMade(combos, by, local, id) ==
  /\ \E n \in DOMAIN by.rows :
       /\ by.rows[n].local = local /\ local \in by.selected
       /\ [id |-> id, recipe |-> by.rows[n].recipe, draft |-> by.rows[n].draft] \in combos
  /\ by.dup = "skip" => id > by.before

Faithful(combos, c) ==
  /\ Named(c.asked.rows)
  /\ c.asked.before \in Nat /\ c.asked.before <= Cardinality(combos)
  /\ c.left \subseteq {n \in DOMAIN c.asked.rows : c.asked.rows[n].local \in c.asked.selected}
  /\ \A local \in DOMAIN c.parents : RowMade(combos, c.asked, local, c.parents[local])

Follows(combos, s) ==
  (s.row.number # 0 /\ s.combo = s.row.number) \/ RowMade(combos, s.by, s.row.parent, s.combo)

RowPart ==
  /\ Once(srv.combos)
  /\ \A c \in ui.commits : Faithful(srv.combos, c)
  /\ \A s \in srv.setups : Follows(srv.combos, s)

LEMMA RowStays ==
  ASSUME NEW S, NEW T, S \subseteq T, NEW by, NEW local, NEW id, RowMade(S, by, local, id)
  PROVE  RowMade(T, by, local, id)
BY DEF RowMade

LEMMA FaithfulStays ==
  ASSUME NEW S, NEW T, Once(T), S \subseteq T, NEW c, Faithful(S, c) PROVE Faithful(T, c)
<1>1. Cardinality(S) <= Cardinality(T) /\ Cardinality(S) \in Nat /\ Cardinality(T) \in Nat
  BY FS_Subset, FS_CardinalityType DEF Once
<1>2. c.asked.before \in Nat /\ c.asked.before <= Cardinality(T)
  BY <1>1 DEF Faithful
<1>3. QED
  BY <1>2, RowStays DEF Faithful

LEMMA FollowsStays == ASSUME NEW S, NEW T, S \subseteq T, NEW s, Follows(S, s) PROVE Follows(T, s)
BY RowStays DEF Follows

LEMMA AddedOnce ==
  ASSUME NEW S, Once(S), NEW recipe, NEW draft \in BOOLEAN,
         draft \/ \A x \in S : x.recipe = recipe => x.draft
  PROVE  Once(S \union {[id |-> Cardinality(S) + 1, recipe |-> recipe, draft |-> draft]})
<1> DEFINE x == [id |-> Cardinality(S) + 1, recipe |-> recipe, draft |-> draft]
<1>1. IsFiniteSet(S \union {x}) /\ Cardinality(S) \in Nat
  <2>1. IsFiniteSet(S)
    BY DEF Once
  <2> HIDE DEF x
  <2>2. QED
    BY <2>1, FS_AddElement, FS_CardinalityType
<1>2. /\ x = [id |-> x.id, recipe |-> x.recipe, draft |-> x.draft]
      /\ x.id \in Nat /\ x.id # 0 /\ x.draft \in BOOLEAN
  BY <1>1
<1>3. x.draft \/ \A y \in S : y.recipe = x.recipe => y.draft
  OBVIOUS
<1>4. QED
  <2> DEFINE T == S \union {x}
  <2> HIDE DEF x
  <2>1. \A y \in T : /\ y = [id |-> y.id, recipe |-> y.recipe, draft |-> y.draft]
                     /\ y.id \in Nat /\ y.id # 0 /\ y.draft \in BOOLEAN
    BY <1>2 DEF Once
  <2>2. \A y, z \in T : y.recipe = z.recipe /\ ~y.draft /\ ~z.draft => y = z
    BY <1>3 DEF Once
  <2>3. Once(T)
    BY <1>1, <2>1, <2>2 DEF Once
  <2>4. QED
    BY <2>3 DEF x

LEMMA CommitGoesOn ==
  ASSUME NEW S, NEW c, NEW d, Faithful(S, c),
         d.asked = c.asked, d.left \subseteq c.left, d.setups \subseteq c.setups,
         \A local \in DOMAIN d.parents : RowMade(S, c.asked, local, d.parents[local])
  PROVE  Faithful(S, d)
BY DEF Faithful

\* What a commit may do to the rest: the combos grow, and one commit goes on.
LEMMA OneGoesOn ==
  ASSUME RowPart, Once(srv'.combos), srv.combos \subseteq srv'.combos, srv'.setups = srv.setups,
         NEW d, Faithful(srv'.combos, d), \A e \in ui'.commits : e \in ui.commits \/ e = d
  PROVE  RowPart'
<1>1. \A e \in ui'.commits : Faithful(srv'.combos, e)
  BY FaithfulStays DEF RowPart
<1>2. \A s \in srv'.setups : Follows(srv'.combos, s)
  BY FollowsStays DEF RowPart
<1>3. QED
  BY <1>1, <1>2 DEF RowPart

-----------------------------------------------------------------------------
PromptPart == ui.copied.moves \subseteq {ui.copied.of}

ImportParts == ImportShape /\ TextPart /\ FilePart /\ RowPart /\ PromptPart

TextsStay ==
  /\ ui'.text = ui.text /\ ui'.resolving = ui.resolving
  /\ ui'.resolveResult = ui.resolveResult /\ ui'.excluded = ui.excluded
FilesStay ==
  /\ ui'.comboFile = ui.comboFile /\ ui'.setupFile = ui.setupFile
  /\ ui'.building = ui.building /\ srv'.handed = srv.handed
CommitsStay == ui'.commits = ui.commits /\ srv'.combos = srv.combos /\ srv'.setups = srv.setups

LEMMA TextsStayed == ASSUME TextPart, TextsStay PROVE TextPart'
BY DEF TextPart, TextsStay

LEMMA FilesStayed == ASSUME FilePart, FilesStay PROVE FilePart'
BY DEF FilePart, FilesStay

LEMMA CommitsStayed == ASSUME RowPart, CommitsStay PROVE RowPart'
BY DEF RowPart, CommitsStay

\* An action of the helper that leaves the files, the server and what was copied alone.
LEMMA HelperKeeps ==
  ASSUME ImportParts, Fields(ui', ImportFields), FilesStay, CommitsStay, srv' = srv, ui'.copied = ui.copied,
         TextPart'
  PROVE  ImportParts'
<1>1. ImportShape'
  BY DEF ImportParts, ImportShape, CommitsStay
<1>2. FilePart' /\ RowPart'
  BY FilesStayed, CommitsStayed DEF ImportParts
<1>3. QED
  BY <1>1, <1>2 DEF ImportParts, PromptPart

LEMMA ImportCharacter ==
  ASSUME ImportParts, NEW c, IM!ChooseCharacter(c) PROVE ImportParts'
<1>1. /\ Fields(ui', ImportFields) /\ FilesStay /\ CommitsStay /\ srv' = srv /\ ui'.copied = ui.copied
      /\ ui'.text = ui.text /\ ui'.resolving = ui.resolving /\ ui'.resolveResult = None /\ ui'.excluded = {}
  BY ImportNone DEF ImportParts, ImportShape, Fields, ImportFields, FilesStay, CommitsStay,
     IM!ChooseCharacter, IM!NoTable, IM!Does, IM!Sets
<1>2. TextPart'
  BY <1>1 DEF ImportParts, TextPart
<1>3. QED
  BY <1>1, <1>2, HelperKeeps

LEMMA ImportPrompt == ASSUME ImportParts, IM!MovesArrive \/ IM!CopyPrompt PROVE ImportParts'
<1>1. /\ Fields(ui', ImportFields) /\ FilesStay /\ CommitsStay /\ srv' = srv /\ TextsStay
      /\ ui'.copied = ui.copied \/ ui'.copied = [of |-> ui.character, moves |-> IM!Moves(ui)]
  BY DEF ImportParts, ImportShape, Fields, ImportFields, FilesStay, CommitsStay, TextsStay,
     IM!MovesArrive, IM!CopyPrompt, IM!BuildIntakePrompt, IM!Does, IM!Sets
<1>2. PromptPart'
  BY <1>1 DEF ImportParts, PromptPart, IM!Moves
<1>3. ImportShape'
  BY <1>1 DEF ImportParts, ImportShape, CommitsStay
<1>4. QED
  BY <1>1, <1>2, <1>3, TextsStayed, FilesStayed, CommitsStayed DEF ImportParts

LEMMA ImportPastes ==
  ASSUME ImportParts, NEW text \in DOMAIN Texts, IM!Paste(text) PROVE ImportParts'
<1>1. /\ Fields(ui', ImportFields) /\ FilesStay /\ CommitsStay /\ srv' = srv /\ ui'.copied = ui.copied
      /\ ui'.text = text /\ ui'.resolving = ui.resolving
      /\ ui'.resolveResult = ui.resolveResult /\ ui'.excluded = ui.excluded
  BY DEF ImportParts, ImportShape, Fields, ImportFields, FilesStay, CommitsStay, IM!Paste, IM!Does, IM!Sets
<1>2. TextPart'
  BY <1>1 DEF ImportParts, TextPart
<1>3. QED
  BY <1>1, <1>2, HelperKeeps

LEMMA ImportResolves ==
  ASSUME ImportParts, IM!Resolve \/ IM!ResolveFails PROVE ImportParts'
<1> DEFINE asked == [character |-> ui.character, text |-> ui.text]
           Rest  == /\ Fields(ui', ImportFields) /\ FilesStay /\ CommitsStay /\ srv' = srv /\ ui'.copied = ui.copied
                    /\ ui'.text = ui.text /\ ui'.resolveResult = ui.resolveResult /\ ui'.excluded = ui.excluded
<1> USE ImportNone DEF ImportShape, Fields, ImportFields, FilesStay, CommitsStay, IM!Does, IM!Sets
<1>1. CASE IM!Resolve
  <2>1. Rest /\ ui'.resolving = Some(asked) /\ ui.text # ""
    BY <1>1 DEF ImportParts, IM!Resolve
  <2>2. The(Some(asked)).text \in DOMAIN Texts
    <3>1. The(Some(asked)) = asked
      BY TheSome
    <3>2. asked.text = ui.text /\ ui.text \in DOMAIN Texts
      BY <2>1 DEF ImportParts, TextPart
    <3> HIDE DEF asked
    <3>3. QED
      BY <3>1, <3>2
  <2>3. TextPart'
    <3> HIDE DEF asked
    <3>1. QED
      BY <2>1, <2>2 DEF ImportParts, TextPart
  <2>4. QED
    BY <2>1, <2>3, HelperKeeps
<1>2. CASE IM!ResolveFails
  <2>1. Rest /\ ui'.resolving = None
    BY <1>2 DEF ImportParts, IM!ResolveFails
  <2>2. TextPart'
    BY <2>1 DEF ImportParts, TextPart
  <2>3. QED
    BY <2>1, <2>2, HelperKeeps
<1>3. QED
  BY <1>1, <1>2

LEMMA ImportResolved == ASSUME ImportParts, IM!ResolveAnswered PROVE ImportParts'
<1> DEFINE table == IM!Resolved(The(ui.resolving), ui.tables + 1)
<1>1. /\ Fields(ui', ImportFields) /\ FilesStay /\ CommitsStay /\ srv' = srv /\ ui'.copied = ui.copied
      /\ ui'.text = ui.text /\ ui'.resolving = None /\ ui'.resolveResult = Some(table) /\ ui'.excluded = {}
      /\ ui.resolving # None
  BY ImportNone DEF ImportParts, ImportShape, Fields, ImportFields, FilesStay, CommitsStay,
     IM!ResolveAnswered, IM!ShowsTable, IM!Sets
<1>2. Table(table)
  BY <1>1, Tabulates DEF ImportParts, TextPart
<1>3. TextPart'
  <2> HIDE DEF table
  <2>1. QED
    BY <1>1, <1>2, TheSome DEF ImportParts, TextPart
<1>4. QED
  BY <1>1, <1>3, HelperKeeps

LEMMA ImportDecides ==
  ASSUME ImportParts, NEW k, NEW code, IM!SetOverride(k, code) \/ IM!SetExcludeStep(k) PROVE ImportParts'
<1> DEFINE left == [step |-> k, table |-> The(ui.resolveResult).number]
<1>1. /\ Fields(ui', ImportFields) /\ FilesStay /\ CommitsStay /\ srv' = srv /\ ui'.copied = ui.copied
      /\ ui'.text = ui.text /\ ui'.resolving = ui.resolving /\ ui'.resolveResult = ui.resolveResult
      /\ ui.resolveResult # None /\ \A e \in ui'.excluded : e \in ui.excluded \/ e = left
  <2> USE ImportNone DEF ImportShape, Fields, ImportFields, FilesStay, CommitsStay, IM!Deciding, IM!Does, IM!Sets
  <2>1. CASE IM!SetOverride(k, code)
    BY <2>1 DEF ImportParts, IM!SetOverride
  <2>2. CASE IM!SetExcludeStep(k)
    <3>1. ui' = [[ui EXCEPT !.acts = ui'.acts] EXCEPT !.excluded = ui'.excluded]
      BY <2>2 DEF ImportParts, IM!SetExcludeStep
    <3>2. \A e \in ui'.excluded : e \in ui.excluded \/ e = left
      BY <2>2 DEF ImportParts, IM!SetExcludeStep
    <3>3. ui.resolveResult # None /\ srv' = srv
      BY <2>2 DEF IM!SetExcludeStep
    <3>4. QED
      BY <3>1, <3>2, <3>3 DEF ImportParts
  <2>3. QED
    BY <2>1, <2>2
<1>2. left = [step |-> left.step, table |-> The(ui.resolveResult).number]
  OBVIOUS
<1>3. TextPart'
  <2> HIDE DEF left
  <2>1. QED
    BY <1>1, <1>2 DEF ImportParts, TextPart
<1>4. QED
  BY <1>1, <1>3, HelperKeeps

-----------------------------------------------------------------------------
LEMMA ImportProceeds == ASSUME ImportParts, IM!HandleProceed PROVE ImportParts'
<1> DEFINE csv == [rows |-> IM!BuildCsvPayload(ui), table |-> The(ui.resolveResult), excluded |-> ui.excluded]
<1>1. /\ Fields(ui', ImportFields) /\ TextsStay /\ CommitsStay /\ srv' = srv /\ ui'.copied = ui.copied
      /\ ui'.comboFile = ui.comboFile /\ ui'.setupFile = ui.setupFile /\ ui'.building = Some(csv)
      /\ ui.resolveResult # None /\ IM!Unresolved(ui) = {}
  BY ImportNone DEF ImportParts, ImportShape, Fields, ImportFields, TextsStay, CommitsStay,
     IM!HandleProceed, IM!Does, IM!Sets
<1>2. Named(csv.rows) /\ HoldsItsTable(csv)
  BY <1>1, CsvHolds DEF ImportParts
<1>3. FilePart'
  <2> HIDE DEF csv
  <2>1. The(ui'.building) = csv
    BY <1>1, TheSome
  <2>2. QED
    BY <1>1, <1>2, <2>1 DEF ImportParts, FilePart
<1>4. ImportShape'
  BY <1>1 DEF ImportParts, ImportShape, CommitsStay
<1>5. QED
  BY <1>1, <1>3, <1>4, TextsStayed, CommitsStayed DEF ImportParts, PromptPart

\* What a page that is left holds of texts, files and commits.
HasLeft(u) ==
  /\ u.text = "" /\ u.resolving = None /\ u.resolveResult = None /\ u.excluded = {}
  /\ u.building = None /\ u.comboFile = None /\ u.setupFile = None /\ u.copied = ui.copied
  /\ u.commits = {[c EXCEPT !.mounted = FALSE] : c \in ui.commits}
  /\ Fields(u, ImportFields)

LEMMA LeftHolds == ASSUME ImportShape PROVE HasLeft(IM!Left(ui))
<1> DEFINE gone == {[c EXCEPT !.mounted = FALSE] : c \in ui.commits}
           u == [ui EXCEPT !.commits = gone]
           v == [u EXCEPT !.character = "", !.text = "", !.resolving = None, !.building = None]
           w == [v EXCEPT !.resolveResult = None, !.overrides = << >>, !.excluded = {}]
           x == [w EXCEPT !.comboFile = None, !.setupFile = None, !.preview = None, !.checked = {},
                          !.previewing = None, !.dupAction = "skip", !.confirm = FALSE, !.report = FALSE]
<1>1. IM!Left(ui) = x
  BY ImportNone DEF IM!Left, IM!NoFiles, IM!Blank, IM!NoTable
<1>2. Fields(u, ImportFields) /\ u.commits = gone /\ u.copied = ui.copied
  <2> HIDE DEF gone
  <2>1. QED
    BY DEF ImportShape, Fields, ImportFields
<1>3. /\ Fields(v, ImportFields) /\ v.commits = gone /\ v.copied = ui.copied
      /\ v.text = "" /\ v.resolving = None /\ v.building = None
  <2> HIDE DEF u, gone
  <2>1. QED
    BY <1>2 DEF Fields, ImportFields
<1>4. /\ Fields(w, ImportFields) /\ w.commits = gone /\ w.copied = ui.copied
      /\ w.text = "" /\ w.resolving = None /\ w.building = None /\ w.resolveResult = None /\ w.excluded = {}
  <2> HIDE DEF v, gone
  <2>1. QED
    BY <1>3 DEF Fields, ImportFields
<1>5. HasLeft(x)
  <2>1. gone = {[c EXCEPT !.mounted = FALSE] : c \in ui.commits}
    OBVIOUS
  <2> HIDE DEF w, gone
  <2>2. QED
    BY <1>4, <2>1 DEF HasLeft, Fields, ImportFields
<1>6. QED
  <2> HIDE DEF x
  <2>1. QED
    BY <1>1, <1>5

\* Going from one page to the other forgets what was there; a commit goes on without its page.
LEMMA ImportGoes ==
  ASSUME ImportParts, Fields(ui', ImportFields), Fields(srv', DOMAIN srv),
         ui'.text = "", ui'.resolving = None, ui'.resolveResult = None, ui'.excluded = {}, ui'.copied = ui.copied,
         ui'.commits = {[c EXCEPT !.mounted = FALSE] : c \in ui.commits},
         srv'.combos = srv.combos, srv'.setups = srv.setups, FilePart'
  PROVE  ImportParts'
<1>1. ASSUME NEW c \in ui.commits
      PROVE  LET d == [c EXCEPT !.mounted = FALSE] IN Fields(d, CommitFields) /\ Faithful(srv.combos, d)
  <2> DEFINE d == [c EXCEPT !.mounted = FALSE]
  <2>1. Fields(c, CommitFields) /\ Faithful(srv.combos, c)
    BY DEF ImportParts, ImportShape, RowPart
  <2>2. /\ Fields(d, CommitFields) /\ d.asked = c.asked /\ d.left = c.left /\ d.parents = c.parents
        /\ d.setups = c.setups
    BY <2>1 DEF Fields, CommitFields
  <2>3. Fields(d, CommitFields) /\ Faithful(srv.combos, d)
    <3> HIDE DEF d
    <3>1. QED
      BY <2>1, <2>2, CommitGoesOn DEF Faithful
  <2>4. QED
    BY <2>3
<1>2. \A d \in ui'.commits : Fields(d, CommitFields) /\ Faithful(srv.combos, d)
  BY <1>1
<1>3. ImportShape' /\ RowPart'
  BY <1>2 DEF ImportParts, ImportShape, RowPart, Fields
<1>4. TextPart'
  BY DEF TextPart
<1>5. QED
  BY <1>3, <1>4 DEF ImportParts, PromptPart

LEMMA ImportHandsOver == ASSUME ImportParts, IM!BuildAnswered PROVE ImportParts'
<1> DEFINE left == IM!Left(ui)
           rows == The(ui.building).rows
<1>1. HasLeft(left)
  BY LeftHolds DEF ImportParts
<1>2. /\ srv' = [srv EXCEPT !.handed = ui.building] /\ ui.building # None
      /\ ui' = [[left EXCEPT !.screen = "import", !.comboFile = Some(rows)] EXCEPT !.previewing = Some(rows)]
  <2>1. [left EXCEPT !.screen = "import", !.comboFile = Some(rows)].comboFile = Some(rows)
    <3> HIDE DEF left, rows
    <3>1. QED
      BY <1>1 DEF HasLeft, Fields, ImportFields
  <2>2. QED
    BY <2>1, ImportNone DEF IM!BuildAnswered, IM!AsksPreview
<1>3. /\ Fields(ui', ImportFields) /\ Fields(srv', DOMAIN srv)
      /\ ui'.text = "" /\ ui'.resolving = None /\ ui'.resolveResult = None /\ ui'.excluded = {}
      /\ ui'.copied = ui.copied /\ ui'.commits = {[c EXCEPT !.mounted = FALSE] : c \in ui.commits}
      /\ ui'.building = None /\ ui'.setupFile = None /\ ui'.comboFile = Some(rows)
      /\ srv'.combos = srv.combos /\ srv'.setups = srv.setups /\ srv'.handed = ui.building
  <2> HIDE DEF left, rows
  <2>1. QED
    BY <1>1, <1>2 DEF HasLeft, ImportParts, ImportShape, Fields, ImportFields
<1>4. FilePart'
  <2>1. Named(rows) /\ HoldsItsTable(The(ui.building))
    BY <1>2 DEF ImportParts, FilePart
  <2>2. The(ui'.comboFile) = rows
    BY <1>3, TheSome
  <2> HIDE DEF left
  <2>3. QED
    BY <1>2, <1>3, <2>1, <2>2 DEF FilePart
<1>5. QED
  BY <1>3, <1>4, ImportGoes

LEMMA ImportForward == ASSUME ImportParts, IM!GoForward PROVE ImportParts'
<1> DEFINE left == IM!Left(ui)
           rows == The(srv.handed).rows
           v == [left EXCEPT !.screen = "import", !.comboFile = Some(rows)]
           w == [v EXCEPT !.previewing = Some(rows)]
<1>1. HasLeft(left)
  BY LeftHolds DEF ImportParts
<1>2. Fields(v, ImportFields) /\ v.comboFile = Some(rows)
  <2> HIDE DEF left, rows
  <2>1. QED
    BY <1>1 DEF HasLeft, Fields, ImportFields
<1>3. ui' = [w EXCEPT !.acts = w.acts + 1] /\ srv' = srv /\ srv.handed # None
  <2> HIDE DEF left, rows
  <2>1. IM!Opens(ui) = w
    BY <1>2, ImportNone DEF IM!Opens, IM!AsksPreview, IM!GoForward, left, rows
  <2>2. QED
    BY <2>1, ImportNone DEF IM!GoForward, IM!Does, IM!Sets
<1>4. /\ Fields(ui', ImportFields)
      /\ ui'.text = "" /\ ui'.resolving = None /\ ui'.resolveResult = None /\ ui'.excluded = {}
      /\ ui'.copied = ui.copied /\ ui'.commits = {[c EXCEPT !.mounted = FALSE] : c \in ui.commits}
      /\ ui'.building = None /\ ui'.setupFile = None /\ ui'.comboFile = Some(rows)
  <2> HIDE DEF left, rows
  <2>1. QED
    BY <1>1, <1>3 DEF HasLeft, Fields, ImportFields
<1>5. FilePart'
  <2>1. Named(rows)
    BY <1>3 DEF ImportParts, FilePart
  <2>2. The(ui'.comboFile) = rows
    BY <1>4, TheSome
  <2> HIDE DEF left, rows, v, w
  <2>3. QED
    BY <1>3, <1>4, <2>1, <2>2 DEF ImportParts, FilePart
<1>6. Fields(srv', DOMAIN srv)
  BY <1>3 DEF ImportParts, ImportShape, Fields
<1>7. QED
  <2> HIDE DEF left, rows, v, w
  <2>1. QED
    BY <1>3, <1>4, <1>5, <1>6, ImportGoes

LEMMA ImportBack == ASSUME ImportParts, IM!GoBack PROVE ImportParts'
<1> DEFINE left == IM!Left(ui)
           v == [left EXCEPT !.screen = "helper"]
<1>1. HasLeft(left)
  BY LeftHolds DEF ImportParts
<1>2. ui' = [v EXCEPT !.acts = v.acts + 1] /\ srv' = srv
  BY DEF IM!GoBack, IM!Does, IM!Sets
<1>3. /\ Fields(ui', ImportFields)
      /\ ui'.text = "" /\ ui'.resolving = None /\ ui'.resolveResult = None /\ ui'.excluded = {}
      /\ ui'.copied = ui.copied /\ ui'.commits = {[c EXCEPT !.mounted = FALSE] : c \in ui.commits}
      /\ ui'.building = None /\ ui'.setupFile = None /\ ui'.comboFile = None
  <2> HIDE DEF left
  <2>1. QED
    BY <1>1, <1>2 DEF HasLeft, Fields, ImportFields
<1>4. FilePart' /\ Fields(srv', DOMAIN srv)
  <2> HIDE DEF left
  <2>1. QED
    BY <1>2, <1>3 DEF ImportParts, ImportShape, FilePart, Fields
<1>5. QED
  <2> HIDE DEF left
  <2>1. QED
    BY <1>2, <1>3, <1>4, ImportGoes

-----------------------------------------------------------------------------
\* An action of the import page that leaves the texts, the commits and the server alone.
LEMMA PageKeeps ==
  ASSUME ImportParts, Fields(ui', ImportFields), TextsStay, CommitsStay, srv' = srv, ui'.copied = ui.copied,
         FilePart'
  PROVE  ImportParts'
<1>1. ImportShape'
  BY DEF ImportParts, ImportShape, CommitsStay
<1>2. QED
  BY <1>1, TextsStayed, CommitsStayed DEF ImportParts, PromptPart

LEMMA ImportChooses ==
  ASSUME ImportParts, NEW f, f # None => The(f) \in Files, IM!ChooseComboFile(f) PROVE ImportParts'
<1>1. /\ Fields(ui', ImportFields) /\ TextsStay /\ CommitsStay /\ srv' = srv /\ ui'.copied = ui.copied
      /\ ui'.building = ui.building /\ ui'.comboFile = f
      /\ ui'.setupFile = ui.setupFile \/ ui'.setupFile = None
  BY ImportNone DEF ImportParts, ImportShape, Fields, ImportFields, TextsStay, CommitsStay,
     IM!ChooseComboFile, IM!ResetResults, IM!Does, IM!Sets
<1>2. FilePart'
  BY <1>1, ImportAssumption DEF ImportParts, FilePart, Named
<1>3. QED
  BY <1>1, <1>2, PageKeeps

LEMMA ImportChoosesSetups ==
  ASSUME ImportParts, NEW f, f # None => The(f) \in SetupFiles, IM!ChooseSetupFile(f) PROVE ImportParts'
<1>1. /\ Fields(ui', ImportFields) /\ TextsStay /\ CommitsStay /\ srv' = srv /\ ui'.copied = ui.copied
      /\ ui'.building = ui.building /\ ui'.comboFile = ui.comboFile /\ ui'.setupFile = f
  BY ImportNone DEF ImportParts, ImportShape, Fields, ImportFields, TextsStay, CommitsStay,
     IM!ChooseSetupFile, IM!ResetResults, IM!Does, IM!Sets
<1>2. FilePart'
  BY <1>1 DEF ImportParts, FilePart
<1>3. QED
  BY <1>1, <1>2, PageKeeps

ImportTicks ==
  \/ IM!BuildFails
  \/ IM!HandlePreview \/ IM!PreviewAnswered \/ IM!PreviewFails
  \/ \E all \in BOOLEAN : IM!ToggleAll(all)
  \/ \E local \in IM!Rows : IM!ToggleRow(local)
  \/ \E dup \in {"skip", "setups_only"} : IM!SetDupAction(dup)
  \/ IM!AskToCommit \/ IM!Cancel

LEMMA ImportTicked == ASSUME ImportParts, ImportTicks PROVE ImportParts'
<1>1. /\ Fields(ui', ImportFields) /\ TextsStay /\ CommitsStay /\ srv' = srv /\ ui'.copied = ui.copied
      /\ ui'.building = ui.building \/ ui'.building = None
      /\ ui'.comboFile = ui.comboFile /\ ui'.setupFile = ui.setupFile
  <2> USE ImportNone DEF ImportShape, Fields, ImportFields, TextsStay, CommitsStay, IM!Choosing, IM!Does, IM!Sets
  <2>1. CASE IM!BuildFails
    BY <2>1 DEF ImportParts, IM!BuildFails
  <2>2. CASE IM!HandlePreview
    BY <2>2 DEF ImportParts, IM!HandlePreview, IM!AsksPreview
  <2>3. CASE IM!PreviewAnswered
    BY <2>3 DEF ImportParts, IM!PreviewAnswered
  <2>4. CASE IM!PreviewFails
    BY <2>4 DEF ImportParts, IM!PreviewFails
  <2>5. CASE \E all \in BOOLEAN : IM!ToggleAll(all)
    BY <2>5 DEF ImportParts, IM!ToggleAll
  <2>6. CASE \E local \in IM!Rows : IM!ToggleRow(local)
    BY <2>6 DEF ImportParts, IM!ToggleRow
  <2>7. CASE \E dup \in {"skip", "setups_only"} : IM!SetDupAction(dup)
    BY <2>7 DEF ImportParts, IM!SetDupAction
  <2>8. CASE IM!AskToCommit
    BY <2>8 DEF ImportParts, IM!AskToCommit
  <2>9. CASE IM!Cancel
    BY <2>9 DEF ImportParts, IM!Cancel
  <2>10. QED
    BY <2>1, <2>2, <2>3, <2>4, <2>5, <2>6, <2>7, <2>8, <2>9 DEF ImportTicks
<1>2. FilePart'
  BY <1>1 DEF ImportParts, FilePart
<1>3. QED
  BY <1>1, <1>2, PageKeeps

-----------------------------------------------------------------------------
\* What has to be shown of an action that concerns a commit.
LEMMA CommitKeeps ==
  ASSUME ImportParts, Fields(ui', ImportFields), Fields(srv', DOMAIN srv), TextsStay, FilesStay,
         ui'.copied = ui.copied, \A c \in ui'.commits : c \in ui.commits \/ Fields(c, CommitFields), RowPart'
  PROVE  ImportParts'
<1>1. ImportShape'
  BY DEF ImportParts, ImportShape, Fields
<1>2. QED
  BY <1>1, TextsStayed, FilesStayed DEF ImportParts, PromptPart

LEMMA ImportCommits == ASSUME ImportParts, IM!HandleCommit PROVE ImportParts'
<1> DEFINE d == IM!Request
<1>1. /\ Fields(ui', ImportFields) /\ TextsStay /\ FilesStay /\ srv' = srv /\ ui'.copied = ui.copied
      /\ ui'.commits = ui.commits \/ (ui.comboFile # None /\ ui'.commits = ui.commits \union {d})
  <2> HIDE DEF d
  <2>1. ui' = [[ui EXCEPT !.confirm = FALSE,
                          !.commits = IF IM!SelectedLocalIds(ui) = {} \/ ui.comboFile = None THEN @
                                      ELSE @ \union {d}] EXCEPT !.acts = ui'.acts] /\ srv' = srv
    BY ImportNone DEF ImportParts, ImportShape, Fields, ImportFields, IM!HandleCommit, IM!Does, IM!Sets, d
  <2>2. QED
    BY <2>1 DEF ImportParts, ImportShape, Fields, ImportFields, TextsStay, FilesStay
<1>2. Fields(srv', DOMAIN srv)
  BY <1>1 DEF ImportParts, ImportShape, Fields
<1>3. CASE ui'.commits = ui.commits
  BY <1>1, <1>2, <1>3, CommitKeeps, CommitsStayed DEF ImportParts, CommitsStay
<1>4. CASE ui.comboFile # None /\ ui'.commits = ui.commits \union {d}
  <2> DEFINE rows   == The(ui.comboFile)
             setups == IF ui.setupFile = None THEN {} ELSE The(ui.setupFile)
             size   == Cardinality(srv.combos)
  <2>1. /\ Fields(d, CommitFields)
        /\ d.asked.rows = rows /\ d.asked.selected = IM!SelectedLocalIds(ui) /\ d.asked.before = size
        /\ d.left = {n \in DOMAIN rows : rows[n].valid /\ rows[n].local \in IM!SelectedLocalIds(ui)}
        /\ d.parents = << >> /\ d.setups = setups
    BY ImportNone, SameSize DEF IM!Request, Fields, CommitFields
  <2>2. size \in Nat
    BY FS_CardinalityType DEF ImportParts, RowPart, Once
  <2>3. Named(rows)
    BY <1>4 DEF ImportParts, FilePart
  <2>4. Faithful(srv.combos, d)
    <3> HIDE DEF d, rows, setups
    <3>1. d.left \subseteq {n \in DOMAIN d.asked.rows : d.asked.rows[n].local \in d.asked.selected}
      BY <2>1
    <3>2. DOMAIN d.parents = {}
      BY <2>1
    <3>3. QED
      BY <2>1, <2>2, <2>3, <3>1, <3>2 DEF Faithful
  <2>5. RowPart'
    <3> HIDE DEF d
    <3>1. QED
      BY <1>1, <1>4, <2>4, OneGoesOn DEF ImportParts, RowPart
  <2>6. QED
    <3> HIDE DEF d
    <3>1. QED
      BY <1>1, <1>2, <1>4, <2>1, <2>5, CommitKeeps
<1>5. QED
  BY <1>1, <1>3, <1>4

\* One commit goes on.
LEMMA ImportGoesOn ==
  ASSUME ImportParts, NEW c \in ui.commits, NEW d, Fields(d, CommitFields),
         ui' = [ui EXCEPT !.commits = (@ \ {c}) \union {d}],
         Fields(srv', DOMAIN srv), srv'.handed = srv.handed, srv'.setups = srv.setups,
         Once(srv'.combos), srv.combos \subseteq srv'.combos, Faithful(srv'.combos, d)
  PROVE  ImportParts'
<1>1. /\ Fields(ui', ImportFields) /\ TextsStay /\ FilesStay /\ ui'.copied = ui.copied
      /\ ui'.commits = (ui.commits \ {c}) \union {d}
  BY DEF ImportParts, ImportShape, Fields, ImportFields, TextsStay, FilesStay
<1>2. RowPart'
  BY <1>1, OneGoesOn DEF ImportParts
<1>3. QED
  BY <1>1, <1>2, CommitKeeps

LEMMA PastKeeps ==
  ASSUME NEW S, NEW c, Fields(c, CommitFields), Faithful(S, c), NEW n
  PROVE  Fields(IM!Past(c, n), CommitFields) /\ Faithful(S, IM!Past(c, n))
<1> DEFINE d == IM!Past(c, n)
<1>1. /\ Fields(d, CommitFields) /\ d.asked = c.asked /\ d.left = c.left \ {n} /\ d.parents = c.parents
      /\ d.setups = c.setups
  BY DEF Fields, CommitFields, IM!Past
<1>2. \A local \in DOMAIN d.parents : RowMade(S, c.asked, local, d.parents[local])
  BY <1>1 DEF Faithful
<1>3. QED
  <2> HIDE DEF d
  <2>1. Fields(d, CommitFields) /\ Faithful(S, d)
    BY <1>1, <1>2, CommitGoesOn
  <2>2. QED
    BY <2>1 DEF d

LEMMA RegisterKeeps ==
  ASSUME NEW S, NEW c, Fields(c, CommitFields), Faithful(S, c), NEW row, NEW id,
         RowMade(S, c.asked, row.local, id)
  PROVE  Fields(IM!Registers(c, row, id), CommitFields) /\ Faithful(S, IM!Registers(c, row, id))
<1> DEFINE d == IM!Registers(c, row, id)
<1>1. /\ Fields(d, CommitFields) /\ d.asked = c.asked /\ d.left = c.left /\ d.setups = c.setups
      /\ d.parents = IM!With(c.parents, row.local, id)
  BY DEF Fields, CommitFields, IM!Registers
<1>2. \A local \in DOMAIN d.parents : RowMade(S, c.asked, local, d.parents[local])
  <2> HIDE DEF d
  <2>1. /\ DOMAIN d.parents = DOMAIN c.parents \union {row.local}
        /\ \A local \in DOMAIN d.parents : d.parents[local] = IF local = row.local THEN id ELSE c.parents[local]
    BY <1>1 DEF IM!With
  <2>2. QED
    BY <2>1 DEF Faithful
<1>3. QED
  <2> HIDE DEF d
  <2>1. Fields(d, CommitFields) /\ Faithful(S, d)
    BY <1>1, <1>2, CommitGoesOn
  <2>2. QED
    BY <2>1 DEF d

LEMMA RowOfCommit ==
  ASSUME ImportParts, NEW c \in ui.commits, NEW n \in c.left
  PROVE  /\ Fields(c, CommitFields) /\ Faithful(srv.combos, c)
         /\ n \in DOMAIN c.asked.rows /\ c.asked.rows[n].local \in c.asked.selected
         /\ c.asked.rows[n].draft \in BOOLEAN
BY DEF ImportParts, ImportShape, RowPart, Faithful, Named

LEMMA ImportChecks ==
  ASSUME ImportParts, NEW c \in ui.commits, NEW n \in c.left, IM!CheckRow(c, n) PROVE ImportParts'
<1> DEFINE row == c.asked.rows[n]
           x   == CHOOSE y \in IM!Same(row) : TRUE
<1>1. /\ Fields(c, CommitFields) /\ Faithful(srv.combos, c)
      /\ n \in DOMAIN c.asked.rows /\ row.local \in c.asked.selected /\ row.draft \in BOOLEAN
  BY RowOfCommit
<1>2. /\ srv' = srv /\ ~row.draft
      /\ ui' = [ui EXCEPT !.commits = (@ \ {c}) \union
                  {IF IM!Same(row) = {} THEN [c EXCEPT !.passed = TRUE] ELSE IM!Past(IM!Duplicate(c, row), n)}]
  BY DEF IM!CheckRow, IM!GoesOn
<1>3. Fields(srv', DOMAIN srv) /\ Once(srv.combos)
  BY <1>2 DEF ImportParts, ImportShape, RowPart, Fields
<1>4. CASE IM!Same(row) = {}
  <2> DEFINE d == [c EXCEPT !.passed = TRUE]
  <2>1. /\ Fields(d, CommitFields) /\ d.asked = c.asked /\ d.left = c.left /\ d.parents = c.parents
        /\ d.setups = c.setups
    BY <1>1 DEF Fields, CommitFields
  <2>2. ui' = [ui EXCEPT !.commits = (@ \ {c}) \union {d}]
    BY <1>2, <1>4
  <2>3. \A local \in DOMAIN d.parents : RowMade(srv.combos, c.asked, local, d.parents[local])
    <3> HIDE DEF d
    <3>1. QED
      BY <1>1, <2>1 DEF Faithful
  <2> HIDE DEF d
  <2>4. Faithful(srv.combos, d)
    BY <1>1, <2>1, <2>3, CommitGoesOn
  <2>5. QED
    BY <1>2, <1>3, <2>1, <2>2, <2>4, ImportGoesOn
<1>5. CASE IM!Same(row) # {}
  <2> DEFINE e == IM!Duplicate(c, row)
             d == IM!Past(e, n)
  <2>1. x \in srv.combos /\ x.recipe = row.recipe /\ ~x.draft
    <3>1. x \in IM!Same(row)
      BY <1>5
    <3> HIDE DEF x
    <3>2. QED
      BY <3>1 DEF IM!Same
  <2>2. c.asked.dup = "setups_only" => RowMade(srv.combos, c.asked, row.local, x.id)
    <3> HIDE DEF x
    <3>1. x.draft = row.draft /\ x = [id |-> x.id, recipe |-> x.recipe, draft |-> x.draft]
      BY <1>1, <1>2, <1>3, <2>1 DEF Once
    <3>2. [id |-> x.id, recipe |-> row.recipe, draft |-> row.draft] \in srv.combos
      BY <2>1, <3>1
    <3>3. QED
      BY <1>1, <3>2 DEF RowMade
  <2>3. Fields(e, CommitFields) /\ Faithful(srv.combos, e)
    <3>1. CASE c.asked.dup = "setups_only"
      <4>1. e = IM!Registers(c, row, x.id)
        BY <3>1 DEF IM!Duplicate
      <4> HIDE DEF e, x
      <4>2. QED
        BY <1>1, <2>2, <3>1, <4>1, RegisterKeeps
    <3>2. CASE c.asked.dup # "setups_only"
      BY <1>1, <3>2 DEF IM!Duplicate
    <3>3. QED
      BY <3>1, <3>2
  <2>4. ui' = [ui EXCEPT !.commits = (@ \ {c}) \union {d}]
    BY <1>2, <1>5
  <2>5. Fields(d, CommitFields) /\ Faithful(srv.combos, d)
    <3> HIDE DEF e
    <3>1. QED
      BY <2>3, PastKeeps
  <2> HIDE DEF d
  <2>6. QED
    BY <1>2, <1>3, <2>4, <2>5, ImportGoesOn
<1>6. QED
  BY <1>4, <1>5

LEMMA ImportPasses ==
  ASSUME ImportParts, NEW c \in ui.commits, NEW n \in c.left, srv' = srv, IM!GoesOn(c, IM!Past(c, n))
  PROVE  ImportParts'
<1>1. Fields(srv', DOMAIN srv) /\ Once(srv.combos)
  BY DEF ImportParts, ImportShape, RowPart, Fields
<1>2. Fields(IM!Past(c, n), CommitFields) /\ Faithful(srv.combos, IM!Past(c, n))
  BY RowOfCommit, PastKeeps
<1>3. QED
  BY <1>1, <1>2, ImportGoesOn DEF IM!GoesOn

LEMMA ImportMakes ==
  ASSUME ImportParts, NEW c \in ui.commits, NEW n \in c.left, IM!CreateRow(c, n) PROVE ImportParts'
<1> DEFINE row   == c.asked.rows[n]
           id    == Cardinality(srv.combos) + 1
           combo == [id |-> id, recipe |-> row.recipe, draft |-> row.draft]
           T     == srv.combos \union {combo}
           e     == IM!Registers(c, row, id)
           d     == IM!Past(e, n)
<1>1. /\ Fields(c, CommitFields) /\ Faithful(srv.combos, c)
      /\ n \in DOMAIN c.asked.rows /\ row.local \in c.asked.selected /\ row.draft \in BOOLEAN
  BY RowOfCommit
<1>2. CASE IM!IsNew(row)
  <2>1. /\ ui' = [ui EXCEPT !.commits = (@ \ {c}) \union {d}]
        /\ srv' = [srv EXCEPT !.combos = T]
    BY <1>2, SameSize DEF IM!CreateRow, IM!GoesOn
  <2>2. Once(srv.combos) /\ Cardinality(srv.combos) \in Nat
    BY FS_CardinalityType DEF ImportParts, RowPart, Once
  <2>3. Once(T)
    <3>1. row.draft \/ \A y \in srv.combos : y.recipe = row.recipe => y.draft
      BY <1>2 DEF IM!IsNew, IM!Same
    <3> HIDE DEF row
    <3>2. QED
      BY <1>1, <2>2, <3>1, AddedOnce
  <2>4. Faithful(T, c)
    BY <1>1, <2>3, FaithfulStays
  <2>5. RowMade(T, c.asked, row.local, id)
    <3>1. id > c.asked.before
      BY <1>1, <2>2 DEF Faithful
    <3>2. [id |-> id, recipe |-> row.recipe, draft |-> row.draft] \in T
      OBVIOUS
    <3> HIDE DEF id, T
    <3>3. QED
      BY <1>1, <3>1, <3>2 DEF RowMade
  <2>6. Fields(d, CommitFields) /\ Faithful(T, d)
    <3> HIDE DEF id, T, row
    <3>1. Fields(e, CommitFields) /\ Faithful(T, e)
      BY <1>1, <2>4, <2>5, RegisterKeeps
    <3> HIDE DEF e
    <3>2. QED
      BY <3>1, PastKeeps
  <2>7. /\ Fields(srv', DOMAIN srv) /\ srv'.handed = srv.handed /\ srv'.setups = srv.setups
        /\ srv'.combos = T /\ srv.combos \subseteq T
    <3>1. srv.combos \subseteq T
      OBVIOUS
    <3> HIDE DEF T
    <3>2. QED
      BY <2>1, <3>1 DEF ImportParts, ImportShape, Fields
  <2> HIDE DEF d, T
  <2>8. QED
    BY <2>1, <2>3, <2>6, <2>7, ImportGoesOn
<1>3. CASE ~IM!IsNew(row)
  BY <1>3, ImportPasses DEF IM!CreateRow
<1>4. QED
  BY <1>2, <1>3

\* A setup that has had its turn is not taken again.
LEMMA SetupLeft ==
  ASSUME ImportParts, NEW c \in ui.commits, NEW s
  PROVE  LET d == [c EXCEPT !.setups = @ \ {s}] IN Fields(d, CommitFields) /\ Faithful(srv.combos, d)
<1> DEFINE d == [c EXCEPT !.setups = @ \ {s}]
<1>1. Fields(c, CommitFields) /\ Faithful(srv.combos, c)
  BY DEF ImportParts, ImportShape, RowPart
<1>2. /\ Fields(d, CommitFields) /\ d.asked = c.asked /\ d.left = c.left /\ d.parents = c.parents
      /\ d.setups = c.setups \ {s}
  BY <1>1 DEF Fields, CommitFields
<1>3. Fields(d, CommitFields) /\ Faithful(srv.combos, d)
  <2> HIDE DEF d
  <2>1. \A local \in DOMAIN d.parents : RowMade(srv.combos, c.asked, local, d.parents[local])
    BY <1>1, <1>2 DEF Faithful
  <2>2. QED
    BY <1>1, <1>2, <2>1, CommitGoesOn
<1>4. QED
  BY <1>3

LEMMA ImportSetupFails ==
  ASSUME ImportParts, NEW c \in ui.commits, NEW s, IM!SetupFails(c, s) PROVE ImportParts'
<1> DEFINE d == [c EXCEPT !.setups = @ \ {s}]
<1>1. ui' = [ui EXCEPT !.commits = (@ \ {c}) \union {d}] /\ srv' = srv
  BY DEF IM!SetupFails, IM!GoesOn
<1>2. Fields(srv', DOMAIN srv) /\ Once(srv.combos)
  BY <1>1 DEF ImportParts, ImportShape, RowPart, Fields
<1>3. Fields(d, CommitFields) /\ Faithful(srv.combos, d)
  BY SetupLeft
<1>4. QED
  <2> HIDE DEF d
  <2>1. QED
    BY <1>1, <1>2, <1>3, ImportGoesOn

LEMMA ParentFollows ==
  ASSUME ImportParts, NEW c \in ui.commits, NEW s \in c.setups, NEW id \in IM!Parent(c, s)
  PROVE  Follows(srv.combos, [combo |-> id, recipe |-> s.recipe, row |-> s, by |-> c.asked])
<1> DEFINE t == [combo |-> id, recipe |-> s.recipe, row |-> s, by |-> c.asked]
<1>1. Faithful(srv.combos, c) /\ Once(srv.combos)
  BY DEF ImportParts, RowPart
<1>2. t.combo = id /\ t.row = s /\ t.by = c.asked
  OBVIOUS
<1>3. CASE s.parent \in DOMAIN c.parents
  <2>1. id = c.parents[s.parent]
    BY <1>3 DEF IM!Parent
  <2>2. RowMade(srv.combos, c.asked, s.parent, id)
    BY <1>1, <1>3, <2>1 DEF Faithful
  <2> HIDE DEF t
  <2>3. Follows(srv.combos, t)
    BY <1>2, <2>2 DEF Follows
  <2>4. QED
    BY <2>3 DEF t
<1>4. CASE s.parent \notin DOMAIN c.parents
  <2>1. PICK x \in srv.combos : id = x.id /\ x.id = s.number
    BY <1>4 DEF IM!Parent
  <2>2. s.number # 0
    BY <1>1, <2>1 DEF Once
  <2> HIDE DEF t
  <2>3. Follows(srv.combos, t)
    BY <1>2, <2>1, <2>2 DEF Follows
  <2>4. QED
    BY <2>3 DEF t
<1>5. QED
  BY <1>3, <1>4

LEMMA ImportMakesSetup ==
  ASSUME ImportParts, NEW c \in ui.commits, NEW s \in c.setups, IM!CommitOneSetup(c, s) PROVE ImportParts'
<1> DEFINE d == [c EXCEPT !.setups = @ \ {s}]
           made == {[combo |-> id, recipe |-> s.recipe, row |-> s, by |-> c.asked] :
                      id \in {id \in IM!Parent(c, s) : ~\E t \in srv.setups : t.combo = id /\ t.recipe = s.recipe}}
<1>1. ui' = [ui EXCEPT !.commits = (@ \ {c}) \union {d}] /\ srv' = [srv EXCEPT !.setups = @ \union made]
  BY DEF IM!CommitOneSetup, IM!GoesOn
<1>2. \A t \in made : Follows(srv.combos, t)
  BY ParentFollows
<1>3. Fields(d, CommitFields) /\ Faithful(srv.combos, d)
  BY SetupLeft
<1>4. /\ Fields(ui', ImportFields) /\ TextsStay /\ FilesStay /\ ui'.copied = ui.copied
      /\ ui'.commits = (ui.commits \ {c}) \union {d}
      /\ Fields(srv', DOMAIN srv) /\ srv'.combos = srv.combos /\ srv'.setups = srv.setups \union made
  <2> HIDE DEF d, made
  <2>1. QED
    BY <1>1 DEF ImportParts, ImportShape, Fields, ImportFields, TextsStay, FilesStay
<1> HIDE DEF d, made
<1>5. RowPart'
  BY <1>2, <1>3, <1>4 DEF ImportParts, RowPart
<1>6. QED
  BY <1>3, <1>4, <1>5, CommitKeeps

LEMMA ImportEnds ==
  ASSUME ImportParts, NEW c \in ui.commits, IM!CommitAnswered(c) \/ IM!CommitFails(c) PROVE ImportParts'
<1>1. /\ Fields(ui', ImportFields) /\ TextsStay /\ FilesStay /\ ui'.copied = ui.copied
      /\ ui'.commits \subseteq ui.commits /\ srv' = srv
  <2> USE DEF ImportShape, Fields, ImportFields, TextsStay, FilesStay, IM!Sets
  <2>1. CASE IM!CommitAnswered(c)
    BY <2>1 DEF ImportParts, IM!CommitAnswered
  <2>2. CASE IM!CommitFails(c)
    BY <2>2 DEF ImportParts, IM!CommitFails
  <2>3. QED
    BY <2>1, <2>2
<1>2. Fields(srv', DOMAIN srv) /\ RowPart'
  BY <1>1 DEF ImportParts, ImportShape, RowPart, Fields
<1>3. QED
  BY <1>1, <1>2, CommitKeeps

LEMMA ImportElsewhere == ASSUME ImportParts, NEW recipe, IM!OtherTab(recipe) PROVE ImportParts'
<1> DEFINE T == srv.combos \union {[id |-> Cardinality(srv.combos) + 1, recipe |-> recipe, draft |-> FALSE]}
<1>1. /\ ui' = ui /\ srv' = [srv EXCEPT !.others = @ + 1, !.combos = T]
      /\ \A x \in srv.combos : x.recipe = recipe => x.draft
  BY SameSize DEF IM!OtherTab, IM!Serves
<1>2. Once(srv.combos)
  BY DEF ImportParts, RowPart
<1>3. Once(T) /\ srv.combos \subseteq T
  BY <1>1, <1>2, AddedOnce
<1>4. /\ Fields(srv', DOMAIN srv) /\ srv'.combos = T /\ srv'.setups = srv.setups
      /\ TextsStay /\ FilesStay /\ ui' = ui /\ Fields(ui', ImportFields)
  <2> HIDE DEF T
  <2>1. QED
    BY <1>1 DEF ImportParts, ImportShape, Fields, TextsStay, FilesStay
<1> HIDE DEF T
<1>5. RowPart'
  <2>1. \A e \in ui'.commits : Faithful(srv'.combos, e)
    BY <1>3, <1>4, FaithfulStays DEF ImportParts, RowPart
  <2>2. \A s \in srv'.setups : Follows(srv'.combos, s)
    BY <1>3, <1>4, FollowsStays DEF ImportParts, RowPart
  <2>3. QED
    BY <1>3, <1>4, <2>1, <2>2 DEF RowPart
<1>6. QED
  BY <1>4, <1>5, CommitKeeps

LEMMA ImportStep == ASSUME ImportParts, IM!On, IM!Next PROVE ImportParts'
<1>1. CASE \E c \in Characters : IM!ChooseCharacter(c)
  BY <1>1, ImportCharacter
<1>2. CASE IM!MovesArrive \/ IM!CopyPrompt
  BY <1>2, ImportPrompt
<1>3. CASE \E text \in DOMAIN Texts : IM!Paste(text)
  BY <1>3, ImportPastes
<1>4. CASE IM!Resolve \/ IM!ResolveFails
  BY <1>4, ImportResolves
<1>5. CASE IM!ResolveAnswered
  BY <1>5, ImportResolved
<1>6. CASE \E k \in IM!Tabled : IM!SetExcludeStep(k) \/ \E code \in IM!Codes \union {""} : IM!SetOverride(k, code)
  BY <1>6, ImportDecides
<1>7. CASE IM!HandleProceed
  BY <1>7, ImportProceeds
<1>8. CASE IM!BuildAnswered
  BY <1>8, ImportHandsOver
<1>9. CASE IM!GoForward \/ IM!GoBack
  BY <1>9, ImportForward, ImportBack
<1>10. CASE \E f \in {IM!None} \union {IM!Some(f) : f \in Files} : IM!ChooseComboFile(f)
  <2>1. PICK f \in {None} \union {Some(f) : f \in Files} : IM!ChooseComboFile(f)
    BY <1>10, ImportNone
  <2>2. f # None => The(f) \in Files
    BY <2>1, TheSome
  <2>3. QED
    BY <2>1, <2>2, ImportChooses
<1>11. CASE \E f \in {IM!None} \union {IM!Some(f) : f \in SetupFiles} : IM!ChooseSetupFile(f)
  <2>1. PICK f \in {None} \union {Some(f) : f \in SetupFiles} : IM!ChooseSetupFile(f)
    BY <1>11, ImportNone
  <2>2. f # None => The(f) \in SetupFiles
    BY <2>1, TheSome
  <2>3. QED
    BY <2>1, <2>2, ImportChoosesSetups
<1>12. CASE ImportTicks
  BY <1>12, ImportTicked
<1>13. CASE IM!HandleCommit
  BY <1>13, ImportCommits
<1>14. CASE \E c \in IM!Sent : IM!CommitAnswered(c) \/ IM!CommitFails(c)
  BY <1>14, ImportEnds DEF IM!Sent
<1>15. CASE \E c \in IM!Sent : \E n \in c.left : IM!CheckRow(c, n) \/ IM!CreateRow(c, n) \/ IM!RowFails(c, n)
  BY <1>15, ImportChecks, ImportMakes, ImportPasses DEF IM!Sent, IM!RowFails
<1>16. CASE \E c \in IM!Sent : \E s \in c.setups : IM!CommitOneSetup(c, s) \/ IM!SetupFails(c, s)
  BY <1>16, ImportMakesSetup, ImportSetupFails DEF IM!Sent
<1>17. CASE \E f \in Files : \E n \in DOMAIN f : IM!OtherTab(f[n].recipe)
  BY <1>17, ImportElsewhere
<1>18. QED
  BY <1>1, <1>2, <1>3, <1>4, <1>5, <1>6, <1>7, <1>8, <1>9, <1>10, <1>11, <1>12, <1>13, <1>14, <1>15,
     <1>16, <1>17 DEF IM!Next, ImportTicks

LEMMA ImportInit == IM!Init => ImportParts
<1> SUFFICES ASSUME IM!Init PROVE ImportParts
  OBVIOUS
<1> DEFINE made == [n \in DOMAIN StoredRecipes |-> [id |-> n, recipe |-> StoredRecipes[n], draft |-> FALSE]]
           rows == {[id |-> n, recipe |-> StoredRecipes[n], draft |-> FALSE] : n \in DOMAIN StoredRecipes}
<1>1. /\ Fields(ui, ImportFields) /\ ui.commits = {} /\ ui.copied.moves = {} /\ ui.text = ""
      /\ ui.resolving = None /\ ui.building = None /\ ui.resolveResult = None /\ ui.excluded = {}
      /\ ui.comboFile = None /\ ui.setupFile = None
  <2>1. PICK screen \in {"helper", "import"} :
          ui = [page |-> "import", screen |-> screen, loaded |-> {}, commits |-> {}, tables |-> 0,
                copied |-> [of |-> "", moves |-> {}], acts |-> 0,
                character |-> "", text |-> "", resolving |-> None, building |-> None,
                resolveResult |-> None, overrides |-> << >>, excluded |-> {},
                comboFile |-> None, setupFile |-> None, preview |-> None, checked |-> {},
                previewing |-> None, dupAction |-> "skip", confirm |-> FALSE, report |-> FALSE]
    BY ImportNone DEF IM!Init
  <2>2. QED
    BY <2>1 DEF Fields, ImportFields
<1>2. /\ Fields(srv, {"combos", "setups", "handed", "others"}) /\ srv.setups = {} /\ srv.handed = None
      /\ srv.combos = {made[n] : n \in DOMAIN StoredRecipes}
  <2>1. srv = [combos |-> rows, setups |-> {}, handed |-> None, others |-> 0]
    BY ImportNone DEF IM!Init
  <2>2. rows = {made[n] : n \in DOMAIN StoredRecipes}
    OBVIOUS
  <2> HIDE DEF rows, made
  <2>3. QED
    BY <2>1, <2>2 DEF Fields
<1>3. DOMAIN StoredRecipes = 1..Len(StoredRecipes) /\ Len(StoredRecipes) \in Nat
  BY ImportAssumption, LenProperties
<1>4. IsFiniteSet(srv.combos)
  <2>1. IsFiniteSet(DOMAIN StoredRecipes)
    BY <1>3, FS_Interval
  <2>2. made \in Surjection(DOMAIN StoredRecipes, srv.combos)
    <3>1. made = [n \in DOMAIN StoredRecipes |-> made[n]]
      OBVIOUS
    <3> HIDE DEF made
    <3>2. QED
      BY <1>2, <3>1 DEF Surjection
  <2> HIDE DEF made
  <2>3. QED
    BY <2>1, <2>2, FS_Surjection
<1>5. Once(srv.combos)
  <2>1. \A n \in DOMAIN StoredRecipes :
          /\ made[n] = [id |-> made[n].id, recipe |-> made[n].recipe, draft |-> made[n].draft]
          /\ made[n].id = n /\ made[n].draft = FALSE /\ made[n].recipe = StoredRecipes[n]
    OBVIOUS
  <2>2. \A n \in DOMAIN StoredRecipes : n \in Nat /\ n # 0
    BY <1>3
  <2> HIDE DEF made
  <2>3. ASSUME NEW x \in srv.combos
        PROVE  /\ x = [id |-> x.id, recipe |-> x.recipe, draft |-> x.draft]
               /\ x.id \in Nat /\ x.id # 0 /\ x.draft \in BOOLEAN
    <3>1. PICK n \in DOMAIN StoredRecipes : x = made[n]
      BY <1>2
    <3>2. x.id = n /\ x.draft = FALSE
      BY <2>1, <3>1
    <3>3. QED
      BY <2>1, <2>2, <3>1, <3>2
  <2>4. ASSUME NEW x \in srv.combos, NEW y \in srv.combos, x.recipe = y.recipe PROVE x = y
    <3>1. PICK m \in DOMAIN StoredRecipes : x = made[m]
      BY <1>2
    <3>2. PICK n \in DOMAIN StoredRecipes : y = made[n]
      BY <1>2
    <3>3. StoredRecipes[m] = StoredRecipes[n]
      BY <2>1, <2>4, <3>1, <3>2
    <3>4. QED
      BY <3>1, <3>2, <3>3, ImportAssumption
  <2>5. QED
    BY <1>4, <2>3, <2>4 DEF Once
<1> HIDE DEF made
<1>6. ImportShape /\ TextPart /\ FilePart
  BY <1>1, <1>2 DEF ImportShape, TextPart, FilePart
<1>7. RowPart
  BY <1>1, <1>2, <1>5 DEF RowPart
<1>8. PromptPart
  BY <1>1 DEF PromptPart
<1>9. QED
  BY <1>6, <1>7, <1>8 DEF ImportParts

ImportInv == ui.page = "import" => ImportParts

LEMMA ImportInductive == ImportInv /\ [NextLists]_vars => ImportInv'
<1> SUFFICES ASSUME ImportInv, [NextLists]_vars PROVE ImportInv'
  OBVIOUS
<1>1. CASE ui.page = "import" /\ IM!Next
  BY <1>1, ImportStep DEF ImportInv, IM!On
<1>2. CASE ui.page # "import" /\ ui'.page = ui.page
  BY <1>2 DEF ImportInv
<1>3. CASE UNCHANGED vars
  BY <1>3 DEF ImportInv, ImportParts, ImportShape, TextPart, FilePart, RowPart, PromptPart, vars
<1>4. QED
  BY <1>1, <1>2, <1>3 DEF NextLists, Stays

LEMMA RowsKept == ASSUME ImportInv PROVE IM!ImportKeepsItsRows
<1> SUFFICES ASSUME IM!On, ImportParts PROVE IM!ImportKeepsItsRows
  BY DEF ImportInv, IM!On, IM!ImportKeepsItsRows, IM!CsvHoldsTheTable, IM!PromptOfOneCharacter,
     IM!ImportedOnce, IM!SetupsFollowTheirCombo
<1>1. IM!CsvHoldsTheTable
  <2> SUFFICES ASSUME NEW csv \in {The(o) : o \in {ui.building, srv.handed} \ {None}},
                      NEW i \in DOMAIN csv.table.combos
               PROVE  Len(csv.table.combos[i]) - IM!Cardinality(LeftOut(csv, i)) =
                        IF RowsOf(csv, i) = {} THEN 0
                        ELSE Len(csv.rows[CHOOSE n \in RowsOf(csv, i) : TRUE].recipe) - 1
    BY ImportNone DEF IM!CsvHoldsTheTable, LeftOut, RowsOf
  <2>1. HoldsItsTable(csv)
    BY DEF ImportParts, FilePart
  <2>2. IM!Cardinality(LeftOut(csv, i)) = Cardinality(LeftOut(csv, i))
    BY SameSize
  <2>3. QED
    BY <2>1, <2>2 DEF HoldsItsTable
<1>2. IM!PromptOfOneCharacter
  BY DEF ImportParts, PromptPart, IM!PromptOfOneCharacter
<1>3. IM!ImportedOnce
  BY DEF ImportParts, RowPart, Once, IM!ImportedOnce
<1>4. IM!SetupsFollowTheirCombo
  BY DEF ImportParts, RowPart, Follows, RowMade, IM!SetupsFollowTheirCombo
<1>5. QED
  BY <1>1, <1>2, <1>3, <1>4 DEF IM!ImportKeepsItsRows

\* What is handed over holds each step of its table that was not left out of that very table; a
\* recipe is in the database once; and a setup hangs under the combo of its row, whatever fails or
\* is registered elsewhere between two rows (comboio/import.go, review.ts, IntakeHelperPage.tsx).
THEOREM RowsAreKept == SpecLists => []ImportKeepsItsRows
<1>1. InitLists => ImportInv
  BY ImportInit DEF InitLists, ImportInv, TR!On, PU!On, SG!On, CL!On
<1>2. ImportInv => ImportKeepsItsRows
  BY RowsKept DEF ImportKeepsItsRows
<1>3. QED
  BY <1>1, <1>2, ImportInductive, PTL DEF SpecLists
=============================================================================
