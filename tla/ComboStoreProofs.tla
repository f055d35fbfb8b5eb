-------------------------- MODULE ComboStoreProofs --------------------------
(***************************************************************************)
(* Proofs about ComboStore, for every number of combos, setups, users,     *)
(* workers and versions.  The lemmas of the first part say which actions   *)
(* write a table; every invariant is then proved by one step per writer.   *)
(***************************************************************************)
EXTENDS ComboStore, TLAPS

-------------------------------------------------------------------------------
(* The writers of each table.                                                *)

\* The actions that insert, change or delete rows of combos.
ComboWrites ==
  \/ \E u \in Users : ComboCreate(u) \/ ComboEdit(u)
  \/ \E c \in ComboIds : Delete(c) \/ Restore(c) \/ PermanentDelete(c)
  \/ \E w \in Workers : MaterializeGenerate(w)

\* The actions that insert, change or delete rows of setups.
SetupWrites ==
  \/ \E u \in Users : ComboCreate(u)
  \/ \E c \in ComboIds, s \in SetupIds, recipe \in SetupRecipes, verified \in BOOLEAN :
       CreateSetup(s, c, recipe, verified)
  \/ \E u \in Users, recipe \in SetupRecipes : UpdateSetup(u, recipe)
  \/ \E s \in SetupIds, c \in ComboIds \cup {0} : DeleteSetup(s, c)
  \/ \E s \in SetupIds : RestoreSetup(s) \/ PermanentDeleteSetup(s)

LEMMA PunishSteps ==
  ASSUME PunishNext
  PROVE  /\ UNCHANGED <<setups, links, results, forms, setupForms>>
         /\ UNCHANGED <<combos, tags>> \/ \E w \in Workers : MaterializeGenerate(w)
  BY DEF PunishNext, AddPunish, RemovePunish, RemoveCuration, CurateCheck, MaterializeRead,
         AddCuration, MaterializeExisting, DrainBasePunish, Abandon, MaterializeGenerate,
         linkTables, editors

LEMMA SetupSteps ==
  ASSUME SetupNext
  PROVE  /\ UNCHANGED <<combos, tags, punishes, curations, forms>>
         /\ UNCHANGED setups \/ SetupWrites
  BY DEF SetupNext, CreateSetup, LinkCheck, LinkInsert, DeleteSetupLink, UpsertResult,
         DeleteResult, OpenSetupForm, UpdateSetup, DeleteSetup, RestoreSetup,
         PermanentDeleteSetup, SetupWrites, linkTables, punishTables, editors

LEMMA ComboSteps ==
  ASSUME ComboNext
  PROVE  /\ UNCHANGED <<setupForms, requests>>
         /\ UNCHANGED setups \/ SetupWrites
         /\ UNCHANGED combos \/ ComboWrites
  <1> DEFINE Goal == /\ UNCHANGED <<setupForms, requests>>
                     /\ UNCHANGED setups \/ SetupWrites
                     /\ UNCHANGED combos \/ ComboWrites
  <1>1. ASSUME NEW u \in Users, ComboCreate(u) PROVE Goal
    <2>1. UNCHANGED setupForms /\ UNCHANGED requests
      BY <1>1 DEF ComboCreate, Create, editors
    <2> QED BY <1>1, <2>1 DEF ComboWrites, SetupWrites
  <1>2. ASSUME NEW u \in Users, ComboEdit(u) PROVE Goal
    <2>1. UNCHANGED <<setups, setupForms, requests>>
      <3>1. ASSUME NEW draft, NEW ka, NEW tagged, NEW asked, NEW keep,
                   UpdateMetadata(u, draft, ka, tagged, asked, keep)
            PROVE  UNCHANGED <<setups, setupForms, requests>>
        BY <3>1 DEF UpdateMetadata
      <3>2. ASSUME NEW draft, NEW recipe, NEW hit, NEW ka, NEW tagged, NEW asked, NEW keep,
                   UpdateWithKeyChange(u, draft, recipe, hit, ka, tagged, asked, keep)
            PROVE  UNCHANGED <<setups, setupForms, requests>>
        BY <3>2 DEF UpdateWithKeyChange
      <3> QED BY <1>2, <3>1, <3>2 DEF ComboEdit
    <2> QED BY <1>2, <2>1 DEF ComboWrites
  <1>3. ASSUME NEW u \in Users, RefetchForm(u) \/ CloseForm(u) PROVE Goal
    BY <1>3 DEF RefetchForm, CloseForm
  <1>4. ASSUME NEW u \in Users, NEW c \in ComboIds, OpenForm(u, c) PROVE Goal
    BY <1>4 DEF OpenForm
  <1>5. ASSUME NEW c \in ComboIds, Delete(c) \/ Restore(c) \/ PermanentDelete(c) PROVE Goal
    <2>1. UNCHANGED <<setups, setupForms, requests>>
      BY <1>5 DEF Delete, Restore, PermanentDelete, editors
    <2> QED BY <1>5, <2>1 DEF ComboWrites
  <1> HIDE DEF Goal
  <1>6. Goal BY <1>1, <1>2, <1>3, <1>4, <1>5 DEF ComboNext
  <1> QED BY <1>6 DEF Goal

LEMMA CombosWritten ==
  ASSUME [Next]_vars
  PROVE  UNCHANGED combos \/ ComboWrites
  BY PunishSteps, SetupSteps, ComboSteps DEF Next, vars, ComboWrites

LEMMA SetupsWritten ==
  ASSUME [Next]_vars
  PROVE  UNCHANGED setups \/ SetupWrites
  BY PunishSteps, SetupSteps, ComboSteps DEF Next, vars

-------------------------------------------------------------------------------
(* Type correctness.                                                         *)

LEMMA NoComboRowTyped ==
  ASSUME NEW st \in States
  PROVE  /\ NoComboRow(st) \in ComboRow
         /\ NoComboRow(st).st = st /\ NoComboRow(st).ver = 0
         /\ NoComboRow(st).sup = 0 /\ NoComboRow(st).mat = 0
         /\ NoComboRow(st).draft = FALSE
  <1>1. (CHOOSE r \in Recipes : TRUE) \in Recipes
    BY RecipesAssumption
  <1> QED BY <1>1, BoundsAssumption DEF NoComboRow, ComboRow, HitTypes, AdvantagesOrNull

LEMMA NoSetupRowTyped ==
  ASSUME NEW st \in States
  PROVE  NoSetupRow(st) \in SetupRow /\ NoSetupRow(st).st = st /\ NoSetupRow(st).ver = 0
  <1>1. (CHOOSE r \in SetupRecipes : TRUE) \in SetupRecipes
    BY RecipesAssumption
  <1> QED BY <1>1, BoundsAssumption DEF NoSetupRow, SetupRow

LEMMA NewComboRowTyped ==
  ASSUME NEW draft \in BOOLEAN, NEW recipe \in Recipes, NEW hit \in HitTypes,
         NEW ka \in AdvantagesOrNull, NEW mat \in 0 .. MaxCombo
  PROVE  LET row == NewComboRow(draft, recipe, hit, ka, mat) IN
           /\ row \in ComboRow
           /\ row.ver = 1 /\ row.st = "live" /\ row.sup = 0 /\ row.mat = mat
           /\ row.draft = draft /\ row.ka = ka /\ row.recipe = recipe /\ row.hit = hit
  BY BoundsAssumption DEF NewComboRow, ComboRow, States

\* The rows an action derives from a row that is there.
LEMMA PatchedRowTyped ==
  ASSUME NEW row \in ComboRow, NEW draft \in BOOLEAN, NEW ka \in AdvantagesOrNull,
         row.ver < MaxVersion
  PROVE  LET new == PatchedRow(row, draft, ka) IN
           /\ new \in ComboRow
           /\ new.ver = row.ver + 1 /\ new.st = row.st /\ new.sup = row.sup /\ new.mat = row.mat
           /\ new.draft = draft /\ new.ka = ka /\ new.recipe = row.recipe /\ new.hit = row.hit
  <1>1. row.ver + 1 \in 0 .. MaxVersion
    BY BoundsAssumption DEF ComboRow
  <1> QED BY <1>1 DEF PatchedRow, ComboRow

Superseded(row, new) == [row EXCEPT !.st = "trash", !.sup = new]

LEMMA SupersededTyped ==
  ASSUME NEW row \in ComboRow, NEW sup \in 0 .. MaxCombo
  PROVE  LET new == Superseded(row, sup) IN
           /\ new \in ComboRow
           /\ new.ver = row.ver /\ new.st = "trash" /\ new.sup = sup /\ new.mat = row.mat
           /\ new.draft = row.draft /\ new.ka = row.ka
           /\ new.recipe = row.recipe /\ new.hit = row.hit
  BY DEF ComboRow, Superseded, States

LEMMA DetachedTyped ==
  ASSUME NEW row \in ComboRow, NEW c
  PROVE  LET new == Detached(row, c) IN
           /\ new \in ComboRow
           /\ new.ver = row.ver /\ new.st = row.st
           /\ new.sup = (IF row.sup = c THEN 0 ELSE row.sup)
           /\ new.mat = (IF row.mat = c THEN 0 ELSE row.mat)
           /\ new.draft = row.draft /\ new.ka = row.ka
           /\ new.recipe = row.recipe /\ new.hit = row.hit
  <1> DEFINE sup == IF row.sup = c THEN 0 ELSE row.sup
             mat == IF row.mat = c THEN 0 ELSE row.mat
  <1>1. sup \in 0 .. MaxCombo /\ mat \in 0 .. MaxCombo
    BY BoundsAssumption DEF ComboRow
  <1>2. Detached(row, c) = [row EXCEPT !.sup = sup, !.mat = mat]
    BY DEF Detached, ComboRow
  <1> HIDE DEF sup, mat
  <1>3. LET new == [row EXCEPT !.sup = sup, !.mat = mat] IN
           /\ new \in ComboRow
           /\ new.ver = row.ver /\ new.st = row.st /\ new.sup = sup /\ new.mat = mat
           /\ new.draft = row.draft /\ new.ka = row.ka
           /\ new.recipe = row.recipe /\ new.hit = row.hit
    BY <1>1 DEF ComboRow
  <1> QED BY <1>2, <1>3 DEF sup, mat

\* The part of TypeOK about the table combos.
CombosTyped == /\ combos \in [ComboIds -> ComboRow]
               /\ \A c \in ComboIds : combos[c].ver # 0 <=> Stored(c)

LEMMA OneComboWritten ==
  ASSUME CombosTyped, NEW c \in ComboIds, NEW row \in ComboRow,
         row.ver # 0 <=> row.st \in {"live", "trash"},
         combos' = [combos EXCEPT ![c] = row]
  PROVE  CombosTyped'
  BY DEF CombosTyped, Stored

LEMMA RequestTyped ==
  ASSUME TypeOK, NEW w \in Workers
  PROVE  /\ requests[w].kind = "link" => requests[w] \in LinkRequest
         /\ requests[w].kind = "curate" => requests[w] \in CurateRequest
         /\ requests[w].kind = "materialize" => requests[w] \in MaterializeRequest
         /\ requests[w].kind = "drain" => requests[w] \in DrainRequest
  BY DEF TypeOK, Requests, Idle, LinkRequest, CurateRequest, MaterializeRequest, DrainRequest

\* What a write does to combos, whichever handler makes it: insert a row, edit
\* one, replace one, throw one away or take it back; or it is PermanentDelete.
Inserted(c, draft, recipe, hit, ka, mat) ==
  /\ NextCombo(c) /\ MaySave(draft, recipe, hit, ka)
  /\ mat = 0 \/ (mat \in ComboIds /\ Stored(mat))
  /\ combos' = [combos EXCEPT ![c] = NewComboRow(draft, recipe, hit, ka, mat)]

Patched(c, draft, ka) ==
  /\ Live(c) /\ combos[c].ver < MaxVersion /\ PatchAllowed(c, draft, ka)
  /\ combos' = [combos EXCEPT ![c] = PatchedRow(combos[c], draft, ka)]

Replaced(old, new, draft, recipe, hit, ka) ==
  /\ Live(old) /\ NextCombo(new) /\ new # old /\ MaySave(draft, recipe, hit, ka)
  /\ combos' = [combos EXCEPT ![old] = Superseded(combos[old], new),
                              ![new] = NewComboRow(draft, recipe, hit, ka, 0)]

Toggled(c, st) ==
  /\ (Live(c) /\ st = "trash") \/ (InTrash(c) /\ st = "live")
  /\ combos' = [combos EXCEPT ![c] = [combos[c] EXCEPT !.st = st]]

ComboRowWrites ==
  \/ \E c \in ComboIds, draft \in BOOLEAN, recipe \in Recipes, hit \in HitTypes,
        ka \in AdvantagesOrNull, mat \in 0 .. MaxCombo : Inserted(c, draft, recipe, hit, ka, mat)
  \/ \E c \in ComboIds, draft \in BOOLEAN, ka \in AdvantagesOrNull : Patched(c, draft, ka)
  \/ \E old, new \in ComboIds, draft \in BOOLEAN, recipe \in Recipes, hit \in HitTypes,
        ka \in AdvantagesOrNull : Replaced(old, new, draft, recipe, hit, ka)
  \/ \E c \in ComboIds, st \in {"live", "trash"} : Toggled(c, st)
  \/ \E c \in ComboIds : PermanentDelete(c)

LEMMA ComboWriteForms ==
  ASSUME TypeOK, [Next]_vars
  PROVE  UNCHANGED combos \/ ComboRowWrites
  <1>0. combos \in [ComboIds -> ComboRow]
    BY DEF TypeOK
  <1>1. ASSUME NEW u \in Users, ComboCreate(u) PROVE ComboRowWrites
    <2>1. PICK draft \in BOOLEAN, ka \in AdvantagesOrNull, recipe \in Recipes, hit \in HitTypes :
            \E tagged, embedded, verified :
              Create(u, draft, recipe, hit, ka, tagged, embedded, verified)
      BY <1>1 DEF ComboCreate
    <2>2. \E c \in ComboIds : Inserted(c, draft, recipe, hit, ka, 0)
      BY <2>1 DEF Create, Inserted
    <2> QED BY <2>2, BoundsAssumption DEF ComboRowWrites
  <1>2. ASSUME NEW u \in Users, NEW draft \in BOOLEAN, NEW ka \in AdvantagesOrNull,
               NEW tagged, NEW asked, NEW keep,
               UpdateMetadata(u, draft, ka, tagged, asked, keep)
        PROVE  ComboRowWrites
    <2>1. forms[u].id \in ComboIds
      BY <1>2 DEF UpdateMetadata, TypeOK, ComboForm, ComboIds
    <2>2. Patched(forms[u].id, draft, ka)
      BY <1>0, <1>2, <2>1 DEF UpdateMetadata, Patched
    <2> QED BY <2>1, <2>2 DEF ComboRowWrites
  <1>3. ASSUME NEW u \in Users, NEW draft \in BOOLEAN, NEW recipe \in Recipes,
               NEW hit \in HitTypes, NEW ka \in AdvantagesOrNull,
               NEW tagged, NEW asked, NEW keep,
               UpdateWithKeyChange(u, draft, recipe, hit, ka, tagged, asked, keep)
        PROVE  ComboRowWrites
    <2> DEFINE old == forms[u].id
               row == NewComboRow(draft, recipe, hit, ka, 0)
    <2>1. old \in ComboIds
      BY <1>3 DEF UpdateWithKeyChange, TypeOK, ComboForm, ComboIds
    <2>2. PICK new \in ComboIds :
            /\ Live(old) /\ NextCombo(new) /\ MaySave(draft, recipe, hit, ka)
            /\ combos' = [combos EXCEPT ![old].st = "trash", ![old].sup = new, ![new] = row]
      BY <1>3 DEF UpdateWithKeyChange
    <2>3. new # old
      BY <2>2 DEF Live, NextCombo
    <2>4. Replaced(old, new, draft, recipe, hit, ka)
      BY <1>0, <2>1, <2>2, <2>3 DEF Replaced, Superseded
    <2> QED BY <2>1, <2>4 DEF ComboRowWrites
  <1>4. ASSUME NEW u \in Users, ComboEdit(u) PROVE ComboRowWrites
    BY <1>2, <1>3, <1>4 DEF ComboEdit
  <1>5. ASSUME NEW c \in ComboIds, Delete(c) \/ Restore(c) PROVE ComboRowWrites
    <2>1. \E st \in {"live", "trash"} : Toggled(c, st)
      BY <1>0, <1>5 DEF Delete, Restore, Toggled
    <2> QED BY <2>1 DEF ComboRowWrites
  <1>6. ASSUME NEW c \in ComboIds, PermanentDelete(c) PROVE ComboRowWrites
    BY <1>6 DEF ComboRowWrites
  <1>7. ASSUME NEW w \in Workers, MaterializeGenerate(w) PROVE ComboRowWrites
    <2> DEFINE q == requests[w]
    <2>1. /\ q.draft \in BOOLEAN /\ q.recipe \in Recipes /\ q.ka \in AdvantagesOrNull
          /\ q.base \in ComboIds /\ q.base \in 0 .. MaxCombo /\ "punish" \in HitTypes
      BY <1>7, RequestTyped DEF MaterializeGenerate, MaterializeRequest, ComboIds, HitTypes
    <2>2. \E c \in ComboIds : Inserted(c, q.draft, q.recipe, "punish", q.ka, q.base)
      BY <1>7, <2>1 DEF MaterializeGenerate, MayGenerate, MaySave, Inserted
    <2> QED BY <2>1, <2>2 DEF ComboRowWrites
  <1> QED BY CombosWritten, <1>1, <1>4, <1>5, <1>6, <1>7 DEF ComboWrites

LEMMA CombosTypeStep ==
  ASSUME TypeOK, [Next]_vars
  PROVE  CombosTyped'
  <1>0. CombosTyped
    BY DEF TypeOK, CombosTyped
  <1>1. ASSUME NEW c \in ComboIds, NEW draft \in BOOLEAN, NEW recipe \in Recipes,
               NEW hit \in HitTypes, NEW ka \in AdvantagesOrNull, NEW mat \in 0 .. MaxCombo,
               Inserted(c, draft, recipe, hit, ka, mat)
        PROVE  CombosTyped'
    <2>1. LET row == NewComboRow(draft, recipe, hit, ka, mat) IN
            row \in ComboRow /\ row.ver # 0 /\ row.st = "live"
      BY NewComboRowTyped
    <2> QED BY <1>0, <1>1, <2>1, OneComboWritten DEF Inserted
  <1>2. ASSUME NEW c \in ComboIds, NEW draft \in BOOLEAN, NEW ka \in AdvantagesOrNull,
               Patched(c, draft, ka)
        PROVE  CombosTyped'
    <2>1. LET row == PatchedRow(combos[c], draft, ka) IN
            row \in ComboRow /\ row.ver # 0 /\ row.st = "live"
      BY <1>0, <1>2, PatchedRowTyped, BoundsAssumption DEF Patched, CombosTyped, ComboRow, Live
    <2> QED BY <1>0, <1>2, <2>1, OneComboWritten DEF Patched
  <1>3. ASSUME NEW old \in ComboIds, NEW new \in ComboIds, NEW draft \in BOOLEAN,
               NEW recipe \in Recipes, NEW hit \in HitTypes, NEW ka \in AdvantagesOrNull,
               Replaced(old, new, draft, recipe, hit, ka)
        PROVE  CombosTyped'
    <2> DEFINE row == NewComboRow(draft, recipe, hit, ka, 0)
               left == Superseded(combos[old], new)
    <2>1. row \in ComboRow /\ row.ver # 0 /\ row.st = "live"
      BY NewComboRowTyped, BoundsAssumption
    <2>2. combos[old] \in ComboRow /\ new \in 0 .. MaxCombo /\ combos[old].ver # 0
      BY <1>0, <1>3 DEF CombosTyped, ComboIds, Replaced, Live, Stored
    <2>3. left \in ComboRow /\ left.st = "trash" /\ left.ver = combos[old].ver
      BY <2>2, SupersededTyped
    <2>4. combos' = [combos EXCEPT ![old] = left, ![new] = row] /\ new # old
      BY <1>3 DEF Replaced
    <2> HIDE DEF row, left
    <2> QED BY <1>0, <2>1, <2>2, <2>3, <2>4 DEF CombosTyped, Stored
  <1>4. ASSUME NEW c \in ComboIds, NEW st \in {"live", "trash"}, Toggled(c, st) PROVE CombosTyped'
    <2>1. LET row == [combos[c] EXCEPT !.st = st] IN row \in ComboRow /\ row.ver # 0 /\ row.st = st
      BY <1>0, <1>4 DEF CombosTyped, ComboRow, States, Toggled, Live, InTrash, Stored
    <2> QED BY <1>0, <1>4, <2>1, OneComboWritten DEF Toggled
  <1>5. ASSUME NEW c \in ComboIds, PermanentDelete(c) PROVE CombosTyped'
    <2>1. ASSUME NEW d \in ComboIds
          PROVE  combos'[d] \in ComboRow /\ (combos'[d].ver # 0 <=> Stored(d)')
      <3>1. combos[d] \in ComboRow /\ "gone" \in States
        BY <1>0 DEF CombosTyped, States
      <3>2. CASE d = c
        BY <1>5, <3>1, <3>2, NoComboRowTyped DEF PermanentDelete, Stored
      <3>3. CASE d # c
        BY <1>0, <1>5, <3>1, <3>3, DetachedTyped DEF PermanentDelete, Stored, CombosTyped
      <3> QED BY <3>2, <3>3
    <2> QED BY <1>5, <2>1 DEF CombosTyped, PermanentDelete
  <1>6. CASE UNCHANGED combos
    BY <1>0, <1>6 DEF CombosTyped, Stored
  <1> QED BY ComboWriteForms, <1>1, <1>2, <1>3, <1>4, <1>5, <1>6 DEF ComboRowWrites

\* The part of TypeOK about the table setups.
SetupsTyped == /\ setups \in [SetupIds -> SetupRow]
               /\ \A s \in SetupIds : setups[s].ver # 0 <=> StoredSetup(s)

LEMMA OneSetupWritten ==
  ASSUME SetupsTyped, NEW s \in SetupIds, NEW row \in SetupRow,
         row.ver # 0 <=> row.st \in {"live", "trash"},
         setups' = [setups EXCEPT ![s] = row]
  PROVE  SetupsTyped'
  BY DEF SetupsTyped, StoredSetup

LEMMA NewSetupRowTyped ==
  ASSUME NEW recipe \in SetupRecipes
  PROVE  LET row == [st |-> "live", ver |-> 1, recipe |-> recipe] IN
           row \in SetupRow /\ row.ver # 0 /\ row.st = "live"
  BY BoundsAssumption DEF SetupRow, States

LEMMA EditedSetupRowTyped ==
  ASSUME NEW row \in SetupRow, NEW recipe \in SetupRecipes, row.ver + 1 \in 0 .. MaxVersion
  PROVE  LET new == [row EXCEPT !.recipe = recipe, !.ver = @ + 1] IN
           new \in SetupRow /\ new.ver = row.ver + 1 /\ new.st = row.st
  BY DEF SetupRow

LEMMA SetupsTypeStep ==
  ASSUME TypeOK, [Next]_vars
  PROVE  SetupsTyped'
  <1>0. SetupsTyped
    BY DEF TypeOK, SetupsTyped
  <1>1. ASSUME NEW u \in Users, ComboCreate(u) PROVE SetupsTyped'
    <2>1. PICK embedded \in EmbeddedSetups :
            \E draft, recipe, hit, ka, tagged, verified :
              Create(u, draft, recipe, hit, ka, tagged, embedded, verified)
      BY <1>1 DEF ComboCreate
    <2>2. \A s \in DOMAIN embedded : s \in SetupIds /\ embedded[s] \in SetupRecipes
      BY DEF EmbeddedSetups
    <2>3. setups' = [s \in SetupIds |->
                       IF s \in DOMAIN embedded
                         THEN [st |-> "live", ver |-> 1, recipe |-> embedded[s]]
                         ELSE setups[s]]
      BY <2>1 DEF Create
    <2>4. ASSUME NEW s \in SetupIds
          PROVE  setups'[s] \in SetupRow /\ (setups'[s].ver # 0 <=> StoredSetup(s)')
      BY <1>0, <2>2, <2>3, NewSetupRowTyped DEF SetupsTyped, StoredSetup
    <2> QED BY <2>3, <2>4 DEF SetupsTyped
  <1>2. ASSUME NEW c \in ComboIds, NEW s \in SetupIds, NEW recipe \in SetupRecipes,
               NEW verified \in BOOLEAN, CreateSetup(s, c, recipe, verified)
        PROVE  SetupsTyped'
    BY <1>0, <1>2, NewSetupRowTyped, OneSetupWritten DEF CreateSetup
  <1>3. ASSUME NEW u \in Users, NEW recipe \in SetupRecipes, UpdateSetup(u, recipe)
        PROVE  SetupsTyped'
    <2> DEFINE s == setupForms[u].id
               row == [setups[s] EXCEPT !.recipe = recipe, !.ver = @ + 1]
    <2>1. s \in SetupIds
      BY <1>3 DEF UpdateSetup, TypeOK, SetupForm, SetupIds
    <2>2. /\ setups' = [setups EXCEPT ![s] = row]
          /\ LiveSetup(s) /\ setups[s].ver < MaxVersion
      BY <1>0, <1>3, <2>1 DEF UpdateSetup, SetupsTyped
    <2>3. /\ setups[s] \in SetupRow
          /\ setups[s].ver + 1 \in 0 .. MaxVersion /\ setups[s].ver + 1 # 0
          /\ setups[s].st = "live"
      BY <1>0, <2>1, <2>2, BoundsAssumption DEF SetupsTyped, SetupRow, LiveSetup
    <2>4. row \in SetupRow /\ row.ver # 0 /\ row.st = "live"
      BY <2>3, EditedSetupRowTyped
    <2> QED BY <1>0, <2>1, <2>2, <2>4, OneSetupWritten
  <1>4. ASSUME NEW s \in SetupIds, NEW c, DeleteSetup(s, c) \/ RestoreSetup(s) PROVE SetupsTyped'
    <2>1. PICK st \in {"live", "trash"} :
            StoredSetup(s) /\ setups' = [setups EXCEPT ![s] = [setups[s] EXCEPT !.st = st]]
      BY <1>0, <1>4 DEF DeleteSetup, RestoreSetup, LiveSetup, SetupInTrash, StoredSetup, SetupsTyped
    <2>2. LET row == [setups[s] EXCEPT !.st = st] IN row \in SetupRow /\ row.ver # 0 /\ row.st = st
      BY <1>0, <2>1 DEF SetupsTyped, SetupRow, States
    <2> QED BY <1>0, <2>1, <2>2, OneSetupWritten
  <1>5. ASSUME NEW s \in SetupIds, PermanentDeleteSetup(s) PROVE SetupsTyped'
    <2>1. "gone" \in States
      BY DEF States
    <2> QED BY <1>0, <1>5, <2>1, NoSetupRowTyped, OneSetupWritten DEF PermanentDeleteSetup
  <1>6. CASE UNCHANGED setups
    BY <1>0, <1>6 DEF SetupsTyped, StoredSetup
  <1> QED BY SetupsWritten, <1>1, <1>2, <1>3, <1>4, <1>5, <1>6 DEF SetupWrites

\* The part of TypeOK about the association tables.
LinksTyped == links \subseteq ComboIds \X SetupIds /\ results \subseteq ComboIds \X SetupIds
RowsTyped == /\ tags \subseteq ComboIds \X Users
             /\ punishes \subseteq ComboIds \X OppMoves
             /\ curations \subseteq ComboIds \X OppMoves

LEMMA MovedTyped ==
  ASSUME NEW T, NEW rel \in SUBSET (ComboIds \X T), NEW old, NEW new \in ComboIds
  PROVE  Moved(rel, old, new) \subseteq ComboIds \X T
  BY DEF Moved

LEMMA RetaggedTyped ==
  ASSUME tags \subseteq ComboIds \X Users, NEW c \in ComboIds, NEW u \in Users, NEW tagged
  PROVE  Retagged(c, u, tagged) \subseteq ComboIds \X Users
  BY DEF Retagged

LEMMA LinksTypeStep ==
  ASSUME TypeOK, [Next]_vars
  PROVE  LinksTyped'
  <1>0. LinksTyped
    BY DEF TypeOK, LinksTyped
  <1>1. ASSUME NEW u \in Users, ComboCreate(u) PROVE LinksTyped'
    <2>1. PICK embedded \in EmbeddedSetups :
            \E draft, recipe, hit, ka, tagged : \E verified \in SUBSET DOMAIN embedded :
              Create(u, draft, recipe, hit, ka, tagged, embedded, verified)
      BY <1>1 DEF ComboCreate
    <2>2. DOMAIN embedded \subseteq SetupIds
      BY DEF EmbeddedSetups
    <2>3. PICK c \in ComboIds, verified \in SUBSET DOMAIN embedded :
                                /\ links' = links \cup {<<c, s>> : s \in DOMAIN embedded}
                                /\ results' = results \cup {<<c, s>> : s \in verified}
      BY <2>1 DEF Create
    <2> QED BY <1>0, <2>2, <2>3 DEF LinksTyped
  <1>2. ASSUME NEW u, NEW draft, NEW ka, NEW tagged, NEW asked, NEW keep,
               UpdateMetadata(u, draft, ka, tagged, asked, keep)
        PROVE  LinksTyped'
    BY <1>0, <1>2 DEF UpdateMetadata, LinksTyped
  <1>3. ASSUME NEW u, NEW draft, NEW recipe, NEW hit, NEW ka, NEW tagged, NEW asked, NEW keep,
               UpdateWithKeyChange(u, draft, recipe, hit, ka, tagged, asked, keep)
        PROVE  LinksTyped'
    <2> DEFINE dropped == IF asked THEN Dropped(forms[u].id, keep) ELSE {}
    <2>1. PICK new \in ComboIds :
            /\ links' = Moved(links \ dropped, forms[u].id, new)
            /\ results' = Moved(results \ dropped, forms[u].id, new)
      BY <1>3 DEF UpdateWithKeyChange
    <2> HIDE DEF dropped
    <2>2. links \ dropped \in SUBSET (ComboIds \X SetupIds)
            /\ results \ dropped \in SUBSET (ComboIds \X SetupIds)
      BY <1>0 DEF LinksTyped
    <2> QED BY <2>1, <2>2, MovedTyped DEF LinksTyped
  <1>4. CASE ComboNext
    <2>1. ASSUME NEW c \in ComboIds, Delete(c) \/ Restore(c) \/ PermanentDelete(c) PROVE LinksTyped'
      BY <1>0, <2>1 DEF Delete, Restore, PermanentDelete, LinksTyped, linkTables
    <2>2. ASSUME NEW u \in Users,
                 RefetchForm(u) \/ CloseForm(u) \/ \E c \in ComboIds : OpenForm(u, c)
          PROVE  LinksTyped'
      BY <1>0, <2>2 DEF RefetchForm, CloseForm, OpenForm, LinksTyped, linkTables
    <2>3. ASSUME NEW u \in Users, ComboEdit(u) PROVE LinksTyped'
      BY <2>3, <1>2, <1>3 DEF ComboEdit
    <2> QED BY <1>1, <1>4, <2>1, <2>2, <2>3 DEF ComboNext
  <1>5. CASE SetupNext
    <2>1. ASSUME NEW w \in Workers, LinkInsert(w) PROVE LinksTyped'
      BY <1>0, <2>1, RequestTyped DEF LinkInsert, LinkRequest, LinksTyped
    <2>2. ASSUME NEW c \in ComboIds, NEW s \in SetupIds, NEW recipe, NEW verified,
                 CreateSetup(s, c, recipe, verified)
          PROVE  LinksTyped'
      BY <1>0, <2>2 DEF CreateSetup, LinksTyped
    <2>3. ASSUME NEW c \in ComboIds, NEW s \in SetupIds,
                 DeleteSetupLink(c, s) \/ UpsertResult(c, s) \/ DeleteResult(c, s)
          PROVE  LinksTyped'
      BY <1>0, <2>3 DEF DeleteSetupLink, UpsertResult, DeleteResult, LinksTyped
    <2>4. ASSUME NEW s, NEW c, DeleteSetup(s, c) \/ RestoreSetup(s) \/ PermanentDeleteSetup(s)
          PROVE  LinksTyped'
      BY <1>0, <2>4 DEF DeleteSetup, RestoreSetup, PermanentDeleteSetup, LinksTyped, linkTables
    <2>5. ASSUME NEW u, NEW recipe, UpdateSetup(u, recipe) PROVE LinksTyped'
      BY <1>0, <2>5 DEF UpdateSetup, LinksTyped, linkTables
    <2>6. ASSUME NEW u, NEW w, NEW c, NEW s, OpenSetupForm(u, s) \/ LinkCheck(w, c, s)
          PROVE  LinksTyped'
      BY <1>0, <2>6 DEF OpenSetupForm, LinkCheck, LinksTyped, linkTables
    <2> QED BY <1>5, <2>1, <2>2, <2>3, <2>4, <2>5, <2>6 DEF SetupNext
  <1>6. CASE PunishNext
    BY <1>0, <1>6, PunishSteps DEF LinksTyped
  <1>7. CASE UNCHANGED vars
    BY <1>0, <1>7 DEF vars, LinksTyped
  <1> QED BY <1>4, <1>5, <1>6, <1>7 DEF Next

LEMMA RowsTypeStep ==
  ASSUME TypeOK, [Next]_vars
  PROVE  RowsTyped'
  <1>0. RowsTyped
    BY DEF TypeOK, RowsTyped
  <1>1. ASSUME NEW u \in Users, ComboCreate(u) PROVE RowsTyped'
    <2>1. PICK c \in ComboIds :
            UNCHANGED <<punishes, curations>> /\ \E tagged : tags' = Retagged(c, u, tagged)
      BY <1>1 DEF ComboCreate, Create, punishTables
    <2> QED BY <1>0, <2>1, RetaggedTyped DEF RowsTyped
  <1>2. ASSUME NEW u \in Users, NEW draft, NEW ka, NEW tagged, NEW asked, NEW keep,
               UpdateMetadata(u, draft, ka, tagged, asked, keep)
        PROVE  RowsTyped'
    <2>1. forms[u].id \in ComboIds
      BY <1>2 DEF UpdateMetadata, TypeOK, ComboForm, ComboIds
    <2>2. UNCHANGED <<punishes, curations>> /\ tags' = Retagged(forms[u].id, u, tagged)
      BY <1>2 DEF UpdateMetadata, punishTables
    <2> QED BY <1>0, <2>1, <2>2, RetaggedTyped DEF RowsTyped
  <1>3. ASSUME NEW u \in Users, NEW draft, NEW recipe, NEW hit, NEW ka, NEW tagged, NEW asked,
               NEW keep, UpdateWithKeyChange(u, draft, recipe, hit, ka, tagged, asked, keep)
        PROVE  RowsTyped'
    <2>1. PICK new \in ComboIds :
            /\ punishes' = Moved(punishes, forms[u].id, new)
            /\ curations' = Moved(curations, forms[u].id, new)
            /\ tags' = IF tagged THEN Retagged(new, u, TRUE) ELSE tags
      BY <1>3 DEF UpdateWithKeyChange
    <2>2. punishes \in SUBSET (ComboIds \X OppMoves) /\ curations \in SUBSET (ComboIds \X OppMoves)
      BY <1>0 DEF RowsTyped
    <2> QED BY <1>0, <2>1, <2>2, MovedTyped, RetaggedTyped DEF RowsTyped
  <1>4. ASSUME NEW c \in ComboIds, Delete(c) \/ Restore(c) \/ PermanentDelete(c) PROVE RowsTyped'
    BY <1>0, <1>4 DEF Delete, Restore, PermanentDelete, RowsTyped, punishTables
  <1>5. ASSUME NEW u \in Users, RefetchForm(u) \/ CloseForm(u) \/ \E c \in ComboIds : OpenForm(u, c)
        PROVE  RowsTyped'
    BY <1>0, <1>5 DEF RefetchForm, CloseForm, OpenForm, RowsTyped, punishTables
  <1>6. CASE ComboNext
    <2>1. ASSUME NEW u \in Users, ComboEdit(u) PROVE RowsTyped'
      BY <2>1, <1>2, <1>3 DEF ComboEdit
    <2> QED BY <1>6, <2>1, <1>1, <1>4, <1>5 DEF ComboNext
  <1>7. CASE SetupNext
    BY <1>0, <1>7, SetupSteps DEF RowsTyped
  <1>8. CASE PunishNext
    <2>1. ASSUME NEW c \in ComboIds, NEW m \in OppMoves,
                 AddPunish(c, m) \/ RemovePunish(c, m) \/ RemoveCuration(c, m)
          PROVE  RowsTyped'
      BY <1>0, <2>1 DEF AddPunish, RemovePunish, RemoveCuration, RowsTyped
    <2>2. ASSUME NEW w, NEW c, NEW m, CurateCheck(w, c, m) PROVE RowsTyped'
      BY <1>0, <2>2 DEF CurateCheck, RowsTyped, punishTables
    <2>3. ASSUME NEW w, NEW u, NEW c, NEW m, MaterializeRead(w, u, c, m) PROVE RowsTyped'
      BY <1>0, <2>3 DEF MaterializeRead, RowsTyped, punishTables
    <2>4. ASSUME NEW w \in Workers, AddCuration(w) PROVE RowsTyped'
      <3>1. requests[w].combo \in ComboIds /\ requests[w].move \in OppMoves
        BY <2>4, RequestTyped DEF AddCuration, CurateRequest
      <3> QED BY <1>0, <2>4, <3>1 DEF AddCuration, RowsTyped
    <2>5. ASSUME NEW w \in Workers, MaterializeExisting(w) \/ Abandon(w) PROVE RowsTyped'
      BY <1>0, <2>5 DEF MaterializeExisting, Abandon, RowsTyped, punishTables
    <2>6. ASSUME NEW w \in Workers, DrainBasePunish(w) PROVE RowsTyped'
      BY <1>0, <2>6 DEF DrainBasePunish, RowsTyped
    <2>7. ASSUME NEW w \in Workers, MaterializeGenerate(w) PROVE RowsTyped'
      <3> DEFINE q == requests[w]
      <3>1. q.user \in Users /\ q.move \in OppMoves
        BY <2>7, RequestTyped DEF MaterializeGenerate, MaterializeRequest
      <3>2. PICK c \in ComboIds :
              /\ tags' = Retagged(c, q.user, q.tagged)
              /\ punishes' = (punishes \cup {<<c, q.move>>}) \ {<<q.base, q.move>>}
              /\ curations' = curations \ {<<q.base, q.move>>}
        BY <2>7 DEF MaterializeGenerate
      <3> HIDE DEF q
      <3>3. tags' \subseteq ComboIds \X Users
        BY <1>0, <3>1, <3>2, RetaggedTyped DEF RowsTyped
      <3> QED BY <1>0, <3>1, <3>2, <3>3 DEF RowsTyped
    <2> QED BY <1>8, <2>1, <2>2, <2>3, <2>4, <2>5, <2>6, <2>7 DEF PunishNext
  <1>9. CASE UNCHANGED vars
    BY <1>0, <1>9 DEF vars, RowsTyped
  <1> QED BY <1>6, <1>7, <1>8, <1>9 DEF Next

\* The part of TypeOK about the clients and the requests under way.
EditorsTyped == /\ forms \in [Users -> ComboForm]
                /\ setupForms \in [Users -> SetupForm]
                /\ requests \in [Workers -> Requests]

LEMMA ClosedTyped ==
  NoForm \in ComboForm /\ NoSetupForm \in SetupForm /\ Idle \in Requests
  BY BoundsAssumption DEF NoForm, ComboForm, NoSetupForm, SetupForm, Idle, Requests, AdvantagesOrNull

LEMMA EditorsTypeStep ==
  ASSUME TypeOK, [Next]_vars
  PROVE  EditorsTyped'
  <1>0. EditorsTyped
    BY DEF TypeOK, EditorsTyped
  <1>1. CASE ComboNext
    <2>1. ASSUME NEW u \in Users, ComboCreate(u) PROVE forms' = forms
      BY <2>1 DEF ComboCreate, Create, editors
    <2>2. ASSUME NEW u \in Users, ComboEdit(u) PROVE forms' = [forms EXCEPT ![u] = NoForm]
      <3>1. ASSUME NEW draft, NEW ka, NEW tagged, NEW asked, NEW keep,
                   UpdateMetadata(u, draft, ka, tagged, asked, keep)
            PROVE  forms' = [forms EXCEPT ![u] = NoForm]
        BY <3>1 DEF UpdateMetadata
      <3>2. ASSUME NEW draft, NEW recipe, NEW hit, NEW ka, NEW tagged, NEW asked, NEW keep,
                   UpdateWithKeyChange(u, draft, recipe, hit, ka, tagged, asked, keep)
            PROVE  forms' = [forms EXCEPT ![u] = NoForm]
        BY <3>2 DEF UpdateWithKeyChange
      <3> QED BY <2>2, <3>1, <3>2 DEF ComboEdit
    <2>3. ASSUME NEW u \in Users, CloseForm(u) PROVE forms' = [forms EXCEPT ![u] = NoForm]
      BY <2>3 DEF CloseForm
    <2>4. ASSUME NEW u \in Users, NEW c \in ComboIds, OpenForm(u, c)
          PROVE  \E f \in ComboForm : forms' = [forms EXCEPT ![u] = f]
      <3> DEFINE f == [id |-> c, ver |-> combos[c].ver, shown |-> combos[c].ver,
                       draft |-> combos[c].draft, ka |-> combos[c].ka]
      <3>1. combos[c] \in ComboRow
        BY DEF TypeOK
      <3>2. f \in ComboForm
        BY <3>1 DEF ComboRow, ComboForm, ComboIds
      <3> QED BY <2>4, <3>2 DEF OpenForm
    <2>5. ASSUME NEW c \in ComboIds, Delete(c) \/ Restore(c) \/ PermanentDelete(c)
          PROVE  forms' = forms
      BY <2>5 DEF Delete, Restore, PermanentDelete, editors
    <2>6. ASSUME NEW u \in Users, RefetchForm(u)
          PROVE  \E f \in ComboForm : forms' = [forms EXCEPT ![u] = f]
      <3> DEFINE f == [forms[u] EXCEPT !.ver = combos[forms[u].id].ver]
      <3>1. forms[u] \in ComboForm /\ combos[forms[u].id] \in ComboRow
        BY <2>6 DEF RefetchForm, TypeOK, ComboForm, ComboIds
      <3>2. f \in ComboForm
        BY <3>1 DEF ComboRow, ComboForm
      <3>3. forms' = [forms EXCEPT ![u] = f]
        BY <1>0, <2>6 DEF RefetchForm, EditorsTyped
      <3> QED BY <3>2, <3>3
    <2>7. forms' = forms \/ \E u \in Users, f \in ComboForm : forms' = [forms EXCEPT ![u] = f]
      BY <1>1, <2>1, <2>2, <2>3, <2>4, <2>5, <2>6, ClosedTyped DEF ComboNext
    <2> QED BY <1>0, <1>1, <2>7, ComboSteps DEF EditorsTyped
  <1>2. CASE SetupNext
    <2>1. ASSUME NEW w \in Workers, NEW c \in ComboIds, NEW s \in SetupIds, LinkCheck(w, c, s)
          PROVE  EditorsTyped'
      BY <1>0, <2>1 DEF LinkCheck, EditorsTyped, Requests, LinkRequest, editors
    <2>2. ASSUME NEW w \in Workers, LinkInsert(w) PROVE EditorsTyped'
      BY <1>0, <2>2, ClosedTyped DEF LinkInsert, EditorsTyped, editors
    <2>3. ASSUME NEW u \in Users, NEW s \in SetupIds, OpenSetupForm(u, s) PROVE EditorsTyped'
      <3>0. setups[s] \in SetupRow
        BY DEF TypeOK
      <3>1. [id |-> s, ver |-> setups[s].ver] \in SetupForm
        BY <3>0 DEF SetupRow, SetupForm, SetupIds
      <3> QED BY <1>0, <2>3, <3>1 DEF OpenSetupForm, EditorsTyped
    <2>4. ASSUME NEW u \in Users, NEW recipe, UpdateSetup(u, recipe) PROVE EditorsTyped'
      BY <1>0, <2>4, ClosedTyped DEF UpdateSetup, EditorsTyped
    <2>5. ASSUME NEW c, NEW s, NEW recipe, NEW verified,
                 \/ CreateSetup(s, c, recipe, verified)
                 \/ DeleteSetupLink(c, s) \/ UpsertResult(c, s) \/ DeleteResult(c, s)
                 \/ DeleteSetup(s, c) \/ RestoreSetup(s) \/ PermanentDeleteSetup(s)
          PROVE  EditorsTyped'
      BY <1>0, <2>5 DEF CreateSetup, DeleteSetupLink, UpsertResult, DeleteResult, DeleteSetup,
           RestoreSetup, PermanentDeleteSetup, EditorsTyped, editors
    <2> QED BY <1>2, <2>1, <2>2, <2>3, <2>4, <2>5 DEF SetupNext
  <1>3. CASE PunishNext
    <2>0. UNCHANGED <<forms, setupForms>>
      BY <1>3, PunishSteps
    <2>1. ASSUME NEW w \in Workers,
                 AddCuration(w) \/ DrainBasePunish(w) \/ MaterializeGenerate(w) \/ Abandon(w)
          PROVE  requests' = [requests EXCEPT ![w] = Idle]
      BY <2>1 DEF AddCuration, DrainBasePunish, MaterializeGenerate, Abandon
    <2>2. ASSUME NEW w \in Workers, NEW c \in ComboIds, NEW m \in OppMoves, CurateCheck(w, c, m)
          PROVE  \E q \in Requests : requests' = [requests EXCEPT ![w] = q]
      BY <2>2 DEF CurateCheck, Requests, CurateRequest
    <2>3. ASSUME NEW w \in Workers, NEW u \in Users, NEW c \in ComboIds, NEW m \in OppMoves,
                 MaterializeRead(w, u, c, m)
          PROVE  \E q \in Requests : requests' = [requests EXCEPT ![w] = q]
      <3>1. combos[c] \in ComboRow
        BY DEF TypeOK
      <3>2. [kind |-> "materialize", base |-> c, draft |-> combos[c].draft,
             recipe |-> combos[c].recipe, ka |-> combos[c].ka,
             user |-> u, tagged |-> <<c, u>> \in tags, move |-> m] \in MaterializeRequest
        BY <3>1 DEF ComboRow, MaterializeRequest
      <3> QED BY <2>3, <3>2 DEF MaterializeRead, Requests
    <2>4. ASSUME NEW w \in Workers, MaterializeExisting(w)
          PROVE  \E q \in Requests : requests' = [requests EXCEPT ![w] = q]
      <3>1. requests[w] \in MaterializeRequest
        BY <2>4, RequestTyped DEF MaterializeExisting
      <3>2. [kind |-> "drain", base |-> requests[w].base, move |-> requests[w].move] \in DrainRequest
        BY <3>1 DEF MaterializeRequest, DrainRequest
      <3> QED BY <2>4, <3>2 DEF MaterializeExisting, Requests
    <2>5. ASSUME NEW c, NEW m, AddPunish(c, m) \/ RemovePunish(c, m) \/ RemoveCuration(c, m)
          PROVE  requests' = requests
      BY <2>5 DEF AddPunish, RemovePunish, RemoveCuration
    <2>6. \/ requests' = requests
          \/ \E w \in Workers, q \in Requests : requests' = [requests EXCEPT ![w] = q]
      BY <1>3, <2>1, <2>2, <2>3, <2>4, <2>5, ClosedTyped DEF PunishNext
    <2> QED BY <1>0, <2>0, <2>6 DEF EditorsTyped
  <1>4. CASE UNCHANGED vars
    BY <1>0, <1>4 DEF vars, EditorsTyped
  <1> QED BY <1>1, <1>2, <1>3, <1>4 DEF Next

LEMMA InitTyped ==
  ASSUME Init
  PROVE  TypeOK
  <1>1. \A c \in ComboIds : combos[c] = NoComboRow("none")
    BY DEF Init
  <1>2. \A s \in SetupIds : setups[s] = NoSetupRow("none")
    BY DEF Init
  <1>3. NoComboRow("none") \in ComboRow /\ NoComboRow("none").st = "none"
          /\ NoComboRow("none").ver = 0
    BY NoComboRowTyped DEF States
  <1>4. NoSetupRow("none") \in SetupRow /\ NoSetupRow("none").st = "none"
          /\ NoSetupRow("none").ver = 0
    BY NoSetupRowTyped DEF States
  <1> QED BY <1>1, <1>2, <1>3, <1>4, ClosedTyped DEF Init, TypeOK, Stored, StoredSetup

LEMMA TypeStep ==
  ASSUME TypeOK, [Next]_vars
  PROVE  TypeOK'
  BY CombosTypeStep, SetupsTypeStep, LinksTypeStep, RowsTypeStep, EditorsTypeStep
     DEF TypeOK, CombosTyped, SetupsTyped, LinksTyped, RowsTyped, EditorsTyped

\* Every reachable state is well typed, and a row has a version (at least 1)
\* exactly while it is stored: NewComboRow and the edits never lose it.
THEOREM TypeCorrect == Spec => []TypeOK
  BY InitTyped, TypeStep, PTL DEF Spec

-------------------------------------------------------------------------------
(* References.                                                               *)

\* Ids are allocated upwards: below an allocated id all are allocated.
AllocOrder == \A c, d \in ComboIds : c < d /\ combos[d].st # "none" => combos[c].st # "none"

\* The part of ReferencesHold about the columns of combos.
ChainsHold ==
  \A c \in ComboIds :
    /\ combos[c].sup # 0 => combos[c].sup > c /\ Stored(combos[c].sup)
    /\ combos[c].mat # 0 => combos[c].mat < c /\ Stored(combos[c].mat)

\* The parts about the association tables.
LinksHold == /\ \A p \in links : Stored(p[1]) /\ StoredSetup(p[2])
             /\ results \subseteq links
RowsHold == \A p \in tags \cup punishes \cup curations : Stored(p[1])

\* How the state of one combo may change in a step.
StateStep(c) ==
  /\ Stored(c) => combos'[c].st \in {"live", "trash"} \/ PermanentDelete(c)
  /\ combos[c].st # "none" => combos'[c].st # "none"
  /\ combos[c].st = "none" /\ combos'[c].st # "none" => NextCombo(c)

LEMMA ComboStates ==
  ASSUME TypeOK, [Next]_vars, NEW c \in ComboIds
  PROVE  StateStep(c)
  <1>0. combos \in [ComboIds -> ComboRow]
    BY DEF TypeOK
  <1>1. ASSUME NEW d \in ComboIds, NEW draft \in BOOLEAN, NEW recipe \in Recipes,
               NEW hit \in HitTypes, NEW ka \in AdvantagesOrNull, NEW mat \in 0 .. MaxCombo,
               Inserted(d, draft, recipe, hit, ka, mat)
        PROVE  StateStep(c)
    BY <1>0, <1>1, NewComboRowTyped DEF StateStep, Inserted, NextCombo, Stored
  <1>2. ASSUME NEW d \in ComboIds, NEW draft \in BOOLEAN, NEW ka \in AdvantagesOrNull,
               Patched(d, draft, ka)
        PROVE  StateStep(c)
    BY <1>0, <1>2, PatchedRowTyped DEF StateStep, Patched, Live, Stored
  <1>3. ASSUME NEW old \in ComboIds, NEW new \in ComboIds, NEW draft \in BOOLEAN,
               NEW recipe \in Recipes, NEW hit \in HitTypes, NEW ka \in AdvantagesOrNull,
               Replaced(old, new, draft, recipe, hit, ka)
        PROVE  StateStep(c)
    <2>1. Superseded(combos[old], new).st = "trash"
      BY <1>0, SupersededTyped DEF ComboIds
    <2>2. NewComboRow(draft, recipe, hit, ka, 0).st = "live"
      BY DEF NewComboRow
    <2> QED BY <1>0, <1>3, <2>1, <2>2 DEF StateStep, Replaced, Live, NextCombo, Stored
  <1>4. ASSUME NEW d \in ComboIds, NEW st \in {"live", "trash"}, Toggled(d, st) PROVE StateStep(c)
    <2>1. [combos[d] EXCEPT !.st = st].st = st
      BY <1>0 DEF ComboRow
    <2> QED BY <1>0, <1>4, <2>1 DEF StateStep, Toggled, Live, InTrash, Stored
  <1>5. ASSUME NEW d \in ComboIds, PermanentDelete(d) PROVE StateStep(c)
    <2>1. CASE c = d
      BY <1>5, <2>1, <1>0 DEF StateStep, PermanentDelete, InTrash, NoComboRow
    <2>2. CASE c # d
      <3>1. combos'[c].st = combos[c].st
        BY <1>0, <1>5, <2>2, DetachedTyped DEF PermanentDelete
      <3> QED BY <3>1 DEF StateStep, Stored
    <2> QED BY <2>1, <2>2
  <1>6. CASE UNCHANGED combos
    BY <1>6 DEF StateStep, Stored
  <1> QED BY ComboWriteForms, <1>1, <1>2, <1>3, <1>4, <1>5, <1>6 DEF ComboRowWrites

LEMMA AllocStep ==
  ASSUME TypeOK, AllocOrder, [Next]_vars
  PROVE  AllocOrder'
  BY ComboStates DEF StateStep, AllocOrder, NextCombo

LEMMA ChainsStep ==
  ASSUME TypeOK, AllocOrder, ChainsHold, [Next]_vars
  PROVE  ChainsHold'
  <1>0. combos \in [ComboIds -> ComboRow] /\ ComboIds \subseteq Nat
    BY DEF TypeOK, ComboIds
  <1>a. ASSUME NEW c \in ComboIds, Stored(c), combos'[c].st # "gone" PROVE Stored(c)'
    BY <1>0, <1>a, ComboStates DEF StateStep, Stored, PermanentDelete, NoComboRow
  <1>b. ASSUME NEW c \in ComboIds, NEW d \in ComboIds, NextCombo(c), combos[d].st # "none"
        PROVE  d < c
    BY <1>0, <1>b DEF AllocOrder, NextCombo, ComboIds
  <1>c. \A c \in ComboIds : combos[c].sup \in {0} \cup ComboIds /\ combos[c].mat \in {0} \cup ComboIds
    BY <1>0 DEF ComboRow, ComboIds
  <1> DEFINE Kept(c) == combos'[c].st \in {"live", "trash"}
             Good(row, c) == /\ row.sup # 0 => row.sup > c /\ Kept(row.sup)
                             /\ row.mat # 0 => row.mat < c /\ Kept(row.mat)
  <1>d. ASSUME \A c \in ComboIds : combos'[c].st # "gone" \/ combos[c].st = "gone",
               NEW c \in ComboIds
        PROVE  Good(combos[c], c)
    <2>1. ASSUME NEW d \in ComboIds, Stored(d) PROVE Kept(d)
      BY <1>a, <1>d, <2>1 DEF Stored
    <2> QED BY <1>c, <2>1 DEF ChainsHold, Stored
  <1>1. ASSUME NEW d \in ComboIds, NEW draft \in BOOLEAN, NEW recipe \in Recipes,
               NEW hit \in HitTypes, NEW ka \in AdvantagesOrNull, NEW mat \in 0 .. MaxCombo,
               Inserted(d, draft, recipe, hit, ka, mat)
        PROVE  ChainsHold'
    <2> DEFINE row == NewComboRow(draft, recipe, hit, ka, mat)
    <2>1. row.st = "live" /\ row.sup = 0 /\ row.mat = mat
      BY DEF NewComboRow
    <2>2. combos' = [combos EXCEPT ![d] = row]
      BY <1>1 DEF Inserted
    <2> HIDE DEF row
    <2>3. \A c \in ComboIds : Good(combos[c], c)
      BY <1>0, <1>d, <2>1, <2>2
    <2>4. mat # 0 => mat < d /\ Kept(mat)
      <3>1. mat # 0 => mat \in ComboIds /\ Stored(mat) /\ mat # d
        BY <1>1 DEF Inserted, NextCombo, Stored
      <3>2. mat # 0 => mat < d
        BY <1>1, <1>b, <3>1 DEF Inserted, Stored
      <3> QED BY <1>0, <2>2, <3>1, <3>2 DEF Stored
    <2>5. Good(row, d)
      BY <2>1, <2>4
    <2> QED BY <1>0, <2>2, <2>3, <2>5 DEF ChainsHold, Stored
  <1>2. ASSUME NEW d \in ComboIds, NEW draft \in BOOLEAN, NEW ka \in AdvantagesOrNull,
               Patched(d, draft, ka)
        PROVE  ChainsHold'
    <2> DEFINE row == PatchedRow(combos[d], draft, ka)
    <2>1. row.st = "live" /\ row.sup = combos[d].sup /\ row.mat = combos[d].mat
      BY <1>0, <1>2, PatchedRowTyped DEF Patched, Live
    <2>2. combos' = [combos EXCEPT ![d] = row]
      BY <1>2 DEF Patched
    <2> HIDE DEF row
    <2>3. \A c \in ComboIds : Good(combos[c], c)
      BY <1>0, <1>d, <2>1, <2>2
    <2> QED BY <1>0, <2>1, <2>2, <2>3 DEF ChainsHold, Stored
  <1>3. ASSUME NEW old \in ComboIds, NEW new \in ComboIds, NEW draft \in BOOLEAN,
               NEW recipe \in Recipes, NEW hit \in HitTypes, NEW ka \in AdvantagesOrNull,
               Replaced(old, new, draft, recipe, hit, ka)
        PROVE  ChainsHold'
    <2> DEFINE row == NewComboRow(draft, recipe, hit, ka, 0)
               left == Superseded(combos[old], new)
    <2>1. row.st = "live" /\ row.sup = 0 /\ row.mat = 0
      BY DEF NewComboRow
    <2>2. left.st = "trash" /\ left.sup = new /\ left.mat = combos[old].mat
      BY <1>0, SupersededTyped DEF ComboIds
    <2>3. combos' = [combos EXCEPT ![old] = left, ![new] = row] /\ old # new
      BY <1>3 DEF Replaced
    <2> HIDE DEF row, left
    <2>4. \A c \in ComboIds : Good(combos[c], c)
      BY <1>0, <1>d, <2>1, <2>2, <2>3
    <2>5. old < new /\ Kept(new)
      BY <1>0, <1>3, <1>b, <2>1, <2>3 DEF Replaced, Live, Stored
    <2>6. Good(left, old) /\ Good(row, new)
      BY <1>0, <2>1, <2>2, <2>4, <2>5
    <2> QED BY <1>0, <2>3, <2>4, <2>6 DEF ChainsHold, Stored
  <1>4. ASSUME NEW d \in ComboIds, NEW st \in {"live", "trash"}, Toggled(d, st) PROVE ChainsHold'
    <2> DEFINE row == [combos[d] EXCEPT !.st = st]
    <2>1. row.st = st /\ row.sup = combos[d].sup /\ row.mat = combos[d].mat
      BY <1>0 DEF ComboRow
    <2>2. combos' = [combos EXCEPT ![d] = row]
      BY <1>4 DEF Toggled
    <2> HIDE DEF row
    <2>3. \A c \in ComboIds : Good(combos[c], c)
      BY <1>0, <1>d, <2>1, <2>2
    <2> QED BY <1>0, <2>1, <2>2, <2>3 DEF ChainsHold, Stored
  <1>5. ASSUME NEW d \in ComboIds, PermanentDelete(d) PROVE ChainsHold'
    <2>1. NoComboRow("gone").sup = 0 /\ NoComboRow("gone").mat = 0
      BY DEF NoComboRow
    <2>2. ASSUME NEW c \in ComboIds, c # d
          PROVE  /\ combos'[c].st = combos[c].st
                 /\ combos'[c].sup = (IF combos[c].sup = d THEN 0 ELSE combos[c].sup)
                 /\ combos'[c].mat = (IF combos[c].mat = d THEN 0 ELSE combos[c].mat)
      BY <1>0, <1>5, <2>2, DetachedTyped DEF PermanentDelete
    <2>3. ASSUME NEW e \in ComboIds, e # d, Stored(e) PROVE Kept(e)
      BY <2>2, <2>3 DEF Stored
    <2>4. ASSUME NEW c \in ComboIds, c # d PROVE Good(combos'[c], c)
      BY <1>c, <2>2, <2>3, <2>4 DEF ChainsHold, Stored
    <2>5. Good(combos'[d], d)
      BY <1>5, <2>1 DEF PermanentDelete
    <2> QED BY <2>4, <2>5 DEF ChainsHold, Stored
  <1>6. CASE UNCHANGED combos
    BY <1>6 DEF ChainsHold, Stored
  <1> QED BY ComboWriteForms, <1>1, <1>2, <1>3, <1>4, <1>5, <1>6 DEF ComboRowWrites

\* How the state of one setup may change in a step.
SetupStateStep(s) ==
  StoredSetup(s) => setups'[s].st \in {"live", "trash"} \/ PermanentDeleteSetup(s)

LEMMA SetupStates ==
  ASSUME TypeOK, [Next]_vars, NEW s \in SetupIds
  PROVE  SetupStateStep(s)
  <1>0. setups \in [SetupIds -> SetupRow]
    BY DEF TypeOK
  <1>1. ASSUME NEW u \in Users, ComboCreate(u) PROVE SetupStateStep(s)
    <2>1. PICK embedded \in EmbeddedSetups :
            \E draft, recipe, hit, ka, tagged, verified :
              Create(u, draft, recipe, hit, ka, tagged, embedded, verified)
      BY <1>1 DEF ComboCreate
    <2>2. s \in DOMAIN embedded => setups[s].st = "none"
      BY DEF EmbeddedSetups
    <2>3. setups' = [t \in SetupIds |->
                       IF t \in DOMAIN embedded
                         THEN [st |-> "live", ver |-> 1, recipe |-> embedded[t]]
                         ELSE setups[t]]
      BY <2>1 DEF Create
    <2> QED BY <2>2, <2>3 DEF SetupStateStep, StoredSetup
  <1>2. ASSUME NEW c \in ComboIds, NEW t \in SetupIds, NEW recipe, NEW verified,
               CreateSetup(t, c, recipe, verified)
        PROVE  SetupStateStep(s)
    BY <1>0, <1>2 DEF CreateSetup, NextSetup, SetupStateStep, StoredSetup
  <1>3. ASSUME NEW u \in Users, NEW recipe \in SetupRecipes, UpdateSetup(u, recipe)
        PROVE  SetupStateStep(s)
    <2> DEFINE t == setupForms[u].id
               row == [setups[t] EXCEPT !.recipe = recipe, !.ver = @ + 1]
    <2>1. t \in SetupIds
      BY <1>3 DEF UpdateSetup, TypeOK, SetupForm, SetupIds
    <2>2. setups' = [setups EXCEPT ![t] = row]
      BY <1>0, <1>3, <2>1 DEF UpdateSetup
    <2>3. row.st = setups[t].st
      BY <1>0, <2>1 DEF SetupRow
    <2> HIDE DEF row
    <2> QED BY <1>0, <2>1, <2>2, <2>3 DEF SetupStateStep, StoredSetup
  <1>4. ASSUME NEW t \in SetupIds, NEW c, DeleteSetup(t, c) \/ RestoreSetup(t)
        PROVE  SetupStateStep(s)
    <2>1. PICK st \in {"live", "trash"} : setups' = [setups EXCEPT ![t] = [setups[t] EXCEPT !.st = st]]
      BY <1>0, <1>4 DEF DeleteSetup, RestoreSetup
    <2>2. [setups[t] EXCEPT !.st = st].st = st
      BY <1>0 DEF SetupRow
    <2> QED BY <1>0, <2>1, <2>2 DEF SetupStateStep, StoredSetup
  <1>5. ASSUME NEW t \in SetupIds, PermanentDeleteSetup(t) PROVE SetupStateStep(s)
    <2>1. CASE s = t
      BY <1>5, <2>1 DEF SetupStateStep
    <2>2. CASE s # t
      BY <1>0, <1>5, <2>2 DEF PermanentDeleteSetup, SetupStateStep, StoredSetup
    <2> QED BY <2>1, <2>2
  <1>6. CASE UNCHANGED setups
    BY <1>6 DEF SetupStateStep, StoredSetup
  <1> QED BY SetupsWritten, <1>1, <1>2, <1>3, <1>4, <1>5, <1>6 DEF SetupWrites

\* A row that stays in its table keeps the combo, or the setup, it names.
LEMMA OldRow ==
  ASSUME TypeOK, [Next]_vars, NEW c \in ComboIds, Stored(c),
         NEW rel, NEW after, NEW p \in rel, p \in after, p[1] = c,
         PermanentDelete(c) => after = rel \ Of(c, rel)
  PROVE  combos'[c].st \in {"live", "trash"}
  BY ComboStates DEF StateStep, Of

LEMMA OldLink ==
  ASSUME TypeOK, LinksHold, [Next]_vars, NEW p \in links, p \in links'
  PROVE  combos'[p[1]].st \in {"live", "trash"} /\ setups'[p[2]].st \in {"live", "trash"}
  <1>1. p[1] \in ComboIds /\ p[2] \in SetupIds /\ Stored(p[1]) /\ StoredSetup(p[2])
    BY DEF TypeOK, LinksHold
  <1>2. combos'[p[1]].st \in {"live", "trash"}
    BY <1>1, OldRow DEF PermanentDelete
  <1>3. setups'[p[2]].st \in {"live", "trash"}
    BY <1>1, SetupStates DEF SetupStateStep, PermanentDeleteSetup
  <1> QED BY <1>2, <1>3

LEMMA LinksStep ==
  ASSUME TypeOK, LinksHold, [Next]_vars
  PROVE  LinksHold'
  <1> DEFINE KeptLink(p) == /\ combos'[p[1]].st \in {"live", "trash"}
                            /\ setups'[p[2]].st \in {"live", "trash"}
  <1>0. /\ combos \in [ComboIds -> ComboRow] /\ setups \in [SetupIds -> SetupRow]
        /\ links \subseteq ComboIds \X SetupIds /\ results \subseteq links
    BY DEF TypeOK, LinksHold
  <1>a. ASSUME \A p \in links' \ links : KeptLink(p), results' \subseteq links'
        PROVE  LinksHold'
    BY <1>a, OldLink DEF LinksHold, Stored, StoredSetup
  <1> HIDE DEF KeptLink
  <1>1. ASSUME NEW u \in Users, ComboCreate(u) PROVE LinksHold'
    <2>1. PICK embedded \in EmbeddedSetups :
            \E draft, recipe, hit, ka, tagged : \E verified \in SUBSET DOMAIN embedded :
              Create(u, draft, recipe, hit, ka, tagged, embedded, verified)
      BY <1>1 DEF ComboCreate
    <2>2. PICK c \in ComboIds, verified \in SUBSET DOMAIN embedded :
            /\ \E draft, recipe, hit, ka :
                 combos' = [combos EXCEPT ![c] = NewComboRow(draft, recipe, hit, ka, 0)]
            /\ links' = links \cup {<<c, s>> : s \in DOMAIN embedded}
            /\ results' = results \cup {<<c, s>> : s \in verified}
      BY <2>1 DEF Create
    <2>3. combos'[c].st = "live"
      BY <1>0, <2>2 DEF NewComboRow
    <2>4. \A s \in DOMAIN embedded : setups'[s].st = "live"
      <3>1. DOMAIN embedded \subseteq SetupIds
        BY DEF EmbeddedSetups
      <3> QED BY <2>1, <3>1 DEF Create
    <2>5. \A p \in links' \ links : KeptLink(p)
      BY <2>2, <2>3, <2>4 DEF KeptLink
    <2>6. results' \subseteq links'
      BY <1>0, <2>2
    <2> QED BY <1>a, <2>5, <2>6
  <1>2. ASSUME NEW u, NEW draft, NEW ka, NEW tagged, NEW asked, NEW keep,
               UpdateMetadata(u, draft, ka, tagged, asked, keep)
        PROVE  LinksHold'
    <2>1. links' \subseteq links /\ results' \subseteq links'
      BY <1>0, <1>2 DEF UpdateMetadata
    <2> QED BY <1>a, <2>1
  <1>3. ASSUME NEW u \in Users, NEW draft, NEW recipe, NEW hit, NEW ka, NEW tagged, NEW asked,
               NEW keep, UpdateWithKeyChange(u, draft, recipe, hit, ka, tagged, asked, keep)
        PROVE  LinksHold'
    <2> DEFINE old == forms[u].id
               dropped == IF asked THEN Dropped(old, keep) ELSE {}
    <2>1. PICK new \in ComboIds :
            /\ links' = Moved(links \ dropped, old, new)
            /\ results' = Moved(results \ dropped, old, new)
            /\ combos' = [combos EXCEPT ![old].st = "trash", ![old].sup = new,
                                        ![new] = NewComboRow(draft, recipe, hit, ka, 0)]
            /\ setups' = setups
      BY <1>3 DEF UpdateWithKeyChange
    <2> HIDE DEF old, dropped
    <2>2. results' \subseteq links'
      BY <1>0, <2>1 DEF Moved
    <2>3. combos'[new].st = "live"
      BY <1>0, <2>1 DEF NewComboRow
    <2>4. ASSUME NEW p \in links' \ links PROVE KeptLink(p)
      <3>1. PICK q \in links : p = <<IF q[1] = old THEN new ELSE q[1], q[2]>>
        BY <2>1, <2>4 DEF Moved
      <3>2. q = <<q[1], q[2]>> /\ StoredSetup(q[2])
        BY <1>0 DEF LinksHold
      <3>3. p = <<new, q[2]>>
        BY <2>4, <3>1, <3>2
      <3> QED BY <2>1, <2>3, <3>2, <3>3 DEF KeptLink, StoredSetup
    <2> QED BY <1>a, <2>2, <2>4
  <1>4. ASSUME NEW c \in ComboIds, Delete(c) \/ Restore(c) \/ PermanentDelete(c) PROVE LinksHold'
    <2>1. links' \subseteq links /\ results' \subseteq links'
      BY <1>0, <1>4 DEF Delete, Restore, PermanentDelete, Of, linkTables
    <2> QED BY <1>a, <2>1
  <1>5. CASE UNCHANGED <<links, results>>
    BY <1>0, <1>5, <1>a
  <1>6. CASE ComboNext
    <2>1. ASSUME NEW u \in Users,
                 RefetchForm(u) \/ CloseForm(u) \/ \E c \in ComboIds : OpenForm(u, c)
          PROVE  LinksHold'
      BY <1>5, <2>1 DEF RefetchForm, CloseForm, OpenForm, linkTables
    <2>2. ASSUME NEW u \in Users, ComboEdit(u) PROVE LinksHold'
      BY <2>2, <1>2, <1>3 DEF ComboEdit
    <2> QED BY <1>1, <1>4, <1>6, <2>1, <2>2 DEF ComboNext
  <1>7. CASE SetupNext
    <2>1. ASSUME NEW w \in Workers, LinkInsert(w) PROVE LinksHold'
      <3>1. requests[w] \in LinkRequest /\ combos' = combos /\ setups' = setups
        BY <2>1, RequestTyped DEF LinkInsert
      <3>2. \A p \in links' \ links : KeptLink(p)
        BY <2>1, <3>1 DEF LinkInsert, KeptLink, Stored, StoredSetup
      <3>3. results' \subseteq links'
        BY <1>0, <2>1 DEF LinkInsert
      <3> QED BY <1>a, <3>2, <3>3
    <2>2. ASSUME NEW c \in ComboIds, NEW s \in SetupIds, NEW recipe, NEW verified,
                 CreateSetup(s, c, recipe, verified)
          PROVE  LinksHold'
      <3>1. \A p \in links' \ links : KeptLink(p)
        BY <1>0, <2>2 DEF CreateSetup, KeptLink, Live
      <3>2. results' \subseteq links'
        BY <1>0, <2>2 DEF CreateSetup
      <3> QED BY <1>a, <3>1, <3>2
    <2>3. ASSUME NEW c \in ComboIds, NEW s \in SetupIds,
                 DeleteSetupLink(c, s) \/ UpsertResult(c, s) \/ DeleteResult(c, s)
          PROVE  LinksHold'
      <3>1. links' \subseteq links /\ results' \subseteq links'
        BY <1>0, <2>3 DEF DeleteSetupLink, UpsertResult, DeleteResult
      <3> QED BY <1>a, <3>1
    <2>4. ASSUME NEW s, NEW c, DeleteSetup(s, c) \/ RestoreSetup(s) \/ PermanentDeleteSetup(s)
          PROVE  LinksHold'
      <3>1. links' \subseteq links /\ results' \subseteq links'
        BY <1>0, <2>4 DEF DeleteSetup, RestoreSetup, PermanentDeleteSetup, linkTables
      <3> QED BY <1>a, <3>1
    <2>5. ASSUME NEW u, NEW recipe, UpdateSetup(u, recipe) PROVE LinksHold'
      BY <1>5, <2>5 DEF UpdateSetup, linkTables
    <2>6. ASSUME NEW u, NEW w, NEW c, NEW s, OpenSetupForm(u, s) \/ LinkCheck(w, c, s)
          PROVE  LinksHold'
      BY <1>5, <2>6 DEF OpenSetupForm, LinkCheck, linkTables
    <2> QED BY <1>7, <2>1, <2>2, <2>3, <2>4, <2>5, <2>6 DEF SetupNext
  <1>8. CASE PunishNext
    BY <1>5, <1>8, PunishSteps
  <1>9. CASE UNCHANGED vars
    BY <1>5, <1>9 DEF vars
  <1> QED BY <1>6, <1>7, <1>8, <1>9 DEF Next

\* The tables that reference combos only gain rows of combos that stay stored.
NewRowsKept ==
  \A p \in (tags' \ tags) \cup (punishes' \ punishes) \cup (curations' \ curations) :
    combos'[p[1]].st \in {"live", "trash"}

LEMMA RowsKept ==
  ASSUME TypeOK, RowsHold, [Next]_vars, NewRowsKept
  PROVE  RowsHold'
  <1>1. ASSUME NEW rel \in SUBSET UNION {tags, punishes, curations}, NEW after, NEW p \in rel, p \in after,
               PermanentDelete(p[1]) => after = rel \ Of(p[1], rel)
        PROVE  combos'[p[1]].st \in {"live", "trash"}
    <2>1. p[1] \in ComboIds /\ Stored(p[1])
      BY DEF TypeOK, RowsHold
    <2> QED BY <1>1, <2>1, OldRow
  <1>2. \A p \in tags : p \in tags' => combos'[p[1]].st \in {"live", "trash"}
    BY <1>1 DEF PermanentDelete
  <1>3. \A p \in punishes : p \in punishes' => combos'[p[1]].st \in {"live", "trash"}
    BY <1>1 DEF PermanentDelete
  <1>4. \A p \in curations : p \in curations' => combos'[p[1]].st \in {"live", "trash"}
    BY <1>1 DEF PermanentDelete
  <1> QED BY <1>2, <1>3, <1>4 DEF NewRowsKept, RowsHold, Stored

LEMMA RowsStep ==
  ASSUME TypeOK, [Next]_vars
  PROVE  NewRowsKept
  <1>0. /\ combos \in [ComboIds -> ComboRow] /\ tags \subseteq ComboIds \X Users
        /\ punishes \subseteq ComboIds \X OppMoves /\ curations \subseteq ComboIds \X OppMoves
    BY DEF TypeOK
  <1>1. ASSUME NEW u \in Users, ComboCreate(u) PROVE NewRowsKept
    <2>1. PICK draft, tagged, ka, recipe, hit, embedded :
            \E verified : Create(u, draft, recipe, hit, ka, tagged, embedded, verified)
      BY <1>1 DEF ComboCreate
    <2>2. PICK c \in ComboIds :
            /\ UNCHANGED <<punishes, curations>> /\ tags' = Retagged(c, u, tagged)
            /\ combos' = [combos EXCEPT ![c] = NewComboRow(draft, recipe, hit, ka, 0)]
      BY <2>1 DEF Create, punishTables
    <2>3. combos'[c].st = "live"
      BY <1>0, <2>2 DEF NewComboRow
    <2> QED BY <2>2, <2>3 DEF NewRowsKept, Retagged
  <1>2. ASSUME NEW u \in Users, NEW draft, NEW ka, NEW tagged, NEW asked, NEW keep,
               UpdateMetadata(u, draft, ka, tagged, asked, keep)
        PROVE  NewRowsKept
    <2> DEFINE c == forms[u].id
    <2>1. c \in ComboIds
      BY <1>2 DEF UpdateMetadata, TypeOK, ComboForm, ComboIds
    <2>2. /\ UNCHANGED <<punishes, curations>> /\ tags' = Retagged(c, u, tagged)
          /\ Live(c) /\ combos' = [combos EXCEPT ![c] = PatchedRow(combos[c], draft, ka)]
      BY <1>0, <1>2, <2>1 DEF UpdateMetadata, punishTables
    <2>3. combos'[c].st = "live"
      BY <1>0, <2>1, <2>2 DEF PatchedRow, Live, ComboRow
    <2> QED BY <2>2, <2>3 DEF NewRowsKept, Retagged
  <1>3. ASSUME NEW u \in Users, NEW draft, NEW recipe, NEW hit, NEW ka, NEW tagged, NEW asked,
               NEW keep, UpdateWithKeyChange(u, draft, recipe, hit, ka, tagged, asked, keep)
        PROVE  NewRowsKept
    <2> DEFINE old == forms[u].id
    <2>1. PICK new \in ComboIds :
            /\ punishes' = Moved(punishes, old, new)
            /\ curations' = Moved(curations, old, new)
            /\ tags' = IF tagged THEN Retagged(new, u, TRUE) ELSE tags
            /\ combos' = [combos EXCEPT ![old].st = "trash", ![old].sup = new,
                                        ![new] = NewComboRow(draft, recipe, hit, ka, 0)]
      BY <1>3 DEF UpdateWithKeyChange
    <2> HIDE DEF old
    <2>2. combos'[new].st = "live"
      BY <1>0, <2>1 DEF NewComboRow
    <2>3. ASSUME NEW T, NEW rel \in SUBSET (ComboIds \X T), NEW p \in Moved(rel, old, new) \ rel
          PROVE  p[1] = new
      BY <2>3 DEF Moved
    <2>4. \A p \in tags' \ tags : p[1] = new
      BY <2>1 DEF Retagged
    <2>5. \A p \in punishes' \ punishes : p[1] = new
      BY <1>0, <2>1, <2>3
    <2>6. \A p \in curations' \ curations : p[1] = new
      BY <1>0, <2>1, <2>3
    <2> QED BY <2>2, <2>4, <2>5, <2>6 DEF NewRowsKept
  <1>4. ASSUME NEW c \in ComboIds, Delete(c) \/ Restore(c) \/ PermanentDelete(c) PROVE NewRowsKept
    BY <1>4 DEF Delete, Restore, PermanentDelete, NewRowsKept, punishTables
  <1>5. ASSUME NEW u \in Users, RefetchForm(u) \/ CloseForm(u) \/ \E c \in ComboIds : OpenForm(u, c)
        PROVE  NewRowsKept
    BY <1>5 DEF RefetchForm, CloseForm, OpenForm, NewRowsKept, punishTables
  <1>6. CASE ComboNext
    <2>1. ASSUME NEW u \in Users, ComboEdit(u) PROVE NewRowsKept
      BY <2>1, <1>2, <1>3 DEF ComboEdit
    <2> QED BY <1>6, <2>1, <1>1, <1>4, <1>5 DEF ComboNext
  <1>7. CASE SetupNext
    BY <1>7, SetupSteps DEF NewRowsKept
  <1>8. CASE PunishNext
    <2>1. ASSUME NEW c \in ComboIds, NEW m, AddPunish(c, m) PROVE NewRowsKept
      BY <2>1 DEF AddPunish, NewRowsKept, Stored
    <2>2. ASSUME NEW c, NEW m, RemovePunish(c, m) \/ RemoveCuration(c, m) PROVE NewRowsKept
      BY <2>2 DEF RemovePunish, RemoveCuration, NewRowsKept
    <2>3. ASSUME NEW w, NEW u, NEW c, NEW m, CurateCheck(w, c, m) \/ MaterializeRead(w, u, c, m)
          PROVE  NewRowsKept
      BY <2>3 DEF CurateCheck, MaterializeRead, NewRowsKept, punishTables
    <2>4. ASSUME NEW w \in Workers, AddCuration(w) PROVE NewRowsKept
      BY <2>4 DEF AddCuration, NewRowsKept, Stored
    <2>5. ASSUME NEW w \in Workers, MaterializeExisting(w) \/ Abandon(w) \/ DrainBasePunish(w)
          PROVE  NewRowsKept
      BY <2>5 DEF MaterializeExisting, Abandon, DrainBasePunish, NewRowsKept, punishTables
    <2>6. ASSUME NEW w \in Workers, MaterializeGenerate(w) PROVE NewRowsKept
      <3> DEFINE q == requests[w]
      <3>1. PICK c \in ComboIds :
              /\ combos' = [combos EXCEPT ![c] =
                              NewComboRow(q.draft, q.recipe, "punish", q.ka, q.base)]
              /\ tags' = Retagged(c, q.user, q.tagged)
              /\ punishes' = (punishes \cup {<<c, q.move>>}) \ {<<q.base, q.move>>}
              /\ curations' = curations \ {<<q.base, q.move>>}
        BY <2>6 DEF MaterializeGenerate
      <3>2. combos'[c].st = "live"
        BY <1>0, <3>1 DEF NewComboRow
      <3> QED BY <3>1, <3>2 DEF NewRowsKept, Retagged
    <2> QED BY <1>8, <2>1, <2>2, <2>3, <2>4, <2>5, <2>6 DEF PunishNext
  <1>9. CASE UNCHANGED vars
    BY <1>9 DEF vars, NewRowsKept
  <1> QED BY <1>6, <1>7, <1>8, <1>9 DEF Next

\* The inductive invariant of the references.  AllocOrder is what makes a
\* successor, always the newest row, greater than the row it replaces.
ReferencesInv == TypeOK /\ AllocOrder /\ ChainsHold /\ LinksHold /\ RowsHold

LEMMA ReferencesInvariant == Spec => []ReferencesInv
  <1>1. Init => ReferencesInv
    <2> SUFFICES ASSUME Init PROVE ReferencesInv
      OBVIOUS
    <2>1. \A c \in ComboIds : combos[c].st = "none" /\ combos[c].sup = 0 /\ combos[c].mat = 0
      BY DEF Init, NoComboRow
    <2> QED BY <2>1, InitTyped
            DEF Init, ReferencesInv, AllocOrder, ChainsHold, LinksHold, RowsHold
  <1>2. ReferencesInv /\ [Next]_vars => ReferencesInv'
    BY TypeStep, AllocStep, ChainsStep, LinksStep, RowsStep, RowsKept DEF ReferencesInv
  <1> QED BY <1>1, <1>2, PTL DEF Spec

\* No reachable state has a dangling reference, whatever interleaving of saves,
\* purges, link requests and materialize requests led to it; neither chain of
\* combos closes.
THEOREM ReferencesSafe == Spec => []ReferencesHold
  <1>1. ReferencesInv => ReferencesHold
    BY DEF ReferencesInv, ReferencesHold, ChainsHold, LinksHold, RowsHold
  <1> QED BY <1>1, ReferencesInvariant, PTL

-------------------------------------------------------------------------------
(* Published combos and the optimistic lock.                                 *)

\* What one step may do to the contents of one combo row: keep them while the
\* row stays or goes in or out of the trash, edit them under a new version,
\* insert the row, or destroy it.
SameRow(c) ==
  /\ combos'[c].ver = combos[c].ver
  /\ combos'[c].draft = combos[c].draft /\ combos'[c].ka = combos[c].ka
  /\ combos'[c].recipe = combos[c].recipe /\ combos'[c].hit = combos[c].hit
  /\ \/ combos'[c].st = combos[c].st
     \/ combos[c].st = "live" /\ combos'[c].st = "trash"
     \/ combos[c].st = "trash" /\ combos'[c].st = "live"

EditedRow(c) ==
  /\ combos[c].st = "live" /\ combos'[c].st = "live"
  /\ combos'[c].ver = combos[c].ver + 1
  /\ combos'[c].recipe = combos[c].recipe /\ combos'[c].hit = combos[c].hit
  /\ ~combos'[c].draft =>
       /\ combos'[c].ka # NoAdvantage
       /\ combos[c].draft => ~DupPublished(combos[c].recipe, combos[c].hit)

InsertedRow(c) ==
  /\ combos[c].st = "none" /\ combos'[c].st = "live"
  /\ ~combos'[c].draft => /\ combos'[c].ka # NoAdvantage
                          /\ ~DupPublished(combos'[c].recipe, combos'[c].hit)

DestroyedRow(c) == combos'[c].st = "gone"

OneRowChanged(c) ==
  /\ SameRow(c) \/ EditedRow(c) \/ InsertedRow(c) \/ DestroyedRow(c)
  /\ \A d \in ComboIds \ {c} : SameRow(d)

LEMMA RowSteps ==
  ASSUME TypeOK, [Next]_vars
  PROVE  (\A c \in ComboIds : SameRow(c)) \/ \E c \in ComboIds : OneRowChanged(c)
  <1>0. combos \in [ComboIds -> ComboRow] /\ ComboIds \subseteq 0 .. MaxCombo
    BY DEF TypeOK, ComboIds
  <1>1. ASSUME NEW c \in ComboIds, NEW draft \in BOOLEAN, NEW recipe \in Recipes,
               NEW hit \in HitTypes, NEW ka \in AdvantagesOrNull, NEW mat \in 0 .. MaxCombo,
               Inserted(c, draft, recipe, hit, ka, mat)
        PROVE  OneRowChanged(c)
    <2>1. InsertedRow(c)
      BY <1>0, <1>1, NewComboRowTyped DEF Inserted, NextCombo, MaySave, InsertedRow
    <2>2. \A d \in ComboIds \ {c} : SameRow(d)
      BY <1>0, <1>1 DEF Inserted, SameRow
    <2> QED BY <2>1, <2>2 DEF OneRowChanged
  <1>2. ASSUME NEW c \in ComboIds, NEW draft \in BOOLEAN, NEW ka \in AdvantagesOrNull,
               Patched(c, draft, ka)
        PROVE  OneRowChanged(c)
    <2> DEFINE row == PatchedRow(combos[c], draft, ka)
    <2>1. /\ row.ver = combos[c].ver + 1 /\ row.st = combos[c].st
          /\ row.draft = draft /\ row.ka = ka
          /\ row.recipe = combos[c].recipe /\ row.hit = combos[c].hit
      BY <1>0, <1>2, PatchedRowTyped DEF Patched
    <2>2. combos' = [combos EXCEPT ![c] = row]
      BY <1>2 DEF Patched
    <2> HIDE DEF row
    <2>3. EditedRow(c)
      BY <1>0, <1>2, <2>1, <2>2 DEF EditedRow, Patched, PatchAllowed, MaySave, Live
    <2>4. \A d \in ComboIds \ {c} : SameRow(d)
      BY <1>0, <2>2 DEF SameRow
    <2> QED BY <2>3, <2>4 DEF OneRowChanged
  <1>3. ASSUME NEW old \in ComboIds, NEW new \in ComboIds, NEW draft \in BOOLEAN,
               NEW recipe \in Recipes, NEW hit \in HitTypes, NEW ka \in AdvantagesOrNull,
               Replaced(old, new, draft, recipe, hit, ka)
        PROVE  OneRowChanged(new)
    <2> DEFINE row == NewComboRow(draft, recipe, hit, ka, 0)
               left == Superseded(combos[old], new)
    <2>1. /\ row.st = "live" /\ row.draft = draft /\ row.ka = ka
          /\ row.recipe = recipe /\ row.hit = hit
      BY DEF NewComboRow
    <2>2. /\ left.ver = combos[old].ver /\ left.st = "trash"
          /\ left.draft = combos[old].draft /\ left.ka = combos[old].ka
          /\ left.recipe = combos[old].recipe /\ left.hit = combos[old].hit
      BY <1>0, SupersededTyped
    <2>3. combos' = [combos EXCEPT ![old] = left, ![new] = row] /\ old # new
      BY <1>3 DEF Replaced
    <2> HIDE DEF row, left
    <2>4. InsertedRow(new)
      BY <1>0, <1>3, <2>1, <2>3 DEF Replaced, NextCombo, MaySave, InsertedRow
    <2>5. \A d \in ComboIds \ {new} : SameRow(d)
      BY <1>0, <1>3, <2>2, <2>3 DEF SameRow, Replaced, Live
    <2> QED BY <2>4, <2>5 DEF OneRowChanged
  <1>4. ASSUME NEW c \in ComboIds, NEW st \in {"live", "trash"}, Toggled(c, st)
        PROVE  \A d \in ComboIds : SameRow(d)
    <2> DEFINE row == [combos[c] EXCEPT !.st = st]
    <2>1. /\ row.ver = combos[c].ver /\ row.st = st
          /\ row.draft = combos[c].draft /\ row.ka = combos[c].ka
          /\ row.recipe = combos[c].recipe /\ row.hit = combos[c].hit
      BY <1>0 DEF ComboRow
    <2>2. combos' = [combos EXCEPT ![c] = row]
      BY <1>4 DEF Toggled
    <2> HIDE DEF row
    <2> QED BY <1>0, <1>4, <2>1, <2>2 DEF SameRow, Toggled, Live, InTrash
  <1>5. ASSUME NEW c \in ComboIds, PermanentDelete(c) PROVE OneRowChanged(c)
    <2>1. DestroyedRow(c)
      BY <1>5 DEF PermanentDelete, DestroyedRow, NoComboRow
    <2>2. ASSUME NEW d \in ComboIds \ {c} PROVE SameRow(d)
      BY <1>0, <1>5, DetachedTyped DEF PermanentDelete, SameRow
    <2> QED BY <2>1, <2>2 DEF OneRowChanged
  <1>6. CASE UNCHANGED combos
    BY <1>6 DEF SameRow
  <1> QED BY ComboWriteForms, <1>1, <1>2, <1>3, <1>4, <1>5, <1>6 DEF ComboRowWrites

\* A published combo has its required fields in every reachable state, however
\* often it is demoted, promoted, copied or thrown away (VAL-C15).
THEOREM PublishedComplete == Spec => []PublishedIsComplete
  <1>1. Init => PublishedIsComplete
    BY DEF Init, PublishedIsComplete, Stored, NoComboRow
  <1>2. TypeOK /\ PublishedIsComplete /\ [Next]_vars => PublishedIsComplete'
    <2> SUFFICES ASSUME TypeOK, PublishedIsComplete, [Next]_vars,
                        NEW c \in ComboIds, Stored(c)', ~combos'[c].draft
                 PROVE  combos'[c].ka # NoAdvantage
      BY DEF PublishedIsComplete
    <2>1. SameRow(c) \/ EditedRow(c) \/ InsertedRow(c)
      BY RowSteps DEF OneRowChanged, DestroyedRow, Stored
    <2> QED BY <2>1 DEF SameRow, EditedRow, InsertedRow, PublishedIsComplete, Stored
  <1> QED BY <1>1, <1>2, TypeCorrect, PTL DEF Spec

\* VAL-C02 for every interleaving: a step that makes twins takes one of them
\* out of the trash.
THEOREM TwinsOnlyFromTrash == Spec => NoNewTwins
  <1> DEFINE Known(c, d) == Twins(c, d) \/ InTrash(c) \/ InTrash(d)
  <1>1. ASSUME TypeOK, [Next]_vars, NEW c \in ComboIds, NEW d \in ComboIds, Twins(c, d)'
        PROVE  Known(c, d)
    <2>1. /\ c # d /\ combos'[c].st = "live" /\ combos'[d].st = "live"
          /\ ~combos'[c].draft /\ ~combos'[d].draft
          /\ combos'[c].recipe = combos'[d].recipe /\ combos'[c].hit = combos'[d].hit
      BY <1>1 DEF Twins, Live
    <2>2. CASE SameRow(c) /\ SameRow(d)
      BY <2>1, <2>2 DEF SameRow, Twins, Live, InTrash
    <2>3. ASSUME NEW e \in ComboIds, NEW f \in ComboIds, combos'[e].st = "live",
                 EditedRow(e) \/ InsertedRow(e) \/ DestroyedRow(e),
                 ~combos'[e].draft, ~combos[f].draft, Live(f),
                 combos'[e].recipe = combos[f].recipe, combos'[e].hit = combos[f].hit
          PROVE  Live(e) /\ ~combos[e].draft /\ combos'[e].recipe = combos[e].recipe
                         /\ combos'[e].hit = combos[e].hit
      <3>1. DupPublished(combos'[e].recipe, combos'[e].hit)
        BY <2>3 DEF DupPublished
      <3> QED BY <2>3, <3>1 DEF EditedRow, InsertedRow, DestroyedRow, Live
    <2>4. CASE SameRow(d) /\ (EditedRow(c) \/ InsertedRow(c) \/ DestroyedRow(c))
      <3>1. InTrash(d) \/ (Live(d) /\ ~combos[d].draft /\ combos'[c].recipe = combos[d].recipe
                                    /\ combos'[c].hit = combos[d].hit)
        BY <2>1, <2>4 DEF SameRow, Live, InTrash
      <3> QED BY <2>1, <2>3, <2>4, <3>1 DEF Twins
    <2>5. CASE SameRow(c) /\ (EditedRow(d) \/ InsertedRow(d) \/ DestroyedRow(d))
      <3>1. InTrash(c) \/ (Live(c) /\ ~combos[c].draft /\ combos'[d].recipe = combos[c].recipe
                                    /\ combos'[d].hit = combos[c].hit)
        BY <2>1, <2>5 DEF SameRow, Live, InTrash
      <3> QED BY <2>1, <2>3, <2>5, <3>1 DEF Twins
    <2> QED BY <1>1, <2>1, <2>2, <2>4, <2>5, RowSteps DEF OneRowChanged
  <1>2. TypeOK /\ [Next]_vars =>
          [\A c, d \in ComboIds : Twins(c, d)' => Twins(c, d) \/ InTrash(c) \/ InTrash(d)]_vars
    BY <1>1
  <1> QED BY <1>2, TypeCorrect, PTL DEF Spec, NoNewTwins

\* The inductive invariant of the optimistic lock: the version a form was filled
\* at is behind the one it sends, and that never runs ahead of its row, so that a
\* version the row has left behind never comes back.
FormsBehind ==
  \A u \in Users :
    LET f == forms[u] IN
      f.id # 0 => /\ combos[f.id].st # "none"
                  /\ Stored(f.id) => f.shown =< f.ver /\ f.ver =< combos[f.id].ver

\* How the form of one user may change in a step.
FormStep(u) ==
  \/ forms'[u] = forms[u]
  \/ forms'[u] = NoForm
  \/ \E c \in ComboIds :
       /\ Live(c) /\ combos' = combos
       /\ forms'[u] = [id |-> c, ver |-> combos[c].ver, shown |-> combos[c].ver,
                       draft |-> combos[c].draft, ka |-> combos[c].ka]
  \/ /\ forms[u].id # 0 /\ Live(forms[u].id) /\ combos' = combos
     /\ forms'[u] = [forms[u] EXCEPT !.ver = combos[forms[u].id].ver]

LEMMA FormSteps ==
  ASSUME TypeOK, [Next]_vars, NEW u \in Users
  PROVE  FormStep(u)
  <1>0. forms \in [Users -> ComboForm]
    BY DEF TypeOK
  <1>1. ASSUME NEW v \in Users, ComboCreate(v) PROVE forms' = forms
    BY <1>1 DEF ComboCreate, Create, editors
  <1>2. ASSUME NEW v \in Users, ComboEdit(v) PROVE forms' = [forms EXCEPT ![v] = NoForm]
    <2>1. ASSUME NEW draft, NEW ka, NEW tagged, NEW asked, NEW keep,
                 UpdateMetadata(v, draft, ka, tagged, asked, keep)
          PROVE  forms' = [forms EXCEPT ![v] = NoForm]
      BY <2>1 DEF UpdateMetadata
    <2>2. ASSUME NEW draft, NEW recipe, NEW hit, NEW ka, NEW tagged, NEW asked, NEW keep,
                 UpdateWithKeyChange(v, draft, recipe, hit, ka, tagged, asked, keep)
          PROVE  forms' = [forms EXCEPT ![v] = NoForm]
      BY <2>2 DEF UpdateWithKeyChange
    <2> QED BY <1>2, <2>1, <2>2 DEF ComboEdit
  <1>3. ASSUME NEW v \in Users, NEW c \in ComboIds, OpenForm(v, c) PROVE FormStep(u)
    BY <1>0, <1>3 DEF OpenForm, FormStep
  <1>4. ASSUME NEW v \in Users, CloseForm(v) PROVE FormStep(u)
    BY <1>0, <1>4 DEF CloseForm, FormStep
  <1>5. ASSUME NEW v \in Users, RefetchForm(v) PROVE FormStep(u)
    BY <1>0, <1>5 DEF RefetchForm, FormStep
  <1>6. ASSUME NEW c \in ComboIds, Delete(c) \/ Restore(c) \/ PermanentDelete(c)
        PROVE  forms' = forms
    BY <1>6 DEF Delete, Restore, PermanentDelete, editors
  <1>7. CASE ComboNext
    <2> FormStep(u) \/ forms' = forms \/ \E v \in Users : forms' = [forms EXCEPT ![v] = NoForm]
      BY <1>1, <1>2, <1>3, <1>4, <1>5, <1>6, <1>7 DEF ComboNext
    <2> QED BY <1>0 DEF FormStep
  <1>8. CASE SetupNext \/ PunishNext
    BY <1>8, SetupSteps, PunishSteps DEF FormStep
  <1>9. CASE UNCHANGED vars
    BY <1>9 DEF vars, FormStep
  <1> QED BY <1>7, <1>8, <1>9 DEF Next

\* The optimistic lock, which is sound until a refetch: while the row has the
\* version at which a form was filled, it is what that form shows, through every
\* edit, deletion and restore by others and every refetch of the form.
THEOREM OptimisticLock == Spec => []LockSoundUntilRefetch
  <1> DEFINE Inv == FormsBehind /\ LockSoundUntilRefetch
  <1>1. Init => Inv
    BY DEF Init, FormsBehind, LockSoundUntilRefetch, NoForm
  <1>2. TypeOK /\ Inv /\ [Next]_vars => Inv'
    <2> SUFFICES ASSUME TypeOK, Inv, [Next]_vars, NEW u \in Users
                 PROVE  LET f == forms'[u] IN
                          f.id # 0 =>
                            /\ combos'[f.id].st # "none"
                            /\ combos'[f.id].st \in {"live", "trash"} =>
                                 /\ f.shown =< f.ver /\ f.ver =< combos'[f.id].ver
                                 /\ f.shown = combos'[f.id].ver =>
                                      combos'[f.id].draft = f.draft /\ combos'[f.id].ka = f.ka
      BY DEF FormsBehind, LockSoundUntilRefetch, Stored
    <2>0. combos \in [ComboIds -> ComboRow] /\ forms[u] \in ComboForm
      BY DEF TypeOK
    <2>1. CASE forms'[u] = forms[u] /\ forms[u].id # 0
      <3> DEFINE f == forms[u]
      <3>1. f.id \in ComboIds /\ f.shown \in Int /\ f.ver \in Int /\ combos[f.id].ver \in Int
        BY <2>0, <2>1 DEF ComboForm, ComboIds, ComboRow
      <3>2. /\ combos[f.id].st # "none"
            /\ Stored(f.id) =>
                 /\ f.shown =< f.ver /\ f.ver =< combos[f.id].ver
                 /\ f.shown = combos[f.id].ver =>
                      combos[f.id].draft = f.draft /\ combos[f.id].ka = f.ka
        BY <2>1, <3>1 DEF FormsBehind, LockSoundUntilRefetch
      <3>3. SameRow(f.id) \/ EditedRow(f.id) \/ InsertedRow(f.id) \/ DestroyedRow(f.id)
        BY <3>1, RowSteps DEF OneRowChanged
      <3> HIDE DEF f
      <3> QED BY <2>1, <3>1, <3>2, <3>3
              DEF f, SameRow, EditedRow, InsertedRow, DestroyedRow, Stored
    <2>2. CASE forms'[u] = NoForm
      BY <2>2 DEF NoForm
    <2>3. ASSUME NEW c \in ComboIds, Live(c), combos' = combos,
                 forms'[u] = [id |-> c, ver |-> combos[c].ver, shown |-> combos[c].ver,
                              draft |-> combos[c].draft, ka |-> combos[c].ka]
          PROVE  LET f == forms'[u] IN
                   /\ combos'[f.id].st # "none"
                   /\ f.shown =< f.ver /\ f.ver =< combos'[f.id].ver
                   /\ combos'[f.id].draft = f.draft /\ combos'[f.id].ka = f.ka
      BY <2>0, <2>3 DEF Live, ComboRow
    <2>4. ASSUME forms[u].id # 0, Live(forms[u].id), combos' = combos,
                 forms'[u] = [forms[u] EXCEPT !.ver = combos[forms[u].id].ver]
          PROVE  LET f == forms'[u] IN
                   /\ combos'[f.id].st # "none"
                   /\ f.shown =< f.ver /\ f.ver =< combos'[f.id].ver
                   /\ f.shown = combos'[f.id].ver =>
                        combos'[f.id].draft = f.draft /\ combos'[f.id].ka = f.ka
      <3> DEFINE f == forms[u]
      <3>1. f.id \in ComboIds /\ f.shown \in Int /\ f.ver \in Int /\ combos[f.id].ver \in Int
        BY <2>0, <2>4 DEF ComboForm, ComboIds, ComboRow
      <3>2. /\ f.shown =< f.ver /\ f.ver =< combos[f.id].ver
            /\ f.ver = combos[f.id].ver /\ f.shown = f.ver =>
                 combos[f.id].draft = f.draft /\ combos[f.id].ka = f.ka
        BY <2>4 DEF FormsBehind, LockSoundUntilRefetch, Live, Stored
      <3>3. /\ forms'[u].id = f.id /\ forms'[u].shown = f.shown
            /\ forms'[u].ver = combos[f.id].ver
            /\ forms'[u].draft = f.draft /\ forms'[u].ka = f.ka
        BY <2>0, <2>4 DEF ComboForm
      <3> HIDE DEF f
      <3> QED BY <2>4, <3>1, <3>2, <3>3 DEF f, Live
    <2> QED BY <2>1, <2>2, <2>3, <2>4, FormSteps DEF FormStep
  <1> QED BY <1>1, <1>2, TypeCorrect, PTL DEF Spec

-------------------------------------------------------------------------------
(* The life cycle of rows.                                                   *)

\* Combos refine the life cycle of RowLifecycle: saves that replace a row name
\* the newest row as heir, nothing destroys a row that is not in the trash, and
\* no id comes back.
THEOREM CombosRefineLifecycle == Spec => CombosAreRecoverable
  <1>1. Init => ComboLifecycle!Init
    BY DEF Init, ComboLifecycle!Init, NoComboRow
  <1>2. ReferencesInv /\ [Next]_vars =>
          [ComboLifecycle!Next]_<<[c \in ComboIds |-> combos[c].st],
                                  [c \in ComboIds |-> combos[c].sup]>>
    <2> SUFFICES ASSUME ReferencesInv, [Next]_vars
                 PROVE  \/ ComboLifecycle!Next
                        \/ UNCHANGED <<[c \in ComboIds |-> combos[c].st],
                                       [c \in ComboIds |-> combos[c].sup]>>
      OBVIOUS
    <2>0. TypeOK /\ combos \in [ComboIds -> ComboRow] /\ ComboIds \subseteq 0 .. MaxCombo
      BY DEF ReferencesInv, TypeOK, ComboIds
    <2>a. ASSUME NEW c \in ComboIds, NextCombo(c) PROVE combos[c].sup = 0
      <3>1. combos[c].sup # 0 => /\ combos[c].sup \in ComboIds
                                 /\ combos[c].sup > c /\ Stored(combos[c].sup)
        BY <2>0 DEF ReferencesInv, ChainsHold, ComboRow, ComboIds
      <3> QED BY <2>a, <3>1 DEF ReferencesInv, AllocOrder, NextCombo, Stored, ComboIds
    <2>b. ASSUME NEW c \in ComboIds, NextCombo(c) PROVE ComboLifecycle!Fresh({c})
      BY <2>b DEF ComboLifecycle!Fresh, NextCombo
    <2>1. ASSUME NEW c \in ComboIds, NEW draft \in BOOLEAN, NEW recipe \in Recipes,
                 NEW hit \in HitTypes, NEW ka \in AdvantagesOrNull, NEW mat \in 0 .. MaxCombo,
                 Inserted(c, draft, recipe, hit, ka, mat)
          PROVE  ComboLifecycle!Next
      <3> DEFINE row == NewComboRow(draft, recipe, hit, ka, mat)
      <3>1. row.st = "live" /\ row.sup = 0
        BY DEF NewComboRow
      <3>2. combos' = [combos EXCEPT ![c] = row] /\ NextCombo(c)
        BY <2>1 DEF Inserted
      <3> HIDE DEF row
      <3>3. ComboLifecycle!Add({c})
        BY <2>0, <2>a, <2>b, <3>1, <3>2 DEF ComboLifecycle!Add
      <3> QED BY <3>3 DEF ComboLifecycle!Next
    <2>2. ASSUME NEW c \in ComboIds, NEW draft \in BOOLEAN, NEW ka \in AdvantagesOrNull,
                 Patched(c, draft, ka)
          PROVE  UNCHANGED <<[d \in ComboIds |-> combos[d].st], [d \in ComboIds |-> combos[d].sup]>>
      <3> DEFINE row == PatchedRow(combos[c], draft, ka)
      <3>1. row.st = combos[c].st /\ row.sup = combos[c].sup
        BY <2>0, <2>2, PatchedRowTyped DEF Patched
      <3>2. combos' = [combos EXCEPT ![c] = row]
        BY <2>2 DEF Patched
      <3> HIDE DEF row
      <3> QED BY <2>0, <3>1, <3>2
    <2>3. ASSUME NEW old \in ComboIds, NEW new \in ComboIds, NEW draft \in BOOLEAN,
                 NEW recipe \in Recipes, NEW hit \in HitTypes, NEW ka \in AdvantagesOrNull,
                 Replaced(old, new, draft, recipe, hit, ka)
          PROVE  ComboLifecycle!Next
      <3> DEFINE row == NewComboRow(draft, recipe, hit, ka, 0)
                 left == Superseded(combos[old], new)
      <3>1. row.st = "live" /\ row.sup = 0
        BY DEF NewComboRow
      <3>2. left.st = "trash" /\ left.sup = new
        BY <2>0, SupersededTyped
      <3>3. combos' = [combos EXCEPT ![old] = left, ![new] = row] /\ old # new
              /\ NextCombo(new) /\ Live(old)
        BY <2>3 DEF Replaced
      <3> HIDE DEF row, left
      <3>4. combos[new].sup = 0 /\ ComboLifecycle!Fresh({new}) /\ combos[old].st = "live"
        BY <2>a, <2>b, <3>3 DEF Live
      <3>5. ComboLifecycle!Replace(old, new)
        BY <2>0, <3>1, <3>2, <3>3, <3>4 DEF ComboLifecycle!Replace
      <3> QED BY <3>5 DEF ComboLifecycle!Next
    <2>4. ASSUME NEW c \in ComboIds, NEW st \in {"live", "trash"}, Toggled(c, st)
          PROVE  ComboLifecycle!Next
      <3> DEFINE row == [combos[c] EXCEPT !.st = st]
      <3>1. row.st = st /\ row.sup = combos[c].sup
        BY <2>0 DEF ComboRow
      <3>2. combos' = [combos EXCEPT ![c] = row]
        BY <2>4 DEF Toggled
      <3> HIDE DEF row
      <3>3. ComboLifecycle!Throw(c) \/ ComboLifecycle!Restore(c)
        BY <2>0, <2>4, <3>1, <3>2
           DEF Toggled, Live, InTrash, ComboLifecycle!Throw, ComboLifecycle!Restore
      <3> QED BY <3>3 DEF ComboLifecycle!Next
    <2>5. ASSUME NEW c \in ComboIds, PermanentDelete(c) PROVE ComboLifecycle!Next
      <3>1. combos'[c].st = "gone" /\ combos'[c].sup = 0 /\ combos[c].st = "trash"
        BY <2>5 DEF PermanentDelete, NoComboRow, InTrash
      <3>2. ASSUME NEW d \in ComboIds \ {c}
            PROVE  /\ combos'[d].st = combos[d].st
                   /\ combos'[d].sup = IF combos[d].sup = c THEN 0 ELSE combos[d].sup
        BY <2>0, <2>5, DetachedTyped DEF PermanentDelete
      <3>3. ComboLifecycle!Destroy(c)
        BY <3>1, <3>2 DEF ComboLifecycle!Destroy
      <3> QED BY <3>3 DEF ComboLifecycle!Next
    <2>6. CASE UNCHANGED combos
      BY <2>6
    <2> QED BY <2>0, ComboWriteForms, <2>1, <2>2, <2>3, <2>4, <2>5, <2>6 DEF ComboRowWrites
  <1> QED BY <1>1, <1>2, ReferencesInvariant, PTL
          DEF Spec, CombosAreRecoverable, ComboLifecycle!Spec

\* The same for setups: a registration adds one or several rows, an edit none.
THEOREM SetupsRefineLifecycle == Spec => SetupsAreRecoverable
  <1> DEFINE StepOrStutter == \/ SetupLifecycle!Next
                             \/ UNCHANGED <<[s \in SetupIds |-> setups[s].st],
                                            [s \in SetupIds |-> 0]>>
  <1>1. Init => SetupLifecycle!Init
    BY DEF Init, SetupLifecycle!Init, NoSetupRow
  <1>2. ASSUME TypeOK, [Next]_vars PROVE StepOrStutter
    <2>0. setups \in [SetupIds -> SetupRow]
      BY <1>2 DEF TypeOK
    <2>1. ASSUME NEW u \in Users, ComboCreate(u) PROVE SetupLifecycle!Next
      <3>1. PICK embedded \in EmbeddedSetups :
              \E draft, recipe, hit, ka, tagged, verified :
                Create(u, draft, recipe, hit, ka, tagged, embedded, verified)
        BY <2>1 DEF ComboCreate
      <3>2. PICK n \in SetupIds \cup {0} :
              DOMAIN embedded = {s \in SetupIds : setups[s].st = "none" /\ s =< n}
        <4> DEFINE Lowest(n) == {s \in SetupIds : setups[s].st = "none" /\ s =< n}
        <4>1. PICK ids \in {Lowest(n) : n \in SetupIds \cup {0}} : embedded \in [ids -> SetupRecipes]
          BY DEF EmbeddedSetups
        <4>2. DOMAIN embedded = ids
          BY <4>1
        <4> QED BY <4>1, <4>2
      <3>3. setups' = [s \in SetupIds |->
                         IF s \in DOMAIN embedded
                           THEN [st |-> "live", ver |-> 1, recipe |-> embedded[s]]
                           ELSE setups[s]]
        BY <3>1 DEF Create
      <3> DEFINE new == DOMAIN embedded
      <3>4. \A s \in SetupIds : setups'[s].st = IF s \in new THEN "live" ELSE setups[s].st
        BY <3>3
      <3>5. SetupLifecycle!Fresh(new) /\ new \in SUBSET SetupIds
        BY <3>2 DEF SetupLifecycle!Fresh, SetupIds
      <3> HIDE DEF new
      <3>6. SetupLifecycle!Add(new)
        BY <3>4, <3>5 DEF SetupLifecycle!Add
      <3> QED BY <3>5, <3>6 DEF SetupLifecycle!Next
    <2>2. ASSUME NEW c \in ComboIds, NEW s \in SetupIds, NEW recipe, NEW verified,
                 CreateSetup(s, c, recipe, verified)
          PROVE  SetupLifecycle!Next
      <3>1. SetupLifecycle!Fresh({s})
        BY <2>2 DEF CreateSetup, NextSetup, SetupLifecycle!Fresh
      <3>2. SetupLifecycle!Add({s})
        BY <2>0, <2>2, <3>1 DEF CreateSetup, SetupLifecycle!Add
      <3> QED BY <3>2 DEF SetupLifecycle!Next
    <2>3. ASSUME NEW u \in Users, NEW recipe \in SetupRecipes, UpdateSetup(u, recipe)
          PROVE  UNCHANGED <<[s \in SetupIds |-> setups[s].st], [s \in SetupIds |-> 0]>>
      <3> DEFINE t == setupForms[u].id
                 row == [setups[t] EXCEPT !.recipe = recipe, !.ver = @ + 1]
      <3>1. t \in SetupIds
        BY <1>2, <2>3 DEF UpdateSetup, TypeOK, SetupForm, SetupIds
      <3>2. setups' = [setups EXCEPT ![t] = row]
        BY <2>0, <2>3, <3>1 DEF UpdateSetup
      <3>3. row.st = setups[t].st
        BY <2>0, <3>1 DEF SetupRow
      <3> HIDE DEF row
      <3> QED BY <2>0, <3>1, <3>2, <3>3
    <2>4. ASSUME NEW s \in SetupIds, NEW c, DeleteSetup(s, c) \/ RestoreSetup(s)
          PROVE  SetupLifecycle!Next
      <3>1. PICK st \in {"live", "trash"} :
              /\ setups' = [setups EXCEPT ![s] = [setups[s] EXCEPT !.st = st]]
              /\ setups[s].st = IF st = "live" THEN "trash" ELSE "live"
        BY <2>0, <2>4 DEF DeleteSetup, RestoreSetup, LiveSetup, SetupInTrash
      <3> DEFINE row == [setups[s] EXCEPT !.st = st]
      <3>2. row.st = st /\ setups' = [setups EXCEPT ![s] = row]
        BY <2>0, <3>1 DEF SetupRow
      <3> HIDE DEF row
      <3>3. [t \in SetupIds |-> setups[t].st]' = [[t \in SetupIds |-> setups[t].st] EXCEPT ![s] = st]
        BY <2>0, <3>2
      <3>4. CASE st = "trash"
        <4>1. setups[s].st = "live"
          BY <3>1, <3>4
        <4>2. SetupLifecycle!Throw(s)
          BY <3>3, <3>4, <4>1 DEF SetupLifecycle!Throw
        <4> QED BY <4>2 DEF SetupLifecycle!Next
      <3>5. CASE st = "live"
        <4>1. setups[s].st = "trash"
          BY <3>1, <3>5
        <4>2. SetupLifecycle!Restore(s)
          BY <3>3, <3>5, <4>1 DEF SetupLifecycle!Restore
        <4> QED BY <4>2 DEF SetupLifecycle!Next
      <3> QED BY <3>4, <3>5
    <2>5. ASSUME NEW s \in SetupIds, PermanentDeleteSetup(s) PROVE SetupLifecycle!Next
      <3>1. SetupLifecycle!Destroy(s)
        BY <2>0, <2>5 DEF PermanentDeleteSetup, SetupInTrash, NoSetupRow, SetupLifecycle!Destroy
      <3> QED BY <3>1 DEF SetupLifecycle!Next
    <2>6. CASE UNCHANGED setups
      BY <2>6
    <2> QED BY <1>2, SetupsWritten, <2>1, <2>2, <2>3, <2>4, <2>5, <2>6 DEF SetupWrites
  <1>3. TypeOK /\ [Next]_vars =>
          [SetupLifecycle!Next]_<<[s \in SetupIds |-> setups[s].st], [s \in SetupIds |-> 0]>>
    BY <1>2
  <1> QED BY <1>1, <1>3, TypeCorrect, PTL
          DEF Spec, SetupsAreRecoverable, SetupLifecycle!Spec
=============================================================================
