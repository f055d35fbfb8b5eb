--------------------------- MODULE SetupLinkProofs ---------------------------
(***************************************************************************)
(* Proofs about the links between combos and setups in ComboStore: what a  *)
(* key change carries over, what becomes of links of setups in the trash,  *)
(* and where two setups with one recipe under one combo come from.         *)
(***************************************************************************)
EXTENDS ComboStoreProofs

-------------------------------------------------------------------------------
(* The writers of links.                                                     *)

\* A key change, freed of its form: the row new takes the place of old, without
\* the links in dropped, all of them of old and of setups that are not in the
\* trash.
KeyChange(old, new, dropped) ==
  /\ combos[new].st = "none" /\ old # new
  /\ \A p \in dropped : p[1] = old /\ LiveSetup(p[2])
  /\ combos'[old].sup = new
  /\ links' = Moved(links \ dropped, old, new)
  /\ results' = Moved(results \ dropped, old, new)
  /\ punishes' = Moved(punishes, old, new)
  /\ curations' = Moved(curations, old, new)
  /\ UNCHANGED setups

LEMMA KeyChangeForm ==
  ASSUME TypeOK, NEW u \in Users, NEW draft, NEW recipe, NEW hit, NEW ka, NEW tagged, NEW asked,
         NEW keep, UpdateWithKeyChange(u, draft, recipe, hit, ka, tagged, asked, keep)
  PROVE  \E old, new \in ComboIds : \E dropped :
           /\ KeyChange(old, new, dropped)
           /\ \A c \in ComboIds \ {old} : combos'[c].sup \in {0, combos[c].sup}
  <1> DEFINE old == forms[u].id
             dropped == IF asked THEN Dropped(old, keep) ELSE {}
             row == NewComboRow(draft, recipe, hit, ka, 0)
  <1>1. old \in ComboIds
    BY DEF UpdateWithKeyChange, TypeOK, ComboForm, ComboIds
  <1>2. PICK new \in ComboIds :
          /\ NextCombo(new) /\ Live(old)
          /\ combos' = [combos EXCEPT ![old].st = "trash", ![old].sup = new, ![new] = row]
          /\ links' = Moved(links \ dropped, old, new)
          /\ results' = Moved(results \ dropped, old, new)
          /\ punishes' = Moved(punishes, old, new)
          /\ curations' = Moved(curations, old, new)
          /\ setups' = setups
    BY DEF UpdateWithKeyChange
  <1>3. combos[new].st = "none" /\ old # new BY <1>2 DEF NextCombo, Live
  <1>4. \A p \in dropped : p[1] = old /\ LiveSetup(p[2]) BY DEF Dropped
  <1>5. row.sup = 0 BY DEF NewComboRow
  <1>6. combos \in [ComboIds -> ComboRow] BY DEF TypeOK
  <1> HIDE DEF old, dropped, row
  <1>7. /\ combos'[old].sup = new
        /\ \A c \in ComboIds \ {old} : combos'[c].sup \in {0, combos[c].sup}
    BY <1>1, <1>2, <1>3, <1>5, <1>6 DEF ComboRow
  <1> QED BY <1>1, <1>2, <1>3, <1>4, <1>7 DEF KeyChange

LinkWrites ==
  \/ \E old, new \in ComboIds : \E dropped : KeyChange(old, new, dropped)
  \/ \E c, keep : links' = links \ Dropped(c, keep) /\ UNCHANGED setups
  \/ \E c \in ComboIds : PermanentDelete(c)
  \/ \E c \in ComboIds, s \in SetupIds : DeleteSetupLink(c, s)
  \/ \E s \in SetupIds : \E c : DeleteSetup(s, c) \/ RestoreSetup(s) \/ PermanentDeleteSetup(s)
  \/ \E w \in Workers : LinkInsert(w)
  \/ \E c \in ComboIds, s \in SetupIds : \E recipe, verified : CreateSetup(s, c, recipe, verified)
  \/ \E u \in Users : ComboCreate(u)
  \/ \E u \in Users, recipe \in SetupRecipes : UpdateSetup(u, recipe)
  \/ UNCHANGED <<links, setups>>

LEMMA LinksWritten ==
  ASSUME TypeOK, [Next]_vars
  PROVE  LinkWrites
  <1>1. ASSUME NEW u \in Users, ComboEdit(u) PROVE LinkWrites
    <2>1. ASSUME NEW draft, NEW ka, NEW tagged, NEW asked, NEW keep,
                 UpdateMetadata(u, draft, ka, tagged, asked, keep)
          PROVE  LinkWrites
      BY <2>1 DEF UpdateMetadata, LinkWrites
    <2>2. ASSUME NEW draft, NEW recipe, NEW hit, NEW ka, NEW tagged, NEW asked, NEW keep,
                 UpdateWithKeyChange(u, draft, recipe, hit, ka, tagged, asked, keep)
          PROVE  LinkWrites
      BY <2>2, KeyChangeForm DEF LinkWrites
    <2> QED BY <1>1, <2>1, <2>2 DEF ComboEdit
  <1>2. CASE ComboNext
    <2>1. ASSUME NEW u \in Users, NEW c \in ComboIds,
                 OpenForm(u, c) \/ Delete(c) \/ Restore(c)
          PROVE  UNCHANGED <<links, setups>>
      BY <2>1 DEF OpenForm, Delete, Restore, linkTables
    <2>2. ASSUME NEW u \in Users, RefetchForm(u) \/ CloseForm(u)
          PROVE  UNCHANGED <<links, setups>>
      BY <2>2 DEF RefetchForm, CloseForm, linkTables
    <2>3. ASSUME NEW c \in ComboIds, Delete(c) \/ Restore(c) PROVE UNCHANGED <<links, setups>>
      BY <2>3 DEF Delete, Restore, linkTables
    <2> QED BY <1>1, <1>2, <2>1, <2>2, <2>3 DEF ComboNext, LinkWrites
  <1>3. CASE SetupNext
    <2>1. ASSUME NEW c \in ComboIds, NEW s \in SetupIds, UpsertResult(c, s) \/ DeleteResult(c, s)
          PROVE  UNCHANGED <<links, setups>>
      BY <2>1 DEF UpsertResult, DeleteResult
    <2>2. ASSUME NEW u, NEW w, NEW c, NEW s, OpenSetupForm(u, s) \/ LinkCheck(w, c, s)
          PROVE  UNCHANGED <<links, setups>>
      BY <2>2 DEF OpenSetupForm, LinkCheck, linkTables
    <2> QED BY <1>3, <2>1, <2>2 DEF SetupNext, LinkWrites
  <1>4. CASE PunishNext
    BY <1>4, PunishSteps DEF LinkWrites
  <1>5. CASE UNCHANGED vars
    BY <1>5 DEF vars, LinkWrites
  <1> QED BY <1>2, <1>3, <1>4, <1>5 DEF Next

-------------------------------------------------------------------------------
(* What a key change carries.                                                *)

\* Nothing hangs off an id that was never used.
LEMMA FreshHasNothing ==
  ASSUME ReferencesInv, NEW new \in ComboIds, combos[new].st = "none"
  PROVE  \A p \in links \cup results \cup punishes \cup curations : p[1] # new
  BY DEF ReferencesInv, LinksHold, RowsHold, Stored

LEMMA MovedRows ==
  ASSUME NEW rel, NEW old, NEW new, new # old
  PROVE  /\ Of(old, Moved(rel, old, new)) = {}
         /\ \A c, x : <<c, x>> \in rel => <<IF c = old THEN new ELSE c, x>> \in Moved(rel, old, new)
  BY DEF Of, Moved

\* Nothing but a key change gives a row a successor.
LEMMA OnlyKeyChangeSupersedes ==
  ASSUME TypeOK, [Next]_vars, NEW c \in ComboIds, combos'[c].sup \notin {0, combos[c].sup}
  PROVE  \E new \in ComboIds : \E dropped : KeyChange(c, new, dropped)
  <1>1. combos \in [ComboIds -> ComboRow] BY DEF TypeOK
  <1> DEFINE Quiet == combos'[c].sup \in {0, combos[c].sup}
  <1>2. ASSUME NEW d \in ComboIds, NEW row, row.sup = 0, combos' = [combos EXCEPT ![d] = row]
        PROVE  Quiet
    BY <1>1, <1>2
  <1>3. ASSUME NEW u \in Users, ComboCreate(u) PROVE Quiet
    <2>1. PICK draft, recipe, hit, ka, tagged, embedded, verified :
            Create(u, draft, recipe, hit, ka, tagged, embedded, verified)
      BY <1>3 DEF ComboCreate
    <2> DEFINE row == NewComboRow(draft, recipe, hit, ka, 0)
    <2>2. PICK d \in ComboIds : combos' = [combos EXCEPT ![d] = row] BY <2>1 DEF Create
    <2>3. row.sup = 0 BY DEF NewComboRow
    <2> QED BY <1>2, <2>2, <2>3
  <1>4. ASSUME NEW w \in Workers, MaterializeGenerate(w) PROVE Quiet
    <2> DEFINE q == requests[w]
               row == NewComboRow(q.draft, q.recipe, "punish", q.ka, q.base)
    <2>1. PICK d \in ComboIds : combos' = [combos EXCEPT ![d] = row]
      BY <1>4 DEF MaterializeGenerate
    <2>2. row.sup = 0 BY DEF NewComboRow
    <2> QED BY <1>2, <2>1, <2>2
  <1>5. ASSUME NEW u \in Users, NEW draft \in BOOLEAN, NEW ka \in AdvantagesOrNull, NEW tagged,
               NEW asked, NEW keep, UpdateMetadata(u, draft, ka, tagged, asked, keep)
        PROVE  Quiet
    <2> DEFINE d == forms[u].id
               row == PatchedRow(combos[d], draft, ka)
    <2>1. d \in ComboIds BY <1>5 DEF UpdateMetadata, TypeOK, ComboForm, ComboIds
    <2>2. row.sup = combos[d].sup
      BY <1>1, <1>5, <2>1, PatchedRowTyped DEF UpdateMetadata
    <2>3. combos' = [combos EXCEPT ![d] = row] BY <1>1, <1>5, <2>1 DEF UpdateMetadata
    <2> HIDE DEF d, row
    <2> QED BY <1>1, <2>1, <2>2, <2>3
  <1>6. ASSUME NEW d \in ComboIds, Delete(d) \/ Restore(d) PROVE Quiet
    BY <1>1, <1>6 DEF Delete, Restore, ComboRow
  <1>7. ASSUME NEW d \in ComboIds, PermanentDelete(d) PROVE Quiet
    <2>1. c = d => combos'[c].sup = 0 BY <1>7 DEF PermanentDelete, NoComboRow
    <2>2. c # d => combos'[c].sup \in {0, combos[c].sup}
      BY <1>1, <1>7, DetachedTyped DEF PermanentDelete
    <2> QED BY <2>1, <2>2
  <1>8. \E u \in Users : ComboEdit(u)
    BY <1>3, <1>4, <1>6, <1>7, CombosWritten DEF ComboWrites
  <1>9. PICK u \in Users : \E draft, recipe, hit, ka, tagged, asked, keep :
          UpdateWithKeyChange(u, draft, recipe, hit, ka, tagged, asked, keep)
    BY <1>5, <1>8 DEF ComboEdit
  <1>10. PICK draft, recipe, hit, ka, tagged, asked, keep :
           UpdateWithKeyChange(u, draft, recipe, hit, ka, tagged, asked, keep)
    BY <1>9
  <1>11. \E old, new \in ComboIds : \E dropped :
           /\ KeyChange(old, new, dropped)
           /\ \A d \in ComboIds \ {old} : combos'[d].sup \in {0, combos[d].sup}
    BY <1>10, KeyChangeForm
  <1> QED BY <1>11

\* Whatever other requests insert between the loading of a form and its save, a key
\* change leaves nothing on the old row and loses no result and no adoption.
THEOREM KeyChangesCarry == Spec => KeyChangeCarries
  <1> DEFINE Carried(c) ==
        LET new == combos'[c].sup IN
          /\ Of(c, links') = {} /\ Of(c, results') = {}
          /\ Of(c, punishes') = {} /\ Of(c, curations') = {}
          /\ \A s \in SetupIds :
               <<c, s>> \in results /\ <<new, s>> \in links' => <<new, s>> \in results'
          /\ \A m \in OppMoves : <<c, m>> \in punishes => <<new, m>> \in punishes'
          /\ \A m \in OppMoves : <<c, m>> \in curations => <<new, m>> \in curations'
  <1>1. ASSUME ReferencesInv, [Next]_vars, NEW c \in ComboIds,
               combos'[c].sup \notin {0, combos[c].sup}
        PROVE  Carried(c)
    <2>0. PICK new \in ComboIds : \E dropped : KeyChange(c, new, dropped)
      BY <1>1, OnlyKeyChangeSupersedes DEF ReferencesInv
    <2>1. PICK dropped : KeyChange(c, new, dropped) BY <2>0
    <2>2. c # new /\ combos'[c].sup = new BY <2>1 DEF KeyChange
    <2>3. /\ Of(c, links') = {} /\ Of(c, results') = {}
          /\ Of(c, punishes') = {} /\ Of(c, curations') = {}
      BY <2>1, <2>2, MovedRows DEF KeyChange
    <2>4. ASSUME NEW s \in SetupIds, <<c, s>> \in results, <<new, s>> \in links'
          PROVE  <<new, s>> \in results'
      <3>1. PICK p \in links \ dropped : <<new, s>> = <<IF p[1] = c THEN new ELSE p[1], p[2]>>
        BY <2>1, <2>4 DEF KeyChange, Moved
      <3>2. p \in ComboIds \X SetupIds /\ p[1] # new
        BY <1>1, <2>1, FreshHasNothing DEF KeyChange, ReferencesInv, TypeOK
      <3>3. p = <<c, s>> BY <3>1, <3>2
      <3> QED BY <2>1, <2>2, <2>4, <3>1, <3>3, MovedRows DEF KeyChange
    <2>5. /\ \A m \in OppMoves : <<c, m>> \in punishes => <<new, m>> \in punishes'
          /\ \A m \in OppMoves : <<c, m>> \in curations => <<new, m>> \in curations'
      BY <2>1, <2>2, MovedRows DEF KeyChange
    <2> QED BY <2>2, <2>3, <2>4, <2>5
  <1>2. ASSUME ReferencesInv, [Next]_vars
        PROVE  [\A c \in ComboIds : combos'[c].sup \notin {0, combos[c].sup} => Carried(c)]_vars
    BY <1>1, <1>2
  <1>3. Spec => [][Next]_vars BY DEF Spec
  <1> QED BY <1>2, <1>3, ReferencesInvariant, PTL DEF KeyChangeCarries

-------------------------------------------------------------------------------
(* Links of setups in the trash.                                             *)

\* A setup in the trash loses no link to a save, a refused link request or anybody
\* else's clean-up: what is restored hangs where it hung.
THEOREM HiddenLinksKept == Spec => HiddenLinksSurvive
  <1> DEFINE Survives(c, s) == \/ <<c, s>> \in links'
                               \/ DeleteSetupLink(c, s)
                               \/ combos'[c].st = "gone"
                               \/ <<combos'[c].sup, s>> \in links' \ links
  <1>1. ASSUME ReferencesInv, [Next]_vars, NEW c \in ComboIds, NEW s \in SetupIds,
               <<c, s>> \in links, SetupInTrash(s), SetupInTrash(s)'
        PROVE  Survives(c, s)
    <2>1. ~LiveSetup(s) /\ setups'[s].st = "trash" BY <1>1 DEF SetupInTrash, LiveSetup
    <2>2. ASSUME NEW old \in ComboIds, NEW new \in ComboIds, NEW dropped,
                 KeyChange(old, new, dropped)
          PROVE  Survives(c, s)
      <3>1. <<c, s>> \in links \ dropped BY <1>1, <2>1, <2>2 DEF KeyChange
      <3>2. <<IF c = old THEN new ELSE c, s>> \in links'
        BY <2>2, <3>1, MovedRows DEF KeyChange
      <3>3. <<new, s>> \notin links BY <1>1, <2>2, FreshHasNothing DEF KeyChange
      <3> QED BY <2>2, <3>2, <3>3 DEF KeyChange
    <2>3. ASSUME NEW d, NEW keep, links' = links \ Dropped(d, keep) PROVE Survives(c, s)
      BY <1>1, <2>1, <2>3 DEF Dropped
    <2>4. ASSUME NEW d \in ComboIds, PermanentDelete(d) PROVE Survives(c, s)
      BY <1>1, <2>4 DEF PermanentDelete, Of, NoComboRow
    <2>5. ASSUME NEW d \in ComboIds, NEW t \in SetupIds, DeleteSetupLink(d, t)
          PROVE  Survives(c, s)
      BY <1>1, <2>5 DEF DeleteSetupLink
    <2>6. ASSUME NEW t \in SetupIds, NEW d,
                 DeleteSetup(t, d) \/ RestoreSetup(t) \/ PermanentDeleteSetup(t)
          PROVE  Survives(c, s)
      <3>1. CASE DeleteSetup(t, d) BY <1>1, <2>1, <3>1 DEF DeleteSetup
      <3>2. CASE RestoreSetup(t) BY <1>1, <3>2 DEF RestoreSetup, linkTables
      <3>3. CASE PermanentDeleteSetup(t)
        <4>1. t # s
          BY <1>1, <2>1, <3>3 DEF PermanentDeleteSetup, NoSetupRow, ReferencesInv, TypeOK
        <4> QED BY <1>1, <3>3, <4>1 DEF PermanentDeleteSetup
      <3> QED BY <2>6, <3>1, <3>2, <3>3
    <2>7. ASSUME NEW w \in Workers, LinkInsert(w) PROVE Survives(c, s)
      BY <1>1, <2>7 DEF LinkInsert
    <2>8. ASSUME NEW d \in ComboIds, NEW t \in SetupIds, NEW recipe, NEW verified,
                 CreateSetup(t, d, recipe, verified)
          PROVE  Survives(c, s)
      BY <1>1, <2>8 DEF CreateSetup
    <2>9. ASSUME NEW u \in Users, ComboCreate(u) PROVE Survives(c, s)
      BY <1>1, <2>9 DEF ComboCreate, Create
    <2>10. ASSUME NEW u \in Users, NEW recipe, UpdateSetup(u, recipe) PROVE Survives(c, s)
      BY <1>1, <2>10 DEF UpdateSetup, linkTables
    <2> HIDE DEF Survives
    <2>11. UNCHANGED <<links, setups>> => Survives(c, s) BY <1>1 DEF Survives
    <2>12. LinkWrites BY <1>1, LinksWritten DEF ReferencesInv
    <2> QED BY <2>2, <2>3, <2>4, <2>5, <2>6, <2>7, <2>8, <2>9, <2>10, <2>11, <2>12 DEF LinkWrites
  <1>2. ASSUME ReferencesInv, [Next]_vars
        PROVE  [\A c \in ComboIds, s \in SetupIds :
                  (<<c, s>> \in links /\ SetupInTrash(s) /\ SetupInTrash(s)') => Survives(c, s)]_vars
    BY <1>1, <1>2
  <1>3. Spec => [][Next]_vars BY DEF Spec
  <1> QED BY <1>2, <1>3, ReferencesInvariant, PTL DEF HiddenLinksSurvive

-------------------------------------------------------------------------------
(* Setups with one recipe under one combo.                                   *)

\* Neither the registration of a setup, alone or with its combo, nor an edit makes
\* two live setups of one combo with the same recipe (VAL-S04).
THEOREM SetupTwinsFromElsewhere == Spec => NoNewSetupTwins
  <1> DEFINE Known(c, s, t) ==
        \/ SetupTwins(c, s, t)
        \/ SetupInTrash(s) \/ SetupInTrash(t)
        \/ \E w \in Workers : LinkInsert(w)
        \/ \E old \in ComboIds : combos'[old].sup = c /\ SetupTwins(old, s, t)
  <1>1. ASSUME ReferencesInv, [Next]_vars, NEW c \in ComboIds, NEW s \in SetupIds,
               NEW t \in SetupIds, SetupTwins(c, s, t)'
        PROVE  Known(c, s, t)
    <2>1. /\ s # t /\ <<c, s>> \in links' /\ <<c, t>> \in links'
          /\ setups'[s].st = "live" /\ setups'[t].st = "live"
          /\ setups'[s].recipe = setups'[t].recipe
      BY <1>1 DEF SetupTwins, LiveSetup
    <2>2. /\ setups \in [SetupIds -> SetupRow] /\ links \subseteq ComboIds \X SetupIds
          /\ LinksHold /\ TypeOK
      BY <1>1 DEF ReferencesInv, TypeOK
    <2> HIDE DEF Known
    <2>3. ASSUME UNCHANGED setups, <<c, s>> \in links, <<c, t>> \in links PROVE Known(c, s, t)
      BY <2>1, <2>3 DEF Known, SetupTwins, LiveSetup
    <2>4. ASSUME NEW old \in ComboIds, NEW new \in ComboIds, NEW dropped,
                 KeyChange(old, new, dropped)
          PROVE  Known(c, s, t)
      <3>1. ASSUME NEW x \in SetupIds, <<c, x>> \in links'
            PROVE  (c = new /\ <<old, x>> \in links) \/ (c # new /\ <<c, x>> \in links)
        <4>1. PICK p \in links : <<c, x>> = <<IF p[1] = old THEN new ELSE p[1], p[2]>>
          BY <2>4, <3>1 DEF KeyChange, Moved
        <4>2. p = <<p[1], p[2]>> /\ p[1] # new
          BY <1>1, <2>2, <2>4, FreshHasNothing DEF KeyChange
        <4> QED BY <4>1, <4>2
      <3>2. CASE c # new BY <2>1, <2>3, <2>4, <3>1, <3>2 DEF KeyChange
      <3>3. CASE c = new
        <4>1. SetupTwins(old, s, t)
          BY <2>1, <2>4, <3>1, <3>3 DEF KeyChange, SetupTwins, LiveSetup
        <4> QED BY <2>4, <3>3, <4>1 DEF KeyChange, Known
      <3> QED BY <3>2, <3>3
    <2>5. ASSUME NEW d, NEW keep, links' = links \ Dropped(d, keep), UNCHANGED setups
          PROVE  Known(c, s, t)
      BY <2>1, <2>3, <2>5
    <2>6. ASSUME NEW d \in ComboIds, PermanentDelete(d) PROVE Known(c, s, t)
      BY <2>1, <2>3, <2>6 DEF PermanentDelete
    <2>7. ASSUME NEW d \in ComboIds, NEW x \in SetupIds, DeleteSetupLink(d, x)
          PROVE  Known(c, s, t)
      BY <2>1, <2>3, <2>7 DEF DeleteSetupLink
    \* A setup goes into the trash, out of it or out of the table.
    <2>8. ASSUME NEW x \in SetupIds, NEW d,
                 DeleteSetup(x, d) \/ RestoreSetup(x) \/ PermanentDeleteSetup(x)
          PROVE  Known(c, s, t)
      <3>1. <<c, s>> \in links /\ <<c, t>> \in links
        BY <2>1, <2>8 DEF DeleteSetup, RestoreSetup, PermanentDeleteSetup, linkTables
      <3>2. ASSUME NEW y \in SetupIds, setups'[y].st = "live", ~SetupInTrash(y)
            PROVE  setups'[y] = setups[y]
        BY <2>2, <2>8, <3>2
        DEF DeleteSetup, RestoreSetup, PermanentDeleteSetup, SetupInTrash, NoSetupRow, SetupRow
      <3> QED BY <2>1, <3>1, <3>2 DEF Known, SetupTwins, LiveSetup
    <2>9. ASSUME NEW w \in Workers, LinkInsert(w) PROVE Known(c, s, t)
      BY <2>9 DEF Known
    <2>10. ASSUME NEW d \in ComboIds, NEW x \in SetupIds, NEW recipe, NEW verified,
                  CreateSetup(x, d, recipe, verified)
           PROVE  Known(c, s, t)
      <3>1. \A e \in ComboIds : <<e, x>> \notin links
        BY <2>2, <2>10 DEF CreateSetup, NextSetup, LinksHold, StoredSetup
      <3>2. /\ setups'[x].recipe = recipe
            /\ \A y \in SetupIds \ {x} : setups'[y] = setups[y]
        BY <2>2, <2>10 DEF CreateSetup
      <3>3. links' = links \cup {<<d, x>>} /\ ~DupSetup(d, recipe, {})
        BY <2>10 DEF CreateSetup
      <3>4. ASSUME NEW y \in SetupIds \ {x}, <<d, y>> \in links, setups'[y].st = "live"
            PROVE  setups'[y].recipe # recipe
        BY <3>2, <3>3, <3>4 DEF DupSetup, LiveSetup
      <3>5. s # x /\ t # x BY <2>1, <3>1, <3>2, <3>3, <3>4
      <3> QED BY <2>1, <3>2, <3>3, <3>5 DEF Known, SetupTwins, LiveSetup
    <2>11. ASSUME NEW u \in Users, ComboCreate(u) PROVE Known(c, s, t)
      <3>1. PICK embedded \in EmbeddedSetups :
              \E draft, recipe, hit, ka, tagged, verified :
                Create(u, draft, recipe, hit, ka, tagged, embedded, verified)
        BY <2>11 DEF ComboCreate
      <3>2. PICK d \in ComboIds :
              NextCombo(d) /\ links' = links \cup {<<d, x>> : x \in DOMAIN embedded}
        BY <3>1 DEF Create
      <3>3. \A x \in SetupIds : setups'[x] = IF x \in DOMAIN embedded
                                               THEN [st |-> "live", ver |-> 1, recipe |-> embedded[x]]
                                               ELSE setups[x]
        BY <3>1 DEF Create
      <3>4. /\ \A x \in DOMAIN embedded : x \in SetupIds /\ setups[x].st = "none"
            /\ \A x, y \in DOMAIN embedded : embedded[x] = embedded[y] => x = y
        BY DEF EmbeddedSetups
      <3>5. \A e \in ComboIds : \A x \in DOMAIN embedded : <<e, x>> \notin links
        BY <2>2, <3>4 DEF LinksHold, StoredSetup
      <3>6. \A x \in SetupIds : <<d, x>> \notin links
        BY <1>1, <3>2, FreshHasNothing DEF NextCombo
      <3>7. CASE c = d
        <4>1. s \in DOMAIN embedded /\ t \in DOMAIN embedded BY <2>1, <3>2, <3>6, <3>7
        <4>2. setups'[s].recipe = embedded[s] /\ setups'[t].recipe = embedded[t]
          <5> DEFINE new(x) == [st |-> "live", ver |-> 1, recipe |-> embedded[x]]
          <5>1. \A x : new(x).recipe = embedded[x] OBVIOUS
          <5>2. setups'[s] = new(s) /\ setups'[t] = new(t) BY <3>3, <4>1
          <5> HIDE DEF new
          <5> QED BY <5>1, <5>2
        <4> QED BY <2>1, <3>4, <4>1, <4>2
      <3>8. CASE c # d
        <4>1. <<c, s>> \in links /\ <<c, t>> \in links BY <2>1, <3>2, <3>8
        <4>2. setups'[s] = setups[s] /\ setups'[t] = setups[t] BY <3>3, <3>5, <4>1
        <4> QED BY <2>1, <4>1, <4>2 DEF Known, SetupTwins, LiveSetup
      <3> QED BY <3>7, <3>8
    <2>12. ASSUME NEW u \in Users, NEW recipe \in SetupRecipes, UpdateSetup(u, recipe)
           PROVE  Known(c, s, t)
      <3> DEFINE x == setupForms[u].id
      <3>1. x \in SetupIds /\ LiveSetup(x)
        BY <2>2, <2>12 DEF UpdateSetup, TypeOK, SetupForm, SetupIds
      <3>2. UNCHANGED links BY <2>12 DEF UpdateSetup, linkTables
      <3>3. /\ setups'[x].recipe = recipe
            /\ \A y \in SetupIds \ {x} : setups'[y] = setups[y]
        BY <2>2, <2>12, <3>1 DEF UpdateSetup, SetupRow
      <3>4. CASE recipe = setups[x].recipe
        BY <2>1, <3>1, <3>2, <3>3, <3>4 DEF Known, SetupTwins, LiveSetup
      <3>5. CASE recipe # setups[x].recipe
        <4>1. \A e \in ComboIds : <<e, x>> \in links => ~DupSetup(e, recipe, {x})
          BY <2>12, <3>5 DEF UpdateSetup
        <4>2. ASSUME NEW y \in SetupIds \ {x}, <<c, x>> \in links, <<c, y>> \in links,
                     setups'[y].st = "live"
              PROVE  setups'[y].recipe # recipe
          BY <3>3, <4>1, <4>2 DEF DupSetup, LiveSetup
        <4>3. s # x /\ t # x BY <2>1, <3>2, <3>3, <4>2
        <4> QED BY <2>1, <3>2, <3>3, <4>3 DEF Known, SetupTwins, LiveSetup
      <3> QED BY <3>4, <3>5
    <2>13. UNCHANGED <<links, setups>> => Known(c, s, t) BY <2>1, <2>3
    <2>14. LinkWrites BY <1>1, LinksWritten DEF ReferencesInv
    <2> QED BY <2>4, <2>5, <2>6, <2>7, <2>8, <2>9, <2>10, <2>11, <2>12, <2>13, <2>14 DEF LinkWrites
  <1>2. ASSUME ReferencesInv, [Next]_vars
        PROVE  [\A c \in ComboIds, s, t \in SetupIds :
                  SetupTwins(c, s, t)' => Known(c, s, t)]_vars
    BY <1>1, <1>2
  <1>3. Spec => [][Next]_vars BY DEF Spec
  <1> QED BY <1>2, <1>3, ReferencesInvariant, PTL DEF NoNewSetupTwins
=============================================================================
