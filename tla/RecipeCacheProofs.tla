-------------------------- MODULE RecipeCacheProofs --------------------------
(***************************************************************************)
(* What holds of notation presets and recipe texts for any number of rows, *)
(* presets, users and requests: the types, the rules of presets, that a    *)
(* text shows the present steps, and, for rows that no reader fills, that  *)
(* texts are fresh and none outlives its preset.                           *)
(***************************************************************************)
EXTENDS RecipeCache, FiniteSetTheorems, TLAPS

USE BoundsAssumption, SentinelsAssumption, RowsAssumption

-------------------------------------------------------------------------------
(* Functions on some of the preset ids, and texts.                           *)

LEMMA WithFacts ==
  ASSUME NEW S, NEW f, Partial(f, S), NEW k \in PresetIds, NEW v \in S
  PROVE  /\ Partial(With(f, k, v), S)
         /\ DOMAIN With(f, k, v) = DOMAIN f \cup {k}
         /\ With(f, k, v)[k] = v
         /\ \A x \in DOMAIN f \ {k} : With(f, k, v)[x] = f[x]
  BY DEF With, Partial

LEMMA WithoutFacts ==
  ASSUME NEW S, NEW f, Partial(f, S), NEW k
  PROVE  /\ Partial(Without(f, k), S)
         /\ DOMAIN Without(f, k) = DOMAIN f \ {k}
         /\ \A x \in DOMAIN f \ {k} : Without(f, k)[x] = f[x]
  BY DEF Without, Partial

LEMMA NoTextsFacts ==
  /\ Partial(NoTexts, Texts)
  /\ DOMAIN NoTexts = {}
  BY DEF NoTexts, Partial

LEMMA PresetFields ==
  ASSUME TypeOK, NEW p \in DOMAIN presets
  PROVE  /\ p \in PresetIds
         /\ presets[p].owner \in Users \cup {Nobody}
         /\ presets[p].name \in Names \cup {NoName}
         /\ presets[p].edit \in 0 .. MaxEdit
  BY DEF TypeOK, Partial, Preset

LEMMA AllTextsFacts ==
  ASSUME TypeOK, NEW s \in Recipes
  PROVE  /\ Partial(AllTexts(s), Texts)
         /\ DOMAIN AllTexts(s) = DOMAIN presets
         /\ \A p \in DOMAIN presets :
              AllTexts(s)[p] = Text(p, s) /\ Text(p, s) \in Texts /\ Text(p, s).steps = s
  <1>1. \A p \in DOMAIN presets : Text(p, s) \in Texts /\ Text(p, s).steps = s
    BY PresetFields DEF Text, Texts
  <1>2. DOMAIN presets \subseteq PresetIds
    BY PresetFields
  <1> QED BY <1>1, <1>2 DEF AllTexts, Partial

LEMMA RowFields ==
  ASSUME TypeOK, NEW r \in Rows
  PROVE  rows[r].st \in {"none", "live", "trash"} /\ rows[r].steps \in Recipes
  BY DEF TypeOK, Row

-------------------------------------------------------------------------------
(* Types.                                                                    *)

RequestTyped(x) == Partial(x.copy, Texts) /\ x \in Request(x.copy)

PresetsTyped ==
  /\ Partial(presets, Preset) /\ nextPreset \in NBuiltin + 1 .. MaxPreset + 1
  /\ default \in PresetIds /\ owed \subseteq PresetIds
RowsTyped == rows \in [Rows -> Row]
CachesTyped == DOMAIN cache = Rows /\ \A r \in Rows : Partial(cache[r], Texts)
RequestsTyped == DOMAIN req = Workers /\ \A w \in Workers : RequestTyped(req[w])

LEMMA TypeParts == TypeOK <=> PresetsTyped /\ RowsTyped /\ CachesTyped /\ RequestsTyped
  BY DEF TypeOK, PresetsTyped, RowsTyped, CachesTyped, RequestsTyped, RequestTyped

LEMMA OfficialTyped == Official \in PresetIds
  BY DEF Official, PresetIds

LEMMA RequestFields ==
  ASSUME NEW x, RequestTyped(x)
  PROVE  /\ x.at \in Steps /\ x.id \in PresetIds /\ x.name \in Names \cup {NoName}
         /\ x.row \in Rows \cup {NoRow} /\ x.locked \in BOOLEAN /\ Partial(x.copy, Texts)
         /\ DOMAIN x = {"at", "id", "name", "row", "copy", "locked"}
  BY DEF RequestTyped, Request

\* A request is given by its fields.
LEMMA RequestIntro ==
  ASSUME NEW at \in Steps, NEW id \in PresetIds, NEW name \in Names \cup {NoName},
         NEW row \in Rows \cup {NoRow}, NEW copy, Partial(copy, Texts),
         NEW locked \in BOOLEAN
  PROVE  RequestTyped([at |-> at, id |-> id, name |-> name, row |-> row,
                       copy |-> copy, locked |-> locked])
  BY DEF RequestTyped, Request

LEMMA IdleTyped == RequestTyped(Idle) /\ Idle.at = "idle"
  <1>1. "idle" \in Steps /\ NoName \in Names \cup {NoName} /\ NoRow \in Rows \cup {NoRow}
    BY DEF Steps
  <1> QED BY <1>1, OfficialTyped, NoTextsFacts, RequestIntro DEF Idle

\* The requests that begin from Idle.
LEMMA BegunTyped ==
  ASSUME NEW at \in Steps, NEW p \in PresetIds
  PROVE  /\ RequestTyped([Idle EXCEPT !.at = at, !.id = p])
         /\ \A n \in Names \cup {NoName} :
              RequestTyped([Idle EXCEPT !.at = at, !.id = p, !.name = n])
         /\ RequestTyped([Idle EXCEPT !.at = at, !.id = p, !.locked = TRUE])
         /\ \A r \in Rows : RequestTyped([Idle EXCEPT !.at = at, !.id = p, !.row = r])
  <1>1. RequestTyped(Idle) /\ Idle.copy = NoTexts
    BY IdleTyped DEF Idle
  <1>2. Idle \in Request(NoTexts)
    BY <1>1 DEF RequestTyped
  <1>3. [Idle EXCEPT !.at = at, !.id = p] \in Request(NoTexts)
        /\ [Idle EXCEPT !.at = at, !.id = p].copy = NoTexts
    BY <1>2 DEF Request
  <1>4. ASSUME NEW n \in Names \cup {NoName}
        PROVE  [Idle EXCEPT !.at = at, !.id = p, !.name = n] \in Request(NoTexts)
               /\ [Idle EXCEPT !.at = at, !.id = p, !.name = n].copy = NoTexts
    BY <1>2 DEF Request
  <1>5. [Idle EXCEPT !.at = at, !.id = p, !.locked = TRUE] \in Request(NoTexts)
        /\ [Idle EXCEPT !.at = at, !.id = p, !.locked = TRUE].copy = NoTexts
    BY <1>2 DEF Request
  <1>6. ASSUME NEW r \in Rows
        PROVE  [Idle EXCEPT !.at = at, !.id = p, !.row = r] \in Request(NoTexts)
               /\ [Idle EXCEPT !.at = at, !.id = p, !.row = r].copy = NoTexts
    BY <1>2 DEF Request
  <1> QED BY <1>3, <1>4, <1>5, <1>6, NoTextsFacts DEF RequestTyped

LEMMA BegunFields ==
  ASSUME NEW at, NEW p
  PROVE  /\ [Idle EXCEPT !.at = at, !.id = p].at = at
         /\ [Idle EXCEPT !.at = at, !.id = p].id = p
         /\ \A n : /\ [Idle EXCEPT !.at = at, !.id = p, !.name = n].at = at
                  /\ [Idle EXCEPT !.at = at, !.id = p, !.name = n].id = p
                  /\ [Idle EXCEPT !.at = at, !.id = p, !.name = n].name = n
         /\ [Idle EXCEPT !.at = at, !.id = p, !.locked = TRUE].at = at
         /\ \A r : /\ [Idle EXCEPT !.at = at, !.id = p, !.row = r].at = at
                  /\ [Idle EXCEPT !.at = at, !.id = p, !.row = r].row = r
  BY DEF Idle

\* How the requests change in a step: one of them, or all of them.
LEMMA RequestsSet ==
  ASSUME RequestsTyped, NEW w \in Workers, NEW x, req' = [req EXCEPT ![w] = x]
  PROVE  /\ DOMAIN req' = Workers /\ req'[w] = x
         /\ \A v \in Workers \ {w} : req'[v] = req[v]
         /\ RequestTyped(x) => RequestsTyped'
  BY DEF RequestsTyped

LEMMA DoneSets ==
  ASSUME RequestsTyped, NEW w \in Workers, Done(w)
  PROVE  /\ RequestsTyped' /\ req'[w] = Idle
         /\ \A v \in Workers \ {w} : req'[v] = req[v]
  BY RequestsSet, IdleTyped DEF Done

LEMMA GotoSets ==
  ASSUME RequestsTyped, NEW w \in Workers, NEW step \in Steps, Goto(w, step)
  PROVE  /\ RequestsTyped'
         /\ req'[w].at = step /\ req'[w].id = req[w].id
         /\ \A v \in Workers \ {w} : req'[v] = req[v]
  <1>1. RequestTyped([req[w] EXCEPT !.at = step])
    BY DEF RequestsTyped, RequestTyped, Request
  <1>2. req' = [req EXCEPT ![w] = [req[w] EXCEPT !.at = step]]
    BY DEF Goto, RequestsTyped
  <1>3. [req[w] EXCEPT !.at = step].at = step /\ [req[w] EXCEPT !.at = step].id = req[w].id
    BY RequestFields DEF RequestsTyped
  <1> QED BY <1>1, <1>2, <1>3, RequestsSet

-------------------------------------------------------------------------------
(* What a change of combos and setups does: a row and its texts stay, the    *)
(* row is stored with all its texts, or it goes to the trash without any.    *)

Unchanged(r) == rows'[r] = rows[r] /\ cache'[r] = cache[r]
StoredAnew(r) ==
  /\ rows'[r].st = "live" /\ rows'[r].steps \in Recipes
  /\ cache'[r] = AllTexts(rows'[r].steps)
  /\ r \in Setups \/ rows[r].st = "none" \/ rows'[r].steps = rows[r].steps
Trashed(r) ==
  /\ rows[r].st # "none" /\ rows'[r].st = "trash" /\ rows'[r].steps = rows[r].steps
  /\ cache'[r] = NoTexts

LEMMA RowChanges ==
  ASSUME TypeOK, RowNext
  PROVE  /\ UNCHANGED <<presets, nextPreset, default, owed, req>>
         /\ RowsTyped' /\ DOMAIN cache' = Rows
         /\ \A r \in Rows : Unchanged(r) \/ StoredAnew(r) \/ Trashed(r)
  <1>0. RowsTyped /\ DOMAIN cache = Rows /\ Combos \subseteq Rows /\ Setups \subseteq Rows
    BY TypeParts DEF CachesTyped, Rows
  <1>1. ASSUME NEW r \in Rows, NEW s \in Recipes, CreateRow(r, s)
        PROVE  /\ UNCHANGED <<presets, nextPreset, default, owed, req>>
               /\ RowsTyped' /\ DOMAIN cache' = Rows
               /\ \A x \in Rows : Unchanged(x) \/ StoredAnew(x)
    BY <1>0, <1>1 DEF CreateRow, RowsTyped, Row, Unchanged, StoredAnew
  <1>2. ASSUME NEW c \in Combos, NEW n \in Combos, NEW s \in Recipes,
               UpdateWithKeyChange(c, n, s)
        PROVE  /\ UNCHANGED <<presets, nextPreset, default, owed, req>>
               /\ RowsTyped' /\ DOMAIN cache' = Rows
               /\ \A x \in Rows : Unchanged(x) \/ StoredAnew(x) \/ Trashed(x)
    <2>1. c # n /\ c \in Rows /\ n \in Rows /\ rows[c] \in Row
      BY <1>0, <1>2 DEF UpdateWithKeyChange, Live, RowsTyped
    <2>2. rows' = [rows EXCEPT ![c] = [rows[c] EXCEPT !.st = "trash"],
                               ![n] = [st |-> "live", steps |-> s]]
      BY <1>0, <1>2, <2>1 DEF UpdateWithKeyChange, RowsTyped
    <2>3. /\ rows'[c] = [rows[c] EXCEPT !.st = "trash"]
          /\ rows'[n] = [st |-> "live", steps |-> s]
          /\ \A x \in Rows \ {c, n} : rows'[x] = rows[x]
          /\ rows' \in [Rows -> Row]
      BY <1>0, <2>1, <2>2 DEF RowsTyped, Row
    <2>4. /\ cache'[c] = NoTexts /\ cache'[n] = AllTexts(s)
          /\ \A x \in Rows \ {c, n} : cache'[x] = cache[x]
          /\ DOMAIN cache' = Rows
      BY <1>0, <1>2, <2>1 DEF UpdateWithKeyChange
    <2>5. Trashed(c)
      BY <1>2, <2>1, <2>3, <2>4 DEF UpdateWithKeyChange, Live, Trashed, Row
    <2>6. StoredAnew(n)
      BY <1>2, <2>3, <2>4 DEF UpdateWithKeyChange, StoredAnew
    <2>7. \A x \in Rows \ {c, n} : Unchanged(x)
      BY <2>3, <2>4 DEF Unchanged
    <2> QED BY <1>2, <2>3, <2>4, <2>5, <2>6, <2>7 DEF UpdateWithKeyChange, RowsTyped
  <1>3. ASSUME NEW r \in Setups, NEW s \in Recipes, UpdateSetup(r, s)
        PROVE  /\ UNCHANGED <<presets, nextPreset, default, owed, req>>
               /\ RowsTyped' /\ DOMAIN cache' = Rows
               /\ \A x \in Rows : Unchanged(x) \/ StoredAnew(x)
    BY <1>0, <1>3 DEF UpdateSetup, Live, RowsTyped, Row, Unchanged, StoredAnew
  <1>4. ASSUME NEW r \in Rows, Delete(r)
        PROVE  /\ UNCHANGED <<presets, nextPreset, default, owed, req>>
               /\ RowsTyped' /\ DOMAIN cache' = Rows
               /\ \A x \in Rows : Unchanged(x) \/ Trashed(x)
    BY <1>0, <1>4 DEF Delete, Live, RowsTyped, Row, Unchanged, Trashed
  <1>5. ASSUME NEW r \in Rows, Restore(r)
        PROVE  /\ UNCHANGED <<presets, nextPreset, default, owed, req>>
               /\ RowsTyped' /\ DOMAIN cache' = Rows
               /\ \A x \in Rows : Unchanged(x) \/ StoredAnew(x)
    BY <1>0, <1>5 DEF Restore, RowsTyped, Row, Unchanged, StoredAnew
  <1> QED BY <1>1, <1>2, <1>3, <1>4, <1>5 DEF RowNext

LEMMA RowNextTyped ==
  ASSUME TypeOK, RowNext
  PROVE  TypeOK'
  <1>1. ASSUME NEW r \in Rows
        PROVE  Partial(cache'[r], Texts)
    BY RowChanges, AllTextsFacts, NoTextsFacts
       DEF Unchanged, StoredAnew, Trashed, TypeOK
  <1>2. UNCHANGED <<presets, nextPreset, default, owed, req>> /\ RowsTyped'
        /\ DOMAIN cache' = Rows
    BY RowChanges
  <1>3. PresetsTyped' /\ RequestsTyped'
    BY <1>2, TypeParts DEF PresetsTyped, RequestsTyped
  <1> QED BY <1>1, <1>2, <1>3 DEF TypeOK, PresetsTyped, RowsTyped, RequestsTyped, RequestTyped

LEMMA PresetNextTyped ==
  ASSUME TypeOK, NEW w \in Workers, PresetNext(w)
  PROVE  TypeOK'
  <1>0. PresetsTyped /\ RowsTyped /\ CachesTyped /\ RequestsTyped
    BY TypeParts
  <1>r. RequestTyped(req[w])
    BY <1>0 DEF RequestsTyped
  <1>i. /\ {"update", "recompute", "delete", "save"} \subseteq Steps
        /\ NoName \in Names \cup {NoName} /\ NoRow \in Rows \cup {NoRow}
    BY DEF Steps
  <1>p. ASSUME NEW x, RequestTyped(x), req' = [req EXCEPT ![w] = x]
        PROVE  RequestsTyped'
    BY <1>0, <1>p, RequestsSet
  <1>1. ASSUME NEW u \in Users, NEW n \in Names, CreatePreset(w, u, n)
        PROVE  TypeOK'
    <2>1. nextPreset \in PresetIds /\ nextPreset + 1 \in NBuiltin + 1 .. MaxPreset + 1
      BY <1>0, <1>1 DEF PresetsTyped, CreatePreset, PresetIds
    <2>2. [owner |-> u, name |-> n, edit |-> 0] \in Preset
      BY DEF Preset
    <2>3. PresetsTyped'
      BY <1>0, <1>1, <2>1, <2>2, WithFacts DEF PresetsTyped, CreatePreset
    <2>4. RequestsTyped'
      BY <1>1, <1>p, <1>i, <2>1, BegunTyped DEF CreatePreset
    <2> QED BY <1>0, <1>1, <2>3, <2>4, TypeParts DEF CreatePreset, RowsTyped, CachesTyped, TypeOK,
                 PresetsTyped, RequestsTyped, RequestTyped
  <1>2. ASSUME NEW u \in Users, NEW p \in PresetIds, BeginUpdate(w, u, p)
        PROVE  TypeOK'
    <2>1. RequestsTyped'
      BY <1>2, <1>p, <1>i, BegunTyped, PresetFields DEF BeginUpdate, Authorized, Exists
    <2> QED BY <1>0, <1>2, <2>1 DEF BeginUpdate, RowsTyped, CachesTyped, TypeOK,
                 PresetsTyped, RequestsTyped, RequestTyped
  <1>3. ASSUME NEW u \in Users, NEW p \in PresetIds, BeginDelete(w, u, p)
        PROVE  TypeOK'
    <2>1. RequestsTyped'
      BY <1>3, <1>p, <1>i, BegunTyped DEF BeginDelete
    <2> QED BY <1>0, <1>3, <2>1 DEF BeginDelete, RowsTyped, CachesTyped, TypeOK,
                 PresetsTyped, RequestsTyped, RequestTyped
  <1>4. ASSUME NEW n \in Names, NEW aliases \in BOOLEAN, UpdatePreset(w, n, aliases)
        PROVE  TypeOK'
    <2>1. RequestsTyped'
      BY <1>0, <1>4, <1>i, GotoSets DEF UpdatePreset
    <2> DEFINE p == req[w].id
               row == [presets[p] EXCEPT
                         !.name = IF n # req[w].name THEN n ELSE @,
                         !.edit = IF aliases THEN @ + 1 ELSE @]
    <2>2. ASSUME Exists(p), aliases => presets[p].edit < MaxEdit,
                 presets' = [presets EXCEPT
                   ![p].name = IF n # req[w].name THEN n ELSE @,
                   ![p].edit = IF aliases THEN @ + 1 ELSE @]
          PROVE  Partial(presets', Preset)
      <3>1. presets[p] \in Preset
        BY <1>0, <2>2 DEF PresetsTyped, Partial, Exists
      <3>2. row \in Preset
        <4>1. (IF aliases THEN presets[p].edit + 1 ELSE presets[p].edit) \in 0 .. MaxEdit
          BY <2>2, <3>1 DEF Preset
        <4>2. (IF n # req[w].name THEN n ELSE presets[p].name) \in Names \cup {NoName}
          BY <3>1 DEF Preset
        <4> QED BY <3>1, <4>1, <4>2 DEF Preset
      <3>3. presets' = [presets EXCEPT ![p] = row]
        BY <1>0, <2>2, <3>1 DEF PresetsTyped, Partial, Exists, Preset
      <3> HIDE DEF row
      <3> QED BY <1>0, <2>2, <3>2, <3>3 DEF PresetsTyped, Partial, Exists
    <2>3. PresetsTyped'
      BY <1>0, <1>4, <1>r, <2>2, RequestFields DEF UpdatePreset, PresetsTyped
    <2> QED BY <1>0, <1>4, <2>1, <2>3 DEF UpdatePreset, RowsTyped, CachesTyped, TypeOK,
                 PresetsTyped, RequestsTyped, RequestTyped
  <1>5. ASSUME NEW p \in PresetIds, RebuildRecipeCache(w, p)
        PROVE  TypeOK'
    <2>1. RequestsTyped'
      BY <1>5, <1>p, <1>i, BegunTyped DEF RebuildRecipeCache
    <2> QED BY <1>0, <1>5, <2>1 DEF RebuildRecipeCache, RowsTyped, CachesTyped, TypeOK,
                 PresetsTyped, RequestsTyped, RequestTyped
  <1>6. ASSUME NEW p \in PresetIds, BeginSwitch(w, p)
        PROVE  TypeOK'
    <2>1. RequestsTyped'
      BY <1>6, <1>p, <1>i, BegunTyped DEF BeginSwitch
    <2> QED BY <1>0, <1>6, <2>1 DEF BeginSwitch, RowsTyped, CachesTyped, TypeOK,
                 PresetsTyped, RequestsTyped, RequestTyped
  <1>7. ASSUME RecomputePresetCache(w)
        PROVE  TypeOK'
    <2>1. RequestsTyped'
      BY <1>0, <1>7, DoneSets DEF RecomputePresetCache
    <2>2. ASSUME Exists(req[w].id), NEW r \in Rows
          PROVE  Partial(With(cache[r], req[w].id, Text(req[w].id, rows[r].steps)), Texts)
      BY <1>0, <2>2, AllTextsFacts, WithFacts, PresetFields, RowFields DEF Exists, CachesTyped
    <2>3. CachesTyped'
      BY <1>0, <1>7, <2>2 DEF RecomputePresetCache, CachesTyped
    <2> QED BY <1>0, <1>7, <2>1, <2>3 DEF RecomputePresetCache, RowsTyped, CachesTyped,
                 TypeOK, PresetsTyped, RequestsTyped, RequestTyped
  <1>8. ASSUME DeletePreset(w)
        PROVE  TypeOK'
    <2>1. RequestsTyped'
      BY <1>0, <1>8, DoneSets DEF DeletePreset
    <2>2. CachesTyped'
      BY <1>0, <1>8, WithoutFacts DEF DeletePreset, CachesTyped
    <2>3. PresetsTyped'
      BY <1>0, <1>8, WithoutFacts DEF DeletePreset, PresetsTyped
    <2> QED BY <1>0, <1>8, <2>1, <2>2, <2>3 DEF DeletePreset, RowsTyped, CachesTyped,
                 TypeOK, PresetsTyped, RequestsTyped, RequestTyped
  <1>9. ASSUME SaveConfig(w)
        PROVE  TypeOK'
    <2>1. RequestsTyped'
      BY <1>0, <1>9, <1>i, GotoSets DEF SaveConfig
    <2> QED BY <1>0, <1>9, <1>r, <2>1, RequestFields DEF SaveConfig, RowsTyped, CachesTyped,
                 TypeOK, PresetsTyped, RequestsTyped, RequestTyped
  <1> QED BY <1>1, <1>2, <1>3, <1>4, <1>5, <1>6, <1>7, <1>8, <1>9 DEF PresetNext

\* A reader asks for the recipe of a row that is shown.
ReadersHaveRows ==
  \A w \in Workers : req[w].at \in {"read", "compute", "fill"} => req[w].row \in Shown

LEMMA ReadNextTyped ==
  ASSUME TypeOK, ReadersHaveRows, NEW w \in Workers, ReadNext(w)
  PROVE  TypeOK'
  <1>0. PresetsTyped /\ RowsTyped /\ CachesTyped /\ RequestsTyped
    BY TypeParts
  <1>r. RequestTyped(req[w])
    BY <1>0 DEF RequestsTyped
  <1>s. Shown \subseteq Rows
    BY DEF Rows
  <1>i. {"read", "compute", "fill"} \subseteq Steps
    BY DEF Steps
  <1>p. ASSUME NEW at \in Steps, NEW copy, Partial(copy, Texts),
               req' = [req EXCEPT ![w].at = at, ![w].copy = copy]
        PROVE  RequestsTyped'
    <2>1. RequestTyped([req[w] EXCEPT !.at = at, !.copy = copy])
      BY <1>r, <1>p DEF RequestTyped, Request
    <2>2. req' = [req EXCEPT ![w] = [req[w] EXCEPT !.at = at, !.copy = copy]]
      BY <1>0, <1>p DEF RequestsTyped
    <2> QED BY <1>0, <2>1, <2>2, RequestsSet
  <1>1. ASSUME NEW r \in Rows, NEW p \in PresetIds, BeginRead(w, r, p)
        PROVE  TypeOK'
    <2>1. RequestsTyped'
      BY <1>0, <1>1, <1>i, BegunTyped, RequestsSet DEF BeginRead
    <2> QED BY <1>0, <1>1, <2>1 DEF BeginRead, RowsTyped, CachesTyped, TypeOK,
                 PresetsTyped, RequestsTyped, RequestTyped
  <1>2. ASSUME GetRecipeCache(w)
        PROVE  TypeOK'
    <2>1. req[w].row \in Rows
      BY <1>2, <1>s DEF GetRecipeCache, At, ReadersHaveRows
    <2>2. RequestsTyped'
      BY <1>0, <1>2, <1>i, <1>p, <2>1, DoneSets DEF GetRecipeCache, CachesTyped
    <2> QED BY <1>0, <1>2, <2>2 DEF GetRecipeCache, RowsTyped, CachesTyped, TypeOK,
                 PresetsTyped, RequestsTyped, RequestTyped
  <1>3. ASSUME ComputeSingleCache(w)
        PROVE  TypeOK'
    <2>1. req[w].row \in Rows
      BY <1>3, <1>s DEF ComputeSingleCache, At, ReadersHaveRows
    <2>2. ASSUME Exists(req[w].id)
          PROVE  Partial(With(req[w].copy, req[w].id,
                              Text(req[w].id, rows[req[w].row].steps)), Texts)
      BY <1>r, <2>1, <2>2, WithFacts, AllTextsFacts, RowFields, RequestFields DEF Exists
    <2>3. ASSUME Exists(req[w].id)
          PROVE  req' = [req EXCEPT ![w].at = "fill", ![w].copy =
                           With(req[w].copy, req[w].id,
                                Text(req[w].id, rows[req[w].row].steps))]
      <3>1. req' = [req EXCEPT ![w].at = "fill",
                      ![w].copy = With(@, req[w].id, Text(req[w].id, rows[req[w].row].steps))]
        BY <1>3, <2>3 DEF ComputeSingleCache
      <3> QED BY <1>0, <1>r, <3>1, RequestFields DEF RequestsTyped
    <2>4. RequestsTyped'
      BY <1>0, <1>3, <1>i, <1>p, <2>2, <2>3, DoneSets DEF ComputeSingleCache
    <2> QED BY <1>0, <1>3, <2>4 DEF ComputeSingleCache, RowsTyped, CachesTyped, TypeOK,
                 PresetsTyped, RequestsTyped, RequestTyped
  <1>4. ASSUME UpdateRecipeCache(w)
        PROVE  TypeOK'
    <2>1. RequestsTyped'
      BY <1>0, <1>4, DoneSets DEF UpdateRecipeCache
    <2>2. CachesTyped'
      BY <1>0, <1>4, <1>r, RequestFields DEF UpdateRecipeCache, CachesTyped
    <2> QED BY <1>0, <1>4, <2>1, <2>2 DEF UpdateRecipeCache, RowsTyped, CachesTyped, TypeOK,
                 PresetsTyped, RequestsTyped, RequestTyped
  <1> QED BY <1>1, <1>2, <1>3, <1>4 DEF ReadNext

-------------------------------------------------------------------------------
(* What a step does to one request, and to one row with its texts.           *)

Reading == {"read", "compute", "fill"}

RequestStep(v) ==
  \/ req'[v] = req[v]
  \/ req'[v].at \notin Reading
  \/ req'[v].at = "read" /\ req'[v].row \in Shown
  \/ /\ req[v].at = "read" /\ req'[v].at = "compute" /\ req'[v].row = req[v].row
     /\ Live(req[v].row) /\ req'[v].copy = cache[req[v].row]
  \/ /\ req[v].at = "compute" /\ req'[v].at = "fill" /\ req'[v].row = req[v].row
     /\ Exists(req[v].id)
     /\ req'[v].copy = With(req[v].copy, req[v].id, Text(req[v].id, rows[req[v].row].steps))

LEMMA RequestChanges ==
  ASSUME TypeOK, [Next]_vars, NEW v \in Workers
  PROVE  RequestStep(v)
  <1>0. RequestsTyped /\ RequestTyped(req[v])
    BY TypeParts DEF RequestsTyped
  <1>1. CASE RowNext
    BY <1>1, RowChanges DEF RequestStep
  <1>2. ASSUME NEW w \in Workers, PresetNext(w)
        PROVE  RequestStep(v)
    <2>1. ASSUME NEW u \in Users, NEW n \in Names, CreatePreset(w, u, n)
          PROVE  RequestStep(v)
      BY <1>0, <2>1, BegunFields DEF CreatePreset, RequestsTyped, RequestStep, Reading
    <2>2. ASSUME NEW u \in Users, NEW p \in PresetIds, BeginUpdate(w, u, p)
          PROVE  RequestStep(v)
      BY <1>0, <2>2, BegunFields DEF BeginUpdate, RequestsTyped, RequestStep, Reading
    <2>3. ASSUME NEW u \in Users, NEW p \in PresetIds, BeginDelete(w, u, p)
          PROVE  RequestStep(v)
      BY <1>0, <2>3, BegunFields DEF BeginDelete, RequestsTyped, RequestStep, Reading
    <2>4. ASSUME NEW n \in Names, NEW aliases \in BOOLEAN, UpdatePreset(w, n, aliases)
          PROVE  RequestStep(v)
      BY <1>0, <2>4, GotoSets, RequestFields
         DEF UpdatePreset, RequestStep, Reading, Steps, RequestsTyped
    <2>5. ASSUME NEW p \in PresetIds, RebuildRecipeCache(w, p)
          PROVE  RequestStep(v)
      BY <1>0, <2>5, BegunFields DEF RebuildRecipeCache, RequestsTyped, RequestStep, Reading
    <2>6. ASSUME NEW p \in PresetIds, BeginSwitch(w, p)
          PROVE  RequestStep(v)
      BY <1>0, <2>6, BegunFields DEF BeginSwitch, RequestsTyped, RequestStep, Reading
    <2>7. CASE RecomputePresetCache(w) \/ DeletePreset(w)
      BY <1>0, <2>7, DoneSets, IdleTyped
         DEF RecomputePresetCache, DeletePreset, RequestStep, Reading
    <2>8. CASE SaveConfig(w)
      BY <1>0, <2>8, GotoSets, RequestFields
         DEF SaveConfig, RequestStep, Reading, Steps, RequestsTyped
    <2> QED BY <1>2, <2>1, <2>2, <2>3, <2>4, <2>5, <2>6, <2>7, <2>8 DEF PresetNext
  <1>3. ASSUME NEW w \in Workers, ReadNext(w)
        PROVE  RequestStep(v)
    <2>1. ASSUME NEW r \in Rows, NEW p \in PresetIds, BeginRead(w, r, p)
          PROVE  RequestStep(v)
      BY <1>0, <2>1, BegunFields DEF BeginRead, Readable, RequestsTyped, RequestStep, Reading
    <2>2. CASE GetRecipeCache(w)
      <3>1. CASE Live(req[w].row) /\ req[w].id \notin DOMAIN cache[req[w].row]
        <4>1. req' = [req EXCEPT ![w].at = "compute", ![w].copy = cache[req[w].row]]
          BY <2>2, <3>1 DEF GetRecipeCache
        <4>2. v # w => req'[v] = req[v]
          BY <1>0, <4>1 DEF RequestsTyped
        <4>3. v = w => /\ req'[v].at = "compute" /\ req'[v].row = req[v].row
                       /\ req'[v].copy = cache[req[v].row]
          BY <1>0, <4>1, RequestFields DEF RequestsTyped
        <4> QED BY <2>2, <3>1, <4>2, <4>3 DEF GetRecipeCache, At, RequestStep
      <3>2. CASE ~(Live(req[w].row) /\ req[w].id \notin DOMAIN cache[req[w].row])
        BY <1>0, <2>2, <3>2, DoneSets, IdleTyped DEF GetRecipeCache, RequestStep, Reading
      <3> QED BY <3>1, <3>2
    <2>3. CASE ComputeSingleCache(w)
      <3>1. CASE Exists(req[w].id)
        <4> DEFINE text == Text(req[w].id, rows[req[w].row].steps)
        <4>1. req' = [req EXCEPT ![w].at = "fill", ![w].copy = With(@, req[w].id, text)]
          BY <2>3, <3>1 DEF ComputeSingleCache
        <4> HIDE DEF text
        <4>2. v # w => req'[v] = req[v]
          BY <1>0, <4>1 DEF RequestsTyped
        <4>3. v = w => /\ req'[v].at = "fill" /\ req'[v].row = req[v].row
                       /\ req'[v].copy = With(req[v].copy, req[v].id, text)
          BY <1>0, <4>1, RequestFields DEF RequestsTyped
        <4> QED BY <2>3, <3>1, <4>2, <4>3 DEF ComputeSingleCache, At, RequestStep, text
      <3>2. CASE ~Exists(req[w].id)
        BY <1>0, <2>3, <3>2, DoneSets, IdleTyped DEF ComputeSingleCache, RequestStep, Reading
      <3> QED BY <3>1, <3>2
    <2>4. CASE UpdateRecipeCache(w)
      BY <1>0, <2>4, DoneSets, IdleTyped DEF UpdateRecipeCache, RequestStep, Reading
    <2> QED BY <1>3, <2>1, <2>2, <2>3, <2>4 DEF ReadNext
  <1>4. ASSUME NEW w \in Workers, GiveUp(w)
        PROVE  RequestStep(v)
    BY <1>0, <1>4, DoneSets, IdleTyped DEF GiveUp, RequestStep, Reading
  <1>5. CASE Restart
    BY <1>5, IdleTyped DEF Restart, RequestStep, Reading
  <1>6. CASE UNCHANGED vars
    BY <1>6 DEF vars, RequestStep
  <1> QED BY <1>1, <1>2, <1>3, <1>4, <1>5, <1>6 DEF Next

\* A step without a change of rows leaves a row's texts alone, writes or deletes
\* the text of one preset, or puts the copy of a reader there.
CacheStep(r) ==
  \/ cache'[r] = cache[r]
  \/ \E p \in DOMAIN presets :
       Live(r) /\ cache'[r] = With(cache[r], p, Text(p, rows[r].steps))
  \/ \E p \in PresetIds : cache'[r] = Without(cache[r], p)
  \/ \E w \in Workers : req[w].at = "fill" /\ req[w].row = r /\ cache'[r] = req[w].copy

LEMMA CacheChanges ==
  ASSUME TypeOK, [Next]_vars, NEW r \in Rows
  PROVE  \/ RowNext
         \/ rows' = rows /\ CacheStep(r)
  <1>0. RequestsTyped /\ CachesTyped
    BY TypeParts
  <1>1. ASSUME NEW w \in Workers, PresetNext(w)
        PROVE  rows' = rows /\ CacheStep(r)
    <2>0. req[w].id \in PresetIds
      BY <1>0, RequestFields DEF RequestsTyped
    <2>1. CASE RecomputePresetCache(w)
      BY <2>0, <2>1 DEF RecomputePresetCache, CacheStep, Exists, ActiveRows
    <2>2. CASE DeletePreset(w)
      BY <2>0, <2>2 DEF DeletePreset, CacheStep
    <2> QED BY <1>1, <2>1, <2>2 DEF PresetNext, CreatePreset, BeginUpdate, BeginDelete,
                 UpdatePreset, RebuildRecipeCache, BeginSwitch, SaveConfig, CacheStep
  <1>2. ASSUME NEW w \in Workers, ReadNext(w)
        PROVE  rows' = rows /\ CacheStep(r)
    BY <1>0, <1>2 DEF ReadNext, BeginRead, GetRecipeCache, ComputeSingleCache,
       UpdateRecipeCache, At, CacheStep, CachesTyped
  <1>3. CASE (\E w \in Workers : GiveUp(w)) \/ Restart \/ UNCHANGED vars
    BY <1>3 DEF GiveUp, Restart, vars, CacheStep
  <1> QED BY <1>1, <1>2, <1>3 DEF Next

LEMMA ReadersStep ==
  ASSUME TypeOK, ReadersHaveRows, [Next]_vars
  PROVE  ReadersHaveRows'
  BY RequestChanges DEF RequestStep, ReadersHaveRows, Reading

LEMMA InitTyped ==
  ASSUME Init
  PROVE  TypeOK /\ ReadersHaveRows
  <1>1. \A w \in Workers : req[w] = Idle
    BY DEF Init
  <1>2. RequestsTyped /\ ReadersHaveRows
    BY <1>1, IdleTyped DEF Init, RequestsTyped, ReadersHaveRows
  <1>3. Builtin \subseteq PresetIds
    BY DEF Builtin, PresetIds
  <1>4. [owner |-> Nobody, name |-> NoName, edit |-> 0] \in Preset
    BY DEF Preset
  <1>5. PresetsTyped
    BY <1>3, <1>4 DEF Init, PresetsTyped, Partial
  <1>6. RowsTyped
    BY DEF Init, RowsTyped, Row
  <1>7. ASSUME NEW r \in Rows
        PROVE  Partial(cache[r], Texts)
    <2>1. \A p \in Builtin : presets[p].edit = 0
      BY DEF Init
    <2>2. \A p \in Builtin : Text(p, rows[r].steps) \in Texts
      BY <1>6, <2>1 DEF Text, Texts, RowsTyped, Row
    <2>3. Partial([p \in Builtin \ owed |-> Text(p, rows[r].steps)], Texts)
      BY <1>3, <2>2 DEF Partial
    <2> QED BY <2>3, NoTextsFacts DEF Init
  <1>8. CachesTyped
    BY <1>7 DEF Init, CachesTyped
  <1> QED BY <1>2, <1>5, <1>6, <1>8, TypeParts

LEMMA TypeStep ==
  ASSUME TypeOK, ReadersHaveRows, [Next]_vars
  PROVE  TypeOK'
  <1>0. PresetsTyped /\ RowsTyped /\ CachesTyped /\ RequestsTyped
    BY TypeParts
  <1>1. CASE RowNext
    BY <1>1, RowNextTyped
  <1>2. ASSUME NEW w \in Workers, PresetNext(w) \/ ReadNext(w)
        PROVE  TypeOK'
    BY <1>2, PresetNextTyped, ReadNextTyped
  <1>3. ASSUME NEW w \in Workers, GiveUp(w)
        PROVE  TypeOK'
    BY <1>0, <1>3, DoneSets DEF GiveUp, TypeOK, PresetsTyped, RowsTyped, CachesTyped,
       RequestsTyped, RequestTyped
  <1>4. CASE Restart
    <2>1. RequestsTyped' /\ default' \in PresetIds
      BY <1>0, <1>4, IdleTyped, OfficialTyped DEF Restart, Fallback, RequestsTyped, PresetsTyped
    <2> QED BY <1>0, <1>4, <2>1 DEF Restart, TypeOK, PresetsTyped, RowsTyped, CachesTyped,
                 RequestsTyped, RequestTyped
  <1>5. CASE UNCHANGED vars
    BY <1>5 DEF vars, TypeOK
  <1> QED BY <1>1, <1>2, <1>3, <1>4, <1>5 DEF Next

\* Presets, rows, texts and requests are well typed in every reachable state: in
\* particular the default is a preset id even after a fallback at start-up.
THEOREM TypeCorrect == Spec => []TypeOK
  <1>1. Init => TypeOK /\ ReadersHaveRows
    BY InitTyped
  <1>2. TypeOK /\ ReadersHaveRows /\ [Next]_vars => (TypeOK /\ ReadersHaveRows)'
    BY TypeStep, ReadersStep
  <1> QED BY <1>1, <1>2, PTL DEF Spec

-------------------------------------------------------------------------------
(* Texts show the present steps.                                             *)

\* Whatever is cached for a row that was ever stored, or copied by a reader that
\* has found the row, was made of the steps the row has now.
StepsInv ==
  /\ \A r \in Rows : rows[r].st # "none" =>
       \A p \in DOMAIN cache[r] : cache[r][p].steps = rows[r].steps
  /\ \A w \in Workers : req[w].at \in {"compute", "fill"} =>
       /\ rows[req[w].row].st # "none"
       /\ \A p \in DOMAIN req[w].copy : req[w].copy[p].steps = rows[req[w].row].steps

\* The steps of a combo that is stored never change again.
LEMMA ComboStepsFixed ==
  ASSUME TypeOK, [Next]_vars, NEW c \in Combos, rows[c].st # "none"
  PROVE  rows'[c].st # "none" /\ rows'[c].steps = rows[c].steps
  <1>1. c \in Rows /\ c \notin Setups
    BY DEF Rows
  <1> QED BY <1>1, RowChanges, CacheChanges DEF Unchanged, StoredAnew, Trashed

\* One more text of the same steps, or one text less.
LEMMA WithSteps ==
  ASSUME TypeOK, NEW f, Partial(f, Texts), NEW s \in Recipes, NEW q \in DOMAIN presets,
         \A x \in DOMAIN f : f[x].steps = s,
         NEW p \in DOMAIN With(f, q, Text(q, s))
  PROVE  With(f, q, Text(q, s))[p].steps = s
  <1>1. q \in PresetIds /\ Text(q, s) \in Texts /\ Text(q, s).steps = s
    BY PresetFields, AllTextsFacts
  <1>2. With(f, q, Text(q, s))[p] = IF p = q THEN Text(q, s) ELSE f[p]
    BY DEF With
  <1>3. p = q \/ p \in DOMAIN f
    BY DEF With
  <1> QED BY <1>1, <1>2, <1>3

LEMMA WithoutSteps ==
  ASSUME NEW f, Partial(f, Texts), NEW s, NEW q,
         \A x \in DOMAIN f : f[x].steps = s,
         NEW p \in DOMAIN Without(f, q)
  PROVE  Without(f, q)[p].steps = s
  BY DEF Without

LEMMA StepsStep ==
  ASSUME TypeOK, ReadersHaveRows, StepsInv, [Next]_vars
  PROVE  StepsInv'
  <1>0. CachesTyped /\ RequestsTyped
    BY TypeParts
  <1>1. ASSUME NEW r \in Rows, rows'[r].st # "none", NEW p \in DOMAIN cache'[r]
        PROVE  cache'[r][p].steps = rows'[r].steps
    <2>1. CASE RowNext
      BY <1>1, <2>1, RowChanges, AllTextsFacts, NoTextsFacts
         DEF Unchanged, StoredAnew, Trashed, StepsInv
    <2>2. CASE rows' = rows /\ CacheStep(r)
      <3>1. Partial(cache[r], Texts) /\ rows[r].steps \in Recipes /\ rows'[r] = rows[r]
        BY <1>0, <2>2, RowFields DEF CachesTyped
      <3>0. \A x \in DOMAIN cache[r] : cache[r][x].steps = rows[r].steps
        BY <1>1, <3>1 DEF StepsInv
      <3>2. ASSUME NEW q \in DOMAIN presets, cache'[r] = With(cache[r], q, Text(q, rows[r].steps))
            PROVE  cache'[r][p].steps = rows'[r].steps
        BY <1>1, <3>0, <3>1, <3>2, WithSteps
      <3>3. ASSUME NEW q \in PresetIds, cache'[r] = Without(cache[r], q)
            PROVE  cache'[r][p].steps = rows'[r].steps
        BY <1>1, <3>0, <3>1, <3>3, WithoutSteps
      <3>4. ASSUME NEW w \in Workers, req[w].at = "fill", req[w].row = r, cache'[r] = req[w].copy
            PROVE  cache'[r][p].steps = rows'[r].steps
        BY <1>1, <3>1, <3>4 DEF StepsInv
      <3> QED BY <1>1, <2>2, <3>0, <3>1, <3>2, <3>3, <3>4 DEF CacheStep
    <2> QED BY <2>1, <2>2, CacheChanges
  <1>2. ASSUME NEW w \in Workers, req'[w].at \in {"compute", "fill"}
        PROVE  /\ rows'[req'[w].row].st # "none"
               /\ \A p \in DOMAIN req'[w].copy :
                    req'[w].copy[p].steps = rows'[req'[w].row].steps
    <2>1. CASE req'[w] = req[w]
      BY <1>2, <2>1, ComboStepsFixed DEF StepsInv, ReadersHaveRows
    <2>2. CASE /\ req[w].at = "read" /\ req'[w].row = req[w].row
               /\ Live(req[w].row) /\ req'[w].copy = cache[req[w].row]
      <3>1. req[w].row \in Combos /\ req[w].row \in Rows
        BY <2>2 DEF ReadersHaveRows, Rows
      <3> QED BY <2>2, <3>1, ComboStepsFixed DEF StepsInv, Live
    <2>3. CASE /\ req[w].at = "compute" /\ req'[w].row = req[w].row
               /\ Exists(req[w].id)
               /\ req'[w].copy = With(req[w].copy, req[w].id,
                                      Text(req[w].id, rows[req[w].row].steps))
      <3>1. req[w].row \in Combos /\ req[w].row \in Rows
        BY <2>3 DEF ReadersHaveRows, Rows
      <3>2. /\ Partial(req[w].copy, Texts) /\ req[w].id \in DOMAIN presets
            /\ rows[req[w].row].steps \in Recipes
            /\ \A p \in DOMAIN req[w].copy : req[w].copy[p].steps = rows[req[w].row].steps
        BY <1>0, <2>3, <3>1, RowFields DEF RequestsTyped, RequestTyped, Exists, StepsInv
      <3>3. \A p \in DOMAIN req'[w].copy : req'[w].copy[p].steps = rows[req[w].row].steps
        BY <2>3, <3>2, WithSteps
      <3> QED BY <2>3, <3>1, <3>3, ComboStepsFixed DEF StepsInv
    <2> QED BY <1>2, <2>1, <2>2, <2>3, RequestChanges DEF RequestStep, Reading
  <1> QED BY <1>1, <1>2 DEF StepsInv

\* A text in the cache of a live row shows the steps the row has now, for any
\* number of readers that fill the caches of combos without synchronisation.
THEOREM TextsShowPresentSteps == Spec => []TextsOfPresentSteps
  <1>1. Init => TypeOK /\ ReadersHaveRows
    BY InitTyped
  <1>2. Init => StepsInv
    <2>1. ASSUME Init
          PROVE  StepsInv
      <3>1. \A w \in Workers : req[w].at = "idle"
        BY <2>1, IdleTyped DEF Init
      <3>2. ASSUME NEW r \in Rows, NEW p \in DOMAIN cache[r]
            PROVE  cache[r][p].steps = rows[r].steps
        BY <2>1, <3>2, NoTextsFacts DEF Init, Text
      <3> QED BY <3>1, <3>2 DEF StepsInv
    <2> QED BY <2>1
  <1>3. TypeOK /\ ReadersHaveRows /\ StepsInv /\ [Next]_vars
          => (TypeOK /\ ReadersHaveRows /\ StepsInv)'
    BY TypeStep, ReadersStep, StepsStep
  <1>4. StepsInv => TextsOfPresentSteps
    BY DEF StepsInv, TextsOfPresentSteps, Live
  <1> QED BY <1>1, <1>2, <1>3, <1>4, PTL DEF Spec
-------------------------------------------------------------------------------
(* Rows that no reader fills.                                                *)

\* Only live rows have texts, under existing presets only, and the text under
\* a preset that is not owed a recompute is the present one.
WellKept(r) ==
  /\ ~Live(r) => cache[r] = NoTexts
  /\ Live(r) =>
       /\ DOMAIN cache[r] \subseteq DOMAIN presets
       /\ \A p \in DOMAIN presets \ owed :
            p \in DOMAIN cache[r] /\ cache[r][p] = Text(p, rows[r].steps)

\* A step that leaves presets and texts alone.
Idling == UNCHANGED <<presets, rows, cache, owed>>

LEMMA PresetSteps ==
  ASSUME NEW w \in Workers, PresetNext(w)
  PROVE  \/ \E u \in Users, n \in Names : CreatePreset(w, u, n)
         \/ \E n \in Names, aliases \in BOOLEAN : UpdatePreset(w, n, aliases)
         \/ RecomputePresetCache(w) \/ DeletePreset(w)
         \/ Idling
  BY DEF PresetNext, BeginUpdate, BeginDelete, RebuildRecipeCache, BeginSwitch, SaveConfig,
     Idling

\* What renaming a preset and changing its aliases does to the presets.
LEMMA UpdateFacts ==
  ASSUME TypeOK, NEW w \in Workers, NEW n \in Names, NEW aliases \in BOOLEAN,
         UpdatePreset(w, n, aliases)
  PROVE  /\ DOMAIN presets' = DOMAIN presets
         /\ owed \subseteq owed'
         /\ \A p \in DOMAIN presets :
              /\ presets'[p].owner = presets[p].owner
              /\ p \notin owed' => presets'[p].edit = presets[p].edit
              /\ \/ presets'[p].name = presets[p].name
                 \/ /\ p = req[w].id /\ presets'[p].name = n
                    /\ NameFree(presets[p].owner, n, p)
         /\ \A p \in DOMAIN presets \ {req[w].id} : presets'[p] = presets[p]
  <1> DEFINE q == req[w].id
  <1>1. CASE UNCHANGED <<presets, owed>>
    BY <1>1
  <1>2. CASE /\ Exists(q)
             /\ n # req[w].name => NameFree(presets[q].owner, n, q)
             /\ presets' = [presets EXCEPT
                  ![q].name = IF n # req[w].name THEN n ELSE @,
                  ![q].edit = IF aliases THEN @ + 1 ELSE @]
             /\ owed' = IF aliases THEN owed \cup {q} ELSE owed
    <2>1. \A p \in DOMAIN presets : presets[p] \in Preset
      BY DEF TypeOK, Partial
    <2>2. /\ DOMAIN presets' = DOMAIN presets
          /\ \A p \in DOMAIN presets \ {q} : presets'[p] = presets[p]
      BY <1>2
    <2>3. /\ presets'[q].owner = presets[q].owner
          /\ presets'[q].name = IF n # req[w].name THEN n ELSE presets[q].name
          /\ presets'[q].edit = IF aliases THEN presets[q].edit + 1 ELSE presets[q].edit
      BY <1>2, <2>1 DEF Exists, Preset
    <2>4. owed \subseteq owed' /\ (q \notin owed' => ~aliases)
      BY <1>2
    <2> QED BY <1>2, <2>2, <2>3, <2>4
  <1> QED BY <1>1, <1>2 DEF UpdatePreset

LEMMA WellKeptStep ==
  ASSUME TypeOK, ReadersHaveRows, [Next]_vars, NEW r \in Rows \ Shown, WellKept(r)
  PROVE  WellKept(r)'
  <1>0. /\ rows[r].steps \in Recipes /\ Partial(cache[r], Texts)
        /\ DOMAIN cache = Rows /\ Partial(presets, Preset)
    BY RowFields DEF TypeOK
  <1>i. CASE Idling
    BY <1>i DEF Idling, WellKept, Live, Text
  <1>1. CASE RowNext
    <2>1. presets' = presets /\ owed' = owed
      BY <1>1, RowChanges
    <2>2. CASE Unchanged(r)
      BY <2>1, <2>2 DEF Unchanged, WellKept, Live, Text
    <2>3. CASE StoredAnew(r)
      BY <2>1, <2>3, AllTextsFacts DEF StoredAnew, WellKept, Live, Text
    <2>4. CASE Trashed(r)
      BY <2>4 DEF Trashed, WellKept, Live
    <2> QED BY <1>1, <2>2, <2>3, <2>4, RowChanges
  <1>2. ASSUME NEW w \in Workers, NEW u \in Users, NEW n \in Names, CreatePreset(w, u, n)
        PROVE  WellKept(r)'
    <2>1. /\ rows' = rows /\ cache' = cache /\ owed' = owed \cup {nextPreset}
          /\ presets' = With(presets, nextPreset, [owner |-> u, name |-> n, edit |-> 0])
      BY <1>2 DEF CreatePreset
    <2>2. /\ DOMAIN presets' = DOMAIN presets \cup {nextPreset}
          /\ \A p \in DOMAIN presets \ {nextPreset} : presets'[p] = presets[p]
      BY <2>1 DEF With
    <2> QED BY <2>1, <2>2 DEF WellKept, Live, Text
  <1>3. ASSUME NEW w \in Workers, NEW n \in Names, NEW aliases \in BOOLEAN,
               UpdatePreset(w, n, aliases)
        PROVE  WellKept(r)'
    <2>1. rows' = rows /\ cache' = cache
      BY <1>3 DEF UpdatePreset
    <2> QED BY <1>3, <2>1, UpdateFacts DEF WellKept, Live, Text
  <1>4. ASSUME NEW w \in Workers, RecomputePresetCache(w)
        PROVE  WellKept(r)'
    <2> DEFINE q == req[w].id
    <2>1. rows' = rows /\ presets' = presets
      BY <1>4 DEF RecomputePresetCache
    <2>2. CASE UNCHANGED <<cache, owed>>
      BY <2>1, <2>2 DEF WellKept, Live, Text
    <2>3. CASE /\ Exists(q) /\ owed' = owed \ {q}
               /\ cache' = [x \in Rows |-> IF x \in ActiveRows
                                           THEN With(cache[x], q, Text(q, rows[x].steps))
                                           ELSE cache[x]]
      <3>1. CASE ~Live(r)
        BY <2>1, <2>3, <3>1 DEF WellKept, Live, ActiveRows
      <3>2. CASE Live(r)
        <4>1. cache'[r] = With(cache[r], q, Text(q, rows[r].steps))
          BY <2>3, <3>2 DEF ActiveRows
        <4>2. /\ DOMAIN cache'[r] = DOMAIN cache[r] \cup {q}
              /\ cache'[r][q] = Text(q, rows[r].steps)
              /\ \A p \in DOMAIN cache[r] \ {q} : cache'[r][p] = cache[r][p]
          BY <4>1 DEF With
        <4> QED BY <2>1, <2>3, <3>2, <4>2 DEF WellKept, Live, Text, Exists
      <3> QED BY <3>1, <3>2
    <2> QED BY <1>4, <2>2, <2>3 DEF RecomputePresetCache
  <1>5. ASSUME NEW w \in Workers, DeletePreset(w)
        PROVE  WellKept(r)'
    <2> DEFINE q == req[w].id
    <2>1. rows' = rows /\ owed' = owed \ {q} /\ presets' = Without(presets, q)
      BY <1>5 DEF DeletePreset
    <2>2. /\ DOMAIN presets' = DOMAIN presets \ {q}
          /\ \A p \in DOMAIN presets' : presets'[p] = presets[p]
      BY <2>1 DEF Without
    <2>3. CASE ~Live(r)
      BY <1>5, <2>1, <2>3 DEF DeletePreset, WellKept, Live, ActiveRows
    <2>4. CASE Live(r)
      <3>1. cache'[r] = Without(cache[r], q)
        BY <1>5, <2>4 DEF DeletePreset, ActiveRows
      <3>2. /\ DOMAIN cache'[r] = DOMAIN cache[r] \ {q}
            /\ \A p \in DOMAIN cache'[r] : cache'[r][p] = cache[r][p]
        BY <3>1 DEF Without
      <3> QED BY <2>1, <2>2, <2>4, <3>2 DEF WellKept, Live, Text
    <2> QED BY <2>3, <2>4
  <1>6. ASSUME NEW w \in Workers, UpdateRecipeCache(w)
        PROVE  WellKept(r)'
    <2>1. req[w].row # r
      BY <1>6 DEF UpdateRecipeCache, At, ReadersHaveRows
    <2> QED BY <1>0, <1>6, <2>1 DEF UpdateRecipeCache, WellKept, Live, Text
  <1>7. ASSUME NEW w \in Workers, PresetNext(w)
        PROVE  WellKept(r)'
    BY <1>i, <1>2, <1>3, <1>4, <1>5, <1>7, PresetSteps
  <1>8. ASSUME NEW w \in Workers, ReadNext(w) \/ GiveUp(w)
        PROVE  Idling \/ UpdateRecipeCache(w)
    BY <1>8 DEF ReadNext, BeginRead, GetRecipeCache, ComputeSingleCache, GiveUp, Idling
  <1>9. CASE Restart \/ UNCHANGED vars
    BY <1>i, <1>9 DEF Restart, vars, Idling
  <1> QED BY <1>i, <1>1, <1>6, <1>7, <1>8, <1>9 DEF Next

\* The cache of a row whose recipe no reader asks for is maintained by
\* transactions alone, and is right: for any number of presets, of requests
\* that change them and of requests that change rows.
THEOREM CachesWellKept == Spec => [](\A r \in Rows \ Shown : WellKept(r))
  <1> DEFINE Kept == \A r \in Rows \ Shown : WellKept(r)
  <1>1. Init => TypeOK /\ ReadersHaveRows
    BY InitTyped
  <1>2. Init => Kept
    <2>1. ASSUME Init, NEW r \in Rows
          PROVE  WellKept(r)
      <3>1. CASE Live(r)
        BY <2>1, <3>1 DEF Init, WellKept, Live
      <3>2. CASE ~Live(r)
        BY <2>1, <3>2 DEF Init, WellKept, Live
      <3> QED BY <3>1, <3>2
    <2> QED BY <2>1
  <1>3. TypeOK /\ ReadersHaveRows /\ Kept /\ [Next]_vars
          => (TypeOK /\ ReadersHaveRows /\ Kept)'
    BY TypeStep, ReadersStep, WellKeptStep
  <1> QED BY <1>1, <1>2, <1>3, PTL DEF Spec

\* The transactions of presets and of rows keep every text fresh that no reader
\* fills, however they interleave.
THEOREM FreshWithoutReaders == Spec => []FreshUnlessOwed
  <1>1. (\A r \in Rows \ Shown : WellKept(r)) => FreshUnlessOwed
    BY DEF WellKept, FreshUnlessOwed
  <1> QED BY <1>1, CachesWellKept, PTL

\* No text that no reader fills outlives its preset.
THEOREM NoOrphansWithoutReaders == Spec => []NoOrphanTexts
  <1>1. (\A r \in Rows \ Shown : WellKept(r)) => NoOrphanTexts
    BY NoTextsFacts DEF WellKept, NoOrphanTexts
  <1> QED BY <1>1, CachesWellKept, PTL

-------------------------------------------------------------------------------
(* The rules of presets.                                                     *)

RulesInv == IsFiniteSet(DOMAIN presets) /\ PresetRules

LEMMA FewerPresets ==
  ASSUME NEW S, NEW T, IsFiniteSet(S), Cardinality(S) =< Limit, T \subseteq S
  PROVE  IsFiniteSet(T) /\ Cardinality(T) =< Limit
  <1>1. IsFiniteSet(T) /\ Cardinality(T) =< Cardinality(S)
    BY FS_Subset
  <1>2. Cardinality(T) \in Nat /\ Cardinality(S) \in Nat
    BY <1>1, FS_CardinalityType
  <1> QED BY <1>1, <1>2

LEMMA RulesStep ==
  ASSUME TypeOK, RulesInv, [Next]_vars
  PROVE  RulesInv'
  <1>i. CASE presets' = presets
    BY <1>i DEF RulesInv, PresetRules, NameFree
  <1>1. ASSUME NEW w \in Workers, NEW u \in Users, NEW n \in Names, CreatePreset(w, u, n)
        PROVE  RulesInv'
    <2> DEFINE q == nextPreset
    <2>1. /\ BelowLimit /\ NameFree(u, n, q)
          /\ presets' = With(presets, q, [owner |-> u, name |-> n, edit |-> 0])
      BY <1>1 DEF CreatePreset
    <2>2. /\ DOMAIN presets' = DOMAIN presets \cup {q}
          /\ presets'[q].owner = u /\ presets'[q].name = n
          /\ \A p \in DOMAIN presets \ {q} : presets'[p] = presets[p]
      BY <2>1 DEF With
    <2>3. IsFiniteSet(DOMAIN presets') /\ Cardinality(DOMAIN presets') =< Limit
      <3>1. Cardinality(DOMAIN presets) \in Nat
        BY FS_CardinalityType DEF RulesInv
      <3> DEFINE D == DOMAIN presets
      <3>2. IsFiniteSet(D)
        BY DEF RulesInv
      <3> HIDE DEF D
      <3>3. /\ IsFiniteSet(D \cup {q})
            /\ Cardinality(D \cup {q}) = IF q \in D THEN Cardinality(D) ELSE Cardinality(D) + 1
        BY <3>2, FS_AddElement, Zenon
      <3>4. /\ IsFiniteSet(DOMAIN presets \cup {q})
            /\ Cardinality(DOMAIN presets \cup {q}) =< Cardinality(DOMAIN presets) + 1
        BY <3>1, <3>3 DEF D
      <3>5. Cardinality(DOMAIN presets \cup {q}) \in Nat
        BY <3>4, FS_CardinalityType
      <3> QED BY <2>1, <2>2, <3>1, <3>4, <3>5 DEF BelowLimit
    <2>4. ASSUME NEW p \in DOMAIN presets' \ Builtin, NEW x \in DOMAIN presets' \ {p}
          PROVE  presets'[x].owner # presets'[p].owner \/ presets'[x].name # presets'[p].name
      <3>1. CASE p = q
        BY <2>1, <2>2, <2>4, <3>1 DEF NameFree
      <3>2. CASE x = q
        BY <2>1, <2>2, <2>4, <3>2 DEF NameFree
      <3>3. CASE p # q /\ x # q
        BY <2>2, <2>4, <3>3 DEF RulesInv, PresetRules, NameFree
      <3> QED BY <3>1, <3>2, <3>3
    <2> QED BY <2>3, <2>4 DEF RulesInv, PresetRules, NameFree
  <1>2. ASSUME NEW w \in Workers, NEW n \in Names, NEW aliases \in BOOLEAN,
               UpdatePreset(w, n, aliases)
        PROVE  RulesInv'
    <2> DEFINE q == req[w].id
    <2>1. DOMAIN presets' = DOMAIN presets
      BY <1>2, UpdateFacts
    <2>2. ASSUME NEW p \in DOMAIN presets' \ Builtin, NEW x \in DOMAIN presets' \ {p}
          PROVE  presets'[x].owner # presets'[p].owner \/ presets'[x].name # presets'[p].name
      <3>0. p \in DOMAIN presets /\ x \in DOMAIN presets /\ p # x
        BY <2>1
      <3>1. presets'[x].owner = presets[x].owner /\ presets'[p].owner = presets[p].owner
        BY <1>2, <3>0, UpdateFacts
      <3>2. CASE presets'[p].name # presets[p].name
        BY <1>2, <3>0, <3>1, <3>2, UpdateFacts DEF NameFree
      <3>3. CASE presets'[x].name # presets[x].name
        BY <1>2, <3>0, <3>1, <3>3, UpdateFacts DEF NameFree
      <3>4. CASE presets'[p].name = presets[p].name /\ presets'[x].name = presets[x].name
        BY <2>2, <3>0, <3>1, <3>4 DEF RulesInv, PresetRules, NameFree
      <3> QED BY <3>2, <3>3, <3>4
    <2> QED BY <2>1, <2>2 DEF RulesInv, PresetRules, NameFree
  <1>3. ASSUME NEW w \in Workers, DeletePreset(w)
        PROVE  RulesInv'
    <2>1. presets' = Without(presets, req[w].id)
      BY <1>3 DEF DeletePreset
    <2>2. /\ DOMAIN presets' \subseteq DOMAIN presets
          /\ \A p \in DOMAIN presets' : presets'[p] = presets[p]
      BY <2>1 DEF Without
    <2>3. IsFiniteSet(DOMAIN presets') /\ Cardinality(DOMAIN presets') =< Limit
      BY <2>2, FewerPresets DEF RulesInv, PresetRules
    <2> QED BY <2>2, <2>3 DEF RulesInv, PresetRules, NameFree
  <1>4. ASSUME NEW w \in Workers, PresetNext(w)
        PROVE  RulesInv'
    BY <1>i, <1>1, <1>2, <1>3, <1>4, PresetSteps DEF Idling, RecomputePresetCache
  <1>5. CASE RowNext
    BY <1>i, <1>5, RowChanges
  <1>6. CASE (\E w \in Workers : ReadNext(w) \/ GiveUp(w)) \/ Restart \/ UNCHANGED vars
    BY <1>i, <1>6 DEF ReadNext, BeginRead, GetRecipeCache, ComputeSingleCache,
       UpdateRecipeCache, GiveUp, Restart, vars
  <1> QED BY <1>4, <1>5, <1>6 DEF Next

\* Never more presets than the limit and no two of one user with the same name,
\* for any number of users and of requests to create, rename and delete.
THEOREM RulesOfPresets == Spec => []PresetRules
  <1>1. Init => TypeOK /\ ReadersHaveRows
    BY InitTyped
  <1>2. Init => RulesInv
    <2>1. IsFiniteSet(Builtin) /\ Cardinality(Builtin) =< Limit
      BY FS_Interval DEF Builtin
    <2> QED BY <2>1 DEF Init, RulesInv, PresetRules
  <1>3. TypeOK /\ ReadersHaveRows /\ RulesInv /\ [Next]_vars
          => (TypeOK /\ ReadersHaveRows /\ RulesInv)'
    BY TypeStep, ReadersStep, RulesStep
  <1>4. RulesInv => PresetRules
    BY DEF RulesInv
  <1> QED BY <1>1, <1>2, <1>3, <1>4, PTL DEF Spec
===============================================================================
