----------------------------- MODULE RecipeCache -----------------------------
(***************************************************************************)
(* Notation presets and the recipe texts cached under them: the services   *)
(* internal/service/preset and internal/service/notation, the column       *)
(* recipe_cache of combos and setups, and the default preset of the        *)
(* configuration (internal/service/config).                                *)
(*                                                                         *)
(* Each transaction takes SQLite's write lock when it begins and is one    *)
(* step.  A request that works in several transactions, or reads before    *)
(* its transaction, is a worker that goes through several steps; it may    *)
(* end after any of them (an error, a client that went away).              *)
(*                                                                         *)
(* A text is the steps and the state of the preset's aliases it was        *)
(* computed from.  The texts of built-in presets never change, and a       *)
(* custom preset has a copy of all aliases of its base.                    *)
(***************************************************************************)
EXTENDS Integers, FiniteSets

CONSTANTS
  Combos, Setups,  \* rows that can be stored
  Shown,           \* combos whose recipe somebody asks for
  Recipes,         \* contents of steps
  Users, Nobody,   \* Nobody owns the built-in presets
  Names, NoName,   \* names of custom presets
  NoRow,
  NBuiltin,        \* built-in presets
  Limit,           \* PresetTotalLimit
  MaxPreset,       \* bound: preset ids handed out
  MaxEdit,         \* bound: edits of the aliases of a preset
  Workers          \* requests in flight

ASSUME RowsAssumption == Shown \subseteq Combos /\ Combos \cap Setups = {}
ASSUME SentinelsAssumption ==
  Nobody \notin Users /\ NoName \notin Names /\ NoRow \notin Combos \cup Setups
ASSUME BoundsAssumption ==
  /\ NBuiltin \in Nat \ {0} /\ Limit \in Nat
  /\ MaxPreset \in Nat /\ MaxEdit \in Nat
  /\ NBuiltin =< MaxPreset /\ NBuiltin =< Limit

VARIABLES
  presets,     \* presets stored: id -> owner, name, edits of its aliases
  nextPreset,  \* the id AUTOINCREMENT gives next
  default,     \* [defaults] preset_id of the configuration in memory
  rows,        \* combos and setups
  cache,       \* recipe_cache of each row: preset id -> text
  owed,        \* history: presets no recompute has succeeded for since their
               \* aliases changed
  req          \* the workers

vars == <<presets, nextPreset, default, rows, cache, owed, req>>

Rows == Combos \cup Setups
PresetIds == 1 .. MaxPreset
Builtin == 1 .. NBuiltin
Official == 1

Preset == [owner : Users \cup {Nobody}, name : Names \cup {NoName}, edit : 0 .. MaxEdit]
Row == [st : {"none", "live", "trash"}, steps : Recipes]
Texts == [steps : Recipes, edit : 0 .. MaxEdit]

NoTexts == [p \in {} |-> 0]

Idle == [at |-> "idle", id |-> Official, name |-> NoName, row |-> NoRow,
         copy |-> NoTexts, locked |-> FALSE]

Steps == {"idle", "update", "recompute", "delete", "save", "read", "compute", "fill"}

\* A function on some of the preset ids, with values in S.
Partial(f, S) == DOMAIN f \subseteq PresetIds /\ f \in [DOMAIN f -> S]

Request(copy) ==
  [at : Steps, id : PresetIds, name : Names \cup {NoName}, row : Rows \cup {NoRow},
   copy : {copy}, locked : BOOLEAN]

TypeOK ==
  /\ Partial(presets, Preset)
  /\ nextPreset \in NBuiltin + 1 .. MaxPreset + 1
  /\ default \in PresetIds
  /\ rows \in [Rows -> Row]
  /\ DOMAIN cache = Rows /\ \A r \in Rows : Partial(cache[r], Texts)
  /\ owed \subseteq PresetIds
  /\ DOMAIN req = Workers
  /\ \A w \in Workers :
       Partial(req[w].copy, Texts) /\ req[w] \in Request(req[w].copy)

With(f, k, v) == [x \in DOMAIN f \cup {k} |-> IF x = k THEN v ELSE f[x]]
Without(f, k) == [x \in DOMAIN f \ {k} |-> f[x]]

Exists(p) == p \in DOMAIN presets

Text(p, s) == [steps |-> s, edit |-> presets[p].edit]

\* RecomputeComboCache, RecomputeSetupCache: the text under every preset.
AllTexts(s) == [p \in DOMAIN presets |-> Text(p, s)]

\* The rows of an existing database may lack the texts of presets that a
\* migration brought.
Init ==
  /\ presets = [p \in Builtin |-> [owner |-> Nobody, name |-> NoName, edit |-> 0]]
  /\ nextPreset = NBuiltin + 1
  /\ default \in Builtin
  /\ rows \in [Rows -> [st : {"none", "live"}, steps : Recipes]]
  /\ owed \in SUBSET Builtin
  /\ cache = [r \in Rows |-> IF rows[r].st = "live"
                             THEN [p \in Builtin \ owed |-> Text(p, rows[r].steps)]
                             ELSE NoTexts]
  /\ req = [w \in Workers |-> Idle]

-------------------------------------------------------------------------------
(* What the services of combos and setups do to the column, each time in the *)
(* transaction of the change itself.                                         *)

Live(r) == rows[r].st = "live"

CreateRow(r, s) ==
  /\ rows[r].st = "none"
  /\ rows' = [rows EXCEPT ![r] = [st |-> "live", steps |-> s]]
  /\ cache' = [cache EXCEPT ![r] = AllTexts(s)]
  /\ UNCHANGED <<presets, nextPreset, default, owed, req>>

\* The old row of a combo goes to the trash, a new one takes its place.
UpdateWithKeyChange(c, n, s) ==
  /\ Live(c) /\ rows[n].st = "none"
  /\ rows' = [rows EXCEPT ![c].st = "trash", ![n] = [st |-> "live", steps |-> s]]
  /\ cache' = [cache EXCEPT ![c] = NoTexts, ![n] = AllTexts(s)]
  /\ UNCHANGED <<presets, nextPreset, default, owed, req>>

\* Setups are edited in place.
UpdateSetup(r, s) ==
  /\ Live(r) /\ rows[r].steps # s
  /\ rows' = [rows EXCEPT ![r].steps = s]
  /\ cache' = [cache EXCEPT ![r] = AllTexts(s)]
  /\ UNCHANGED <<presets, nextPreset, default, owed, req>>

Delete(r) ==
  /\ Live(r)
  /\ rows' = [rows EXCEPT ![r].st = "trash"]
  /\ cache' = [cache EXCEPT ![r] = NoTexts]
  /\ UNCHANGED <<presets, nextPreset, default, owed, req>>

Restore(r) ==
  /\ rows[r].st = "trash"
  /\ rows' = [rows EXCEPT ![r].st = "live"]
  /\ cache' = [cache EXCEPT ![r] = AllTexts(rows[r].steps)]
  /\ UNCHANGED <<presets, nextPreset, default, owed, req>>

-------------------------------------------------------------------------------
(* Presets.  A change of aliases is committed first, the recompute follows   *)
(* in a transaction of its own.                                              *)

At(w, step) == req[w].at = step
Done(w) == req' = [req EXCEPT ![w] = Idle]
Goto(w, step) == req' = [req EXCEPT ![w].at = step]

BelowLimit == Cardinality(DOMAIN presets) < Limit

NameFree(u, n, p) ==
  \A q \in DOMAIN presets \ {p} : presets[q].owner # u \/ presets[q].name # n

CreatePreset(w, u, n) ==
  /\ At(w, "idle") /\ nextPreset =< MaxPreset
  /\ BelowLimit /\ NameFree(u, n, nextPreset)
  /\ presets' = With(presets, nextPreset, [owner |-> u, name |-> n, edit |-> 0])
  /\ nextPreset' = nextPreset + 1
  /\ owed' = owed \cup {nextPreset}
  /\ req' = [req EXCEPT ![w] = [Idle EXCEPT !.at = "recompute", !.id = nextPreset]]
  /\ UNCHANGED <<default, rows, cache>>

\* authorizeMutation: only its owner changes a custom preset.
Authorized(u, p) == Exists(p) /\ p \notin Builtin /\ presets[p].owner = u

BeginUpdate(w, u, p) ==
  /\ At(w, "idle") /\ Authorized(u, p)
  /\ req' = [req EXCEPT ![w] = [Idle EXCEPT !.at = "update", !.id = p,
                                            !.name = presets[p].name]]
  /\ UNCHANGED <<presets, nextPreset, default, rows, cache, owed>>

\* The name is changed, and checked, only if it differs from the one that was
\* read before the transaction.  A preset that is gone has no row to update.
UpdatePreset(w, n, aliases) ==
  /\ At(w, "update")
  /\ LET p == req[w].id
         renamed == n # req[w].name
     IN \/ /\ Exists(p)
           /\ renamed => NameFree(presets[p].owner, n, p)
           /\ aliases => presets[p].edit < MaxEdit
           /\ presets' = [presets EXCEPT
                ![p].name = IF renamed THEN n ELSE @,
                ![p].edit = IF aliases THEN @ + 1 ELSE @]
           /\ owed' = IF aliases THEN owed \cup {p} ELSE owed
        \/ /\ ~Exists(p) /\ ~aliases
           /\ UNCHANGED <<presets, owed>>
  /\ Goto(w, "recompute")
  /\ UNCHANGED <<nextPreset, default, rows, cache>>

\* Mutant: setups are forgotten.
ActiveRowsCombosOnly == {r \in Combos : Live(r)}

ActiveRows == {r \in Rows : Live(r)}

\* Aliases and steps are read on other connections, but nothing is committed
\* while the transaction has the write lock.  The recipes of a preset that is
\* gone cannot be resolved: an error.
RecomputePresetCache(w) ==
  /\ At(w, "recompute")
  /\ LET p == req[w].id IN
     \/ /\ Exists(p)
        /\ cache' = [r \in Rows |-> IF r \in ActiveRows
                                    THEN With(cache[r], p, Text(p, rows[r].steps))
                                    ELSE cache[r]]
        /\ owed' = owed \ {p}
     \/ ~Exists(p) /\ UNCHANGED <<cache, owed>>
  /\ Done(w)
  /\ UNCHANGED <<presets, nextPreset, default, rows>>

\* POST recipe-cache/rebuild looks the preset up and recomputes.
RebuildRecipeCache(w, p) ==
  /\ At(w, "idle") /\ Exists(p)
  /\ req' = [req EXCEPT ![w] = [Idle EXCEPT !.at = "recompute", !.id = p]]
  /\ UNCHANGED <<presets, nextPreset, default, rows, cache, owed>>

BeginDelete(w, u, p) ==
  /\ At(w, "idle") /\ Authorized(u, p) /\ default # p
  /\ req' = [req EXCEPT ![w] = [Idle EXCEPT !.at = "delete", !.id = p]]
  /\ UNCHANGED <<presets, nextPreset, default, rows, cache, owed>>

DeletePreset(w) ==
  /\ At(w, "delete")
  /\ LET p == req[w].id IN
     /\ presets' = Without(presets, p)
     /\ cache' = [r \in Rows |-> IF r \in ActiveRows THEN Without(cache[r], p)
                                                     ELSE cache[r]]
     /\ owed' = owed \ {p}
  /\ Done(w)
  /\ UNCHANGED <<nextPreset, default, rows>>

-------------------------------------------------------------------------------
(* PUT /api/config: the service holds its mutex from the check of the preset *)
(* to the end of the recompute.                                              *)

BeginSwitch(w, p) ==
  /\ At(w, "idle") /\ \A v \in Workers : ~req[v].locked
  /\ p # default /\ Exists(p)
  /\ req' = [req EXCEPT ![w] = [Idle EXCEPT !.at = "save", !.id = p, !.locked = TRUE]]
  /\ UNCHANGED <<presets, nextPreset, default, rows, cache, owed>>

SaveConfig(w) ==
  /\ At(w, "save")
  /\ default' = req[w].id
  /\ Goto(w, "recompute")
  /\ UNCHANGED <<presets, nextPreset, rows, cache, owed>>

-------------------------------------------------------------------------------
(* ResolveComboRecipe: four reads and a write, in no transaction.            *)

\* Mutant: recipes of setups are served from their cache in the same way.
ReadableSetupsToo == Shown \cup Setups

Readable == Shown

BeginRead(w, r, p) ==
  /\ At(w, "idle") /\ r \in Readable /\ Exists(p)
  /\ req' = [req EXCEPT ![w] = [Idle EXCEPT !.at = "read", !.id = p, !.row = r]]
  /\ UNCHANGED <<presets, nextPreset, default, rows, cache, owed>>

\* A hit, or a row that is not live, ends the request.
GetRecipeCache(w) ==
  /\ At(w, "read")
  /\ LET r == req[w].row IN
     IF Live(r) /\ req[w].id \notin DOMAIN cache[r]
     THEN req' = [req EXCEPT ![w].at = "compute", ![w].copy = cache[r]]
     ELSE Done(w)
  /\ UNCHANGED <<presets, nextPreset, default, rows, cache, owed>>

ComputeSingleCache(w) ==
  /\ At(w, "compute")
  /\ LET p == req[w].id IN
     IF Exists(p)
     THEN req' = [req EXCEPT ![w].at = "fill",
                             ![w].copy = With(@, p, Text(p, rows[req[w].row].steps))]
     ELSE Done(w)
  /\ UNCHANGED <<presets, nextPreset, default, rows, cache, owed>>

\* The whole column is written back, whatever has become of the row.
UpdateRecipeCache(w) ==
  /\ At(w, "fill")
  /\ cache' = [cache EXCEPT ![req[w].row] = req[w].copy]
  /\ Done(w)
  /\ UNCHANGED <<presets, nextPreset, default, rows, owed>>

-------------------------------------------------------------------------------
\* A request ends early: refused, failed, or its client went away.
GiveUp(w) ==
  /\ ~At(w, "idle")
  /\ Done(w)
  /\ UNCHANGED <<presets, nextPreset, default, rows, cache, owed>>

\* Mutant: an unusable default is replaced by the zero value.
FallbackUnset == 0

Fallback == Official

\* The server is stopped and started: ensureDefaultPresetExists.
Restart ==
  /\ req' = [w \in Workers |-> Idle]
  /\ default' = IF Exists(default) THEN default ELSE Fallback
  /\ UNCHANGED <<presets, nextPreset, rows, cache, owed>>

RowNext ==
  \/ \E r \in Rows, s \in Recipes : CreateRow(r, s)
  \/ \E c, n \in Combos, s \in Recipes : UpdateWithKeyChange(c, n, s)
  \/ \E r \in Setups, s \in Recipes : UpdateSetup(r, s)
  \/ \E r \in Rows : Delete(r) \/ Restore(r)

PresetNext(w) ==
  \/ \E u \in Users, n \in Names : CreatePreset(w, u, n)
  \/ \E u \in Users, p \in PresetIds : BeginUpdate(w, u, p) \/ BeginDelete(w, u, p)
  \/ \E n \in Names, aliases \in BOOLEAN : UpdatePreset(w, n, aliases)
  \/ \E p \in PresetIds : RebuildRecipeCache(w, p) \/ BeginSwitch(w, p)
  \/ RecomputePresetCache(w) \/ DeletePreset(w) \/ SaveConfig(w)

ReadNext(w) ==
  \/ \E r \in Rows, p \in PresetIds : BeginRead(w, r, p)
  \/ GetRecipeCache(w) \/ ComputeSingleCache(w) \/ UpdateRecipeCache(w)

Next ==
  \/ RowNext
  \/ \E w \in Workers : PresetNext(w) \/ ReadNext(w) \/ GiveUp(w)
  \/ Restart

Spec == Init /\ [][Next]_vars

-------------------------------------------------------------------------------
(* Properties.                                                               *)

\* The text of a live row that no reader fills is there under a preset and is
\* the present one, save for presets whose last recompute has not happened or
\* failed: in whatever order requests commit and recompute, and whatever
\* becomes of rows meanwhile (recomputeCache of the preset service).  A reader
\* may write back a column it read before a recompute of another preset.
FreshUnlessOwed ==
  \A r \in Rows \ Shown, p \in DOMAIN presets \ owed :
    Live(r) => p \in DOMAIN cache[r] /\ cache[r][p] = Text(p, rows[r].steps)

\* No cache that no reader fills has texts under a preset that does not exist
\* (ResolveComboRecipe, DeletePresetCache).
NoOrphanTexts == \A r \in Rows \ Shown : DOMAIN cache[r] \subseteq DOMAIN presets

\* VAL-P03 and VAL-P05: names are unique per user and there are never more
\* than Limit presets, however requests to create and to rename interleave.
PresetRules ==
  /\ Cardinality(DOMAIN presets) =< Limit
  /\ \A p \in DOMAIN presets \ Builtin : NameFree(presets[p].owner, presets[p].name, p)

\* A text in the cache of a live row was computed from the steps the row has
\* now, even if a reader that is not synchronised with anything wrote it
\* (ResolveComboRecipe: the steps of a combo never change).
TextsOfPresentSteps ==
  \A r \in Rows : Live(r) =>
    \A p \in DOMAIN cache[r] : cache[r][p].steps = rows[r].steps
===============================================================================
