# tacpendium in TLA+

TLA+ modules, TLC runs and TLAPS proofs kept beside the code of **tacpendium**, a local
workbench for Street Fighter 6 combos: a Go server (Echo, SQLite) that stores combos,
setups ("setplay"), punishes and notation presets, and a React front end. Several users
of one household work on one server, in several tabs, and the server may be stopped at
any time.

## 1. The system

| part | state | operations | hard behaviours | what makes it correct |
|---|---|---|---|---|
| **combos** (`internal/service/combo`, `internal/repository/combo`) | `combos`, `combo_steps`, `combo_tags`, `combo_oki_options`; a version per row; soft deletion (`deleted_at`); `superseded_by_combo_id`, `materialized_from_combo_id` | create, PATCH (metadata), PUT (key change: new row, old row to the trash), delete, restore, purge, materialize, list, duplicate check | stale edit forms; duplicate check against concurrent saves; carrying links, results, adoptions over to the new row; purge with foreign keys off; materialize reads before its transaction | no dangling reference; no second published combo with one duplicate key; published combos complete; a save whose version the form has shown overwrites nothing unseen (one from a refetched form may, section 6); what is thrown away can be restored |
| **setups** (`internal/service/setup`, `internal/repository/setup`) | `setups`, `setup_steps`, `combo_setups`, `combo_setup_results` | create (alone or embedded in a combo), link, unlink, edit, delete, restore, purge, verified results | links to trashed rows on either side; link request whose ends change between check and insert | no two live setups with one recipe under one combo made by registration or edit; links of trashed setups survive; a result needs its link |
| **punishes** (`internal/service/punishfinder`, `punishlist`, `internal/repository/punish`) | `combo_punishes` (adoptions), `combo_punish_curations` (hidden adoptions), prunings, starters | scan, adopt, withdraw, curate, prune | curation that outlives its adoption; adoption drained by materialize | adoptions follow a combo through a key change; curations only of adoptions |
| **notation and presets** (`internal/service/notation`, `preset`) | `presets`, `preset_aliases`; `recipe_cache` JSON column of combos and setups | resolve a recipe, recompute or delete a cache for a combo or a preset; create, edit, delete presets (8 at most) | cache recomputed after the preset's commit; GET fills the cache outside of a transaction | a cached recipe is the recipe under the present preset |
| **validation** (`internal/service/validation`) | none | rules VAL-C01..C15, S01..S07, R01..R04 | duplicate check must see the caller's own transaction | see combos and setups |
| **setplay suggestion** (`internal/service/setplay`) | none | searches frame-advantage chains for setups | pure search with budgets | what is offered meets the advantage |
| **CSV import, export** (`internal/service/comboio`) | none of its own | parse, validate, import combos with their setups | each row its own transaction; duplicate check before it; duplicate rows in one file | a recipe is stored once; a setup follows the combo of its row |
| **data directory migration** (`internal/infra/datadir`) | old and new data directory, staging directory, lock file, notices | decide, lock, stage, verify, commit, retire | crash between two file operations; two processes; stale lock | the old data are never lost before the new ones verify |
| **schema migration** (`internal/infra/migration`, `db`) | `schema_migrations` (version, dirty flag) | migrate up at start | crash or error in between leaves the version dirty; an older binary on a newer schema | a server that starts has the schema of its binary |
| **start-up and single instance** (`cmd/tacpendium`) | the configured port (probed for a running instance), tray | start, show the running instance instead, shut down | two starts at once; a port that was changed or is not listened on yet | at most one server per data directory |
| **auth, users** (`internal/service/auth`, `user`, `internal/api/middleware`) | `users`, session cookie, config password | log in, set password, switch user | password changed under a session | an unauthenticated request changes nothing |
| **configuration** (`internal/config`, `internal/service/config`) | `config.toml`, the configuration in memory | load, update, save; fall back on an existing default preset at start | concurrent saves through one temporary file, checks made before the write, crash while writing | an update keeps the other keys; the default preset exists |
| **front end: forms** (`features/combo`, `features/setup`, `features/navigation-guard`) | the form, the query cache under it, dialogs, requests under way, the sentinel on the browser history | edit, save in five ways, resolve conflicts, enter a recipe, leave | a refetch under an open form; a second click while a dialog is open; history moves that take effect later | one save is one row; a save replaces only what was shown; unsaved work is not lost silently |
| **front end: lists** (trash, punishes, suggestions, combo lists, results of setups) | selections, filters in the address and in the session, drafts, last answers | bulk restore and purge, adopt, hide, filter, export, edit results | rows that change while requests run; answers of earlier searches; partial failure | what is acted on was ticked; what is shown is stored; a refusal is told |
| **front end: import and intake** (`features/intake`, `features/combo-io`) | the pasted table, resolutions, the preview, ticked rows | prompt, paste, resolve, hand over, preview, commit | exclusions of an earlier table; a file changed after its preview | no step lost or doubled on the way |
| **front end: physical input** (`features/physical-input`, `gamepad`, `keyboard`) | refs between frames, the state of the last render, profiles in local storage | poll, merge, windows of simultaneous presses, shortcut, command mode, dialogs, registration | refs change between renders; effects run after them; devices come and go | each press is taken once; no input has two targets |

How they interact: the HTTP handlers call one service each; a service opens a SQLite
transaction (`_txlock=immediate`: it holds the only write lock from its first statement
to its commit) and calls repositories in it. Combos create setups in their own
transaction, move links, results and adoptions, and recompute recipe caches; presets
recompute the caches of all rows after their own commit; the configuration names the
default preset and the database path, which the data directory migration rewrites before
the database is opened. A save of the front end sends a version back: the combo form that of
its query at that moment, while its fields stay as they were filled; the setup form that of
its last filling. Every write invalidates the queries that show what it changed, and their
answers may arrive in any order or not at all. Recipe editors register with the
one provider of physical input, which hands steps to the one that owns it.

## 2. Modules

| module | models | lines to start at |
|---|---|---|
| `RowLifecycle` | abstract: what the trash promises for the rows of one table | docs/design/03-data-model.md, section 5 |
| `ComboStore` | combos, setups, links, verified results, tags, adoptions, curations, and the handlers that write them | `internal/service/combo/service.go`, `internal/service/setup/`, their repositories |
| `DataHome` | abstract: what the start of the program promises, one store that only saving changes | |
| `DataDirMigration` | the move of the data directory at start | `internal/infra/datadir`, `prepareDataDirWith` in `cmd/tacpendium/main.go` |
| `RecipeCache` | presets, the texts cached under them, the default preset | `internal/service/preset`, `internal/service/notation/cache.go`, `internal/service/config` |
| `Page` | what the modules of the screens share | |
| `NavigationGuard` | the guard against leaving an edited form, with the history of the tab | `features/navigation-guard/NavigationGuardProvider.tsx` |
| `ComboEditor`, `BasicFields`, `RecipeEntry` | the combo form: its saves and dialogs; its fields that depend on one another; how its recipe is entered | `features/combo/components/ComboEditor.tsx`, `ComboEditorBasicFields.tsx`, `VirtualController/`, `moveSurfacing.ts` |
| `SetupEditor`, `SetupItem` | the setup form; a setup in the list of a combo, with the editor of its results | `pages/SetupEditorPage.tsx`, `features/setup/components/` |
| `Trash` | both tables of the trash and the bulk operations | `pages/TrashPage.tsx`, `TrashBulkActions.tsx` |
| `Punish` | adopting, making versions, hiding | `features/punish/components/` |
| `Suggestions` | the proposals of setups and their adoption | `features/setplay/components/SetplaySuggestionSection.tsx` |
| `ComboLists` | filters, export, state of training | `useComboListFilters.ts`, `ComboTable.tsx`, `features/mycombo`, `combo-io/components/ExportDialog.tsx` |
| `Import` | from a pasted text or a file to stored combos, both sides of the wire | `pages/IntakeHelperPage.tsx`, `pages/ComboImportPage.tsx`, `internal/service/comboio/import.go` |
| `InputResolution` | pure: from pressed inputs to directions, intents and commands | `features/gamepad/normalize.ts`, `recipeInputResolution.ts`, `physical-input/commandMotion.ts` |
| `PhysicalInput` | the provider of physical input and the hooks it runs | `features/physical-input/PhysicalInputProvider.tsx` |
| `InputRegistration` | the dialogs that register a pad or keys | `features/gamepad/calibration.ts`, `features/keyboard/keyboardRegistration.ts` |
| `Forms`, `Lists` | put the screens side by side: the guard, both forms, their parts and the results; trash, punishes, suggestions, lists and import | |
| `MC...` | the instances for TLC: values, symmetry, state constraints; `MCPhysicalInput` puts the page and the registration side by side | |
| `...Proofs` | theorems about the module of the same name; `SetupLinkProofs` builds on `ComboStoreProofs` | |

`PROJECT.json` maps each definition to the lines it stands for.

### ComboStore

* A table is a function from ids to rows (`combos`, `setups`) or a set of pairs (the
  association tables). `st` condenses existence and `deleted_at`; ids are handed out
  upwards, as AUTOINCREMENT does. `recipe` and `hit` are the duplicate key; `ka`
  (knockdown advantage) stands for the fields VAL-C15 requires, and for what decides
  whether a save must say what becomes of the setups.
* A handler that begins with `BeginTx` is one action, with everything the transaction
  writes. Handlers that read first are split: `LinkCheck`/`LinkInsert`
  (CreateSetupLink), `MaterializeRead`/`MaterializeExisting`/`DrainBasePunish`/
  `MaterializeGenerate`, and `CurateCheck`/`AddCuration`. What such a request knows is in
  `requests`; `Abandon` ends it anywhere (an error, SQLITE_BUSY, a client that left).
* The form of a combo is filled once (`OpenForm`), arbitrarily long ago: `draft` and `ka` are
  its fields and `shown` the version they are of. `ver` is the version of the query under it,
  which a save sends and the server compares with the row's. `RefetchForm` (the window gets the
  focus, the network is back) renews `ver` and leaves the fields; `CloseForm` also is the
  refetch that finds no live row. `setupForms` is what the setup form was last filled with;
  `SetupEditor` has its refetches.
* The combos and the setups each implement `RowLifecycle`, under the mapping `st` and
  `heir = superseded_by_combo_id` (no heir for setups).

### DataDirMigration

* A process goes through `prepareDataDirWith` one file operation a step: `Start` (probe,
  configuration), `Decide`, the lock (`AcquireLock`, `StatLock`, `Unlock`),
  `CountTables`, `VacuumInto`, `Verify`, the commit (`StatTarget`, `RenameStaging` or
  `CheckEntry`/`MoveEntry` for each entry), `Release`, `RewriteRelocatedPaths`,
  `RetireOld`, `OpenDB`; then it serves (`Save`) until `Stop`. `Crash` may come before
  any of them.
* A database is the set of facts saved in it. `Faults` names the I/O errors of a run;
  a copy may also lose facts silently, which the row counts must notice.
* `config = "alias"` is a spelling of the old path that the rewriting, which compares
  strings, does not recognise.
* One process implements `DataHome`: its store is the database of the directory the facts
  are in (`Home`), what it shows the database a running process has open.

### RecipeCache

* `cache[r]` is the JSON column `recipe_cache` of a row; a text is the steps and the
  edit of the aliases it was made of. Saves recompute all texts of their row in their
  own transaction; changes of presets recompute one text of all live rows in a second
  transaction, which may fail: `owed` (a history variable) has the presets this happened
  to. `ResolveComboRecipe` is a reader of four reads and a write without a transaction.
* `Shown` are the combos readers ask for. The other rows are seen by writers alone:
  `FreshUnlessOwed` and `NoOrphanTexts` speak of them, and what readers break is in
  section 6.

### Screens

* `ui` is what one tab holds (React state, refs, requests under way) and is gone with the
  page; `srv` is what survives it: rows, the history of the tab, storage, what other tabs
  do. A behaviour of `Forms` or of `Lists` shows one screen (`ui.page`), each module with
  its own bounds; those of `MCScreens` are the behaviours of both. What a screen needs of the server is in its module, at the grain the screen can
  tell apart: the transactions themselves are in `ComboStore`, whose actions the screens'
  answers stand for.
* An event handler is one action. A request is sent in one action and answered in a later
  one, in any order where several are under way; it may fail; a handler of its answer runs
  only where the code lets it (an unmounted component, a later mutation of the same hook).
  Another tab writes in between (`Other...`).
* Some state exists for the properties only and steers nothing: what the user agreed to
  (`agreed`), how many rows one form made (`made`), what was refused.

### Physical input

* React separates what a handler sees at once (refs) from what a render shows. The record
  `s` holds the refs and the state that is set; `shown` the state of the last render;
  `Commit` renders and runs the effects in the order of the code. Frames of the pad, key
  events, timers, dialogs and pages come between any two commits.
* What the properties need to know of the past is in `world`: which inputs a sample has
  seen (`known`), which of these the provider has forgotten since, and whether the pad has
  been read since it was registered anew (`reread`).
* `InputRegistration` has the two dialogs with their live snapshots. While one is open the
  provider only keeps in step with the devices, so a behaviour of `MCPhysicalInput` is
  about the page or about a registration (`registering`).

## 3. Runs

| run | instance | properties |
|---|---|---|
| `edits` | 3 combos of one duplicate key, 2 users, versions up to 2 | `PublishedIsComplete`, `LockSoundUntilRefetch`, `NoNewTwins`, `CombosAreRecoverable` |
| `links` | 2 combos, 2 setups, 2 setup recipes, a link request, all drafts | `ReferencesHold`, `HiddenLinksSurvive`, `KeyChangeCarries`, `SetupsAreRecoverable`, `NoNewSetupTwins` |
| `punishes` | 3 combos, both hit types, one opponent move, 2 requests | `ReferencesHold`, `NoNewTwins` |
| `migration_crashes` | 1 process, 2 crashes, all faults but `sync`, 2 facts, 2 files | `NothingVanishes`, `NewIsComplete`, `RetiredOnlyWhenCopied`, `EventuallyServes`, `ImplementsDataHome` |
| `migration_starts` | 3 processes, every fault (`copy`, `commit`, `sync`, `rewrite`, `retire`), no crash | `OneMigrator`, `NewNeverOverwritten` |
| `cache` | 2 combos of which one is read, 1 setup, 2 recipes, 2 presets, limit 2, 2 requests, restarts | `TypeOK`, `FreshUnlessOwed`, `NoOrphanTexts`, `TextsOfPresentSteps` |
| `screens` | the guard, both forms, fields, recipe entry, results; trash, punishes, suggestions, lists, import | `LeavesExactlyWhenAgreed`, `CreatedOnce`, `KeyReachesRow`, `MassAgrees`, `StatesSavedAsShown`, `EntersWhatTheCharacterHas`, `SetupMadeOnce`, `ReplacesOnlySeen`, `EditorIsTrue`, `BulkActsAsAgreed`, `PunishListIsTrue`, `AdoptionIsFaithful`, `ListsAreHonest`, `ImportKeepsItsRows` |
| `input` | 2 surfaces, 2 pad inputs under 2 profiles, 2 keys; 3 targets of a pad and 2 of a keyboard | `PressTakenOnce`, `InputInSync`, `NoSharedBinding`, `OnePressOneTarget` |
| `unseen_overwrite`, `other_tags`, `told_registered`, `starter_of_character` | | each violates one claim, see section 6 |

Properties of the screens, in words:

* `LeavesExactlyWhenAgreed`: an edited form is never left without a question or a save,
  and whoever agreed to go back is gone once the browser has carried out its history moves,
  also from a sentinel of an earlier load.
* `CreatedOnce`, `SetupMadeOnce`: one opening of a form makes one row. `KeyReachesRow`: a
  changed key is never lost in an update of the other fields, even when another row came
  under the open form. `ReplacesOnlySeen`: a save of a setup replaces only what the form
  has shown.
* `MassAgrees`: band, mass and percentage of a position are one number (`BandOfMass`,
  `PercentKeepsMass`). `StatesSavedAsShown`: a state that was touched is saved as shown.
* `EntersWhatTheCharacterHas`: each move has a button behind some direction and rush, or
  behind a family and a variant that are themselves offered, although all of these are
  derived from codes by unrelated rules (`EveryMoveHasButton`), and no OD flag is left on a step that has no OD
  (`OdPairsOnOdMoves`).
* `EditorIsTrue`: once the buttons of the results are on again, what is shown is stored, and
  a note survives a cell that goes to unverified and back.
* `BulkActsAsAgreed`: what is restored or purged was ticked in its own table
  (`ActsOnlyOnAgreed`), and what was refused stays named (`RefusedStaysNamed`).
* `PunishListIsTrue`: each adoption in exactly one place, the screen as stored once all
  answers are in, each outcome told.
* `AdoptionIsFaithful`: shown as the last search asked, adopted as opened, and not offered
  again.
* `ListsAreHonest`: the character declared last is shown, no axis of results without a
  result, an export that is cut says so, a change of the state of training leaves tags of
  others alone.
* `ImportKeepsItsRows`: a handed-over CSV has each step but those left out of this very
  table, the moves in a prompt are of its character, a recipe is stored once, a setup hangs
  under the combo that its label names: that of a chosen row of the file or, if the label is a
  number, the combo of that number.
* `PressTakenOnce`: a press that a sample has seen does not become a step or an operation a
  second time, unless the provider forgot it with the pad, or the pad was registered anew
  and not read since (section 6). `InputInSync`: what counts as held is what the last sample said, and the
  command mode is on only where there are commands. `NoSharedBinding`, `OnePressOneTarget`:
  no input gets two targets, and one that is held since the last target is not taken for
  the next.

Bounds. Three combos are what a chain of two replacements, or a base, its copy and a
duplicate, take; two setups are what a duplicate and a hidden link take. A version has
to change once for a form to be stale, and two forms are two users. `OneKey`, `OneStory`
and `OneAdoption` (MCComboStore) and `OneUnread` (MCRecipeCache) say which rows a question
does not need. One process with
two crashes meets a crash in the recovery of a crash; three processes are the most of which
never two migrate at once (section 4). Two facts tell a copy that lost one
from an empty one. With limit 2 and one built-in preset the limit is met by one custom
preset, so that two requests to create race for it. Of the masses typed one is in range,
one at its end and one beyond it (and clamped). A screen's `MaxActs` counts what its
user does and `MaxOthers` what other tabs do: the numbers in `MCScreens` and `MCLists` let the
shortest stories of each hazard happen (open, edit, send, be interrupted, answer); in `Trash` what
the other tab does counts as one of the three acts. The guard has no such
bound: its history is five entries deep, with three sentinels, which takes a reload on a
sentinel and a new one. `MaxTurns`, `MaxPresses`, `MaxSteps` and `MaxRetained` bound the
command window and what waits for a render; three turns of `input` are too few for what
section 6 says of a new registration, which takes five, and the theorems of section 4 have
no bound. The ids of the store, the acts of a screen and
the presses of a pad run out under these bounds, so those runs switch the deadlock check
off; the migration and the caches are checked for deadlock. Symmetry is used on sets of
safety runs only.

What the runs do not claim: `NothingVanishes` and `ImplementsDataHome` hold for one process and without the fault
`sync`, and fail without either restriction (section 6); `OneMigrator` holds for
at most three processes and as long as no lock is stale; `FreshUnlessOwed` and `NoOrphanTexts` are about rows no reader fills;
`CreatedOnce` lets a user who stays on a form that was saved with warnings save again;
`LockSoundUntilRefetch` is about forms that no refetch has renewed since they were filled
(`unseen_overwrite` shows what the others do); `ImportKeepsItsRows` lets a setup whose label
is both a row of the file and a number hang under the combo of that number, which is where the
code puts it when the row was not brought in (section 6; the second file of `MCLists` has such a
setup).

Fairness (`FairSpec` of DataDirMigration): a started process goes on with its start-up,
which waits for nobody; a user who has no running server starts it again; time
passes, so a lock whose owner no longer migrates becomes stale (five minutes in
`lock.go`). Nothing is assumed of saves, of the user clearing a half-filled target, or of
crashes. `EventuallyServes` then says that neither a lock file left behind nor a failed
migration keeps the program away for good.

## 4. Proofs

For every value of the constants that meets the named assumptions; 43 theorems are listed in
`PROJECT.json`.

* **ComboStoreProofs.** `TypeCorrect`, with one lemma per table. `ReferencesSafe` rests on
  `AllocOrder` (ids are allocated without gaps, so that a successor is newer than the row
  it replaced) and goes table by table: a new row has nothing hanging off it, a purge
  removes every kind of reference, a request whose ends disappeared inserts nothing.
  `RowSteps` says once and for all how a step may change rows (at most one row is edited,
  inserted or destroyed beyond changes of `sup` and `mat`): from it follow
  `PublishedComplete`, `TwinsOnlyFromTrash` and `OptimisticLock`. The last needs
  `FormsBehind` as inductive strengthening: the version a form was filled from is at most the
  one it sends, and that at most its row's; without it a version left behind could come back.
  `CombosRefineLifecycle` and `SetupsRefineLifecycle` are the refinement of
  `RowLifecycle`, action by action.
* **SetupLinkProofs** says what becomes of links. `KeyChangesCarry`: of all actions only a
  key change sets `superseded_by_combo_id` of a row to a new one, and that one moves
  results and adoptions of whatever form. `HiddenLinksKept`: a link goes with its unlink, with
  a destroyed end, or in a save that only drops links of live setups.
  `SetupTwinsFromElsewhere`: what registers or edits a setup has asked VAL-S04 in the same
  transaction. All three are action properties of steps from states with the
  inductive invariant of `ReferencesSafe`, which says that a fresh row has nothing hanging
  off it.
* **DataDirMigrationProofs.** `TypeCorrect` and `NewComplete`, for any number of processes,
  two migrators included. `NewIsComplete` is not inductive: `CommitInv` adds what a process
  that is committing knows (what is no longer left in staging is in the target; whoever
  moves the database has moved the files) and that one of the two directories has a
  database. `NothingLost` and `RetiredWhenCopied` assume `Alone`: one process and no fault
  `sync`, but any number of crashes and every other fault. `KeptInv` names where the facts
  are (`Home`: the old directory until there is a new database, then the directory
  `config.toml` names) and what the process relies on at each of its labels: before
  the commit that there is no new database, from verification on that the copy has all facts, from the
  commit on that the new one has, and that it serves from `Home`. Since the database of
  `Home` is what was saved, no more and no less, `MigrationIsInvisible` follows: whatever is
  not a save opens the program, closes it or is a stutter of `DataHome`.
  `StartupsEnd` is the part of `EventuallyServes` that needs no fairness. It assumes only that
  the entries of the directory are finitely many. `Advances` is the control graph of the
  start-up (every step goes down it, but for the second attempt at the lock and the next entry
  of staging), `StepsLeft` counts what is left of both, and `EntryIsLeft` says that moving
  an entry takes one off. `NewKept` and
  `NeverTwoMigrate` assume that no process crashes, so that no lock goes stale; every fault
  may happen. `NewKept` holds for any number of processes: until the old directory is retired
  whoever migrates owns the lock, and from then on there is a new database, which a commit
  never overwrites (`Exclusive`).
  `NeverTwoMigrate` is about at most three (`AtMostThree`). The lock is a file in the
  directory that is retired, so the proof has to say who can still migrate afterwards:
  `RetiredInv`, of three one has retired, and one that made the old directory anew has
  failed or serves; only one is left, and a fourth process breaks it (section 6).
* **RecipeCacheProofs.** `TypeCorrect`, with `ReadersHaveRows`. `TextsShowPresentSteps`
  rests on `StepsInv`: what a reader copied or computed is of the steps its combo has,
  because the steps of a stored combo never change. `CachesWellKept` is about rows no reader
  asks for, whatever happens to the others; it gives `FreshWithoutReaders` and
  `NoOrphansWithoutReaders`. `RulesOfPresets` (the limit and unique names, which no run
  checks) adds that the presets are finitely many.
* **InputRegistrationProofs.** `BindingsDistinct` rests on `Registered`: both dialogs are
  sessions whose profile gives distinct inputs to distinct targets and whose place in the
  order, question and backup fit together. `PressesDistinct` rests on `Guarded`: while a
  target is asked for and an input is held since before, the dialog waits for its release.
  Both hold for any order of targets, any inputs and any standard profile that meets
  `RegistrationAssumption`.
* **FormsProofs.** One inductive invariant for each screen; an action of another screen
  leaves it alone, and each action of a screen is one step of its proof.
  * The guard (`GuardInv`): a sentinel lies on an entry of its own page (`Chain`), an edited
    form whose guard is up is on its sentinel (`Sealed`), one traversal at a time is under
    way, for a known purpose (`UnderWay`), and whoever agreed to go back is on the way or
    gone (`AgreedBack`). `LeftOnlyAsAgreed` follows for histories of any length and any
    number of reloads.
  * The combo form (`ComboInv`): what may still make a combo is one of a request under way,
    an open dialog and nothing (`OneWayToCombo`), and a form of the version of the row has
    its key (`KeyOfVersion`), from which a PATCH that is accepted changes no key:
    `OneComboPerForm`, `KeyIsWritten`.
  * Its fields (`FieldsInv`): `BandAndMassAgree` needs that the row and the form each have a
    band that fits their mass (`PlacedAlike`); `TouchedStatesAreSaved` that states are typed and
    both ends of a single state are equal (`StatesTyped`).
  * The setup form (`SetupInv`): the same two thoughts, `OneWayToSetup` for
    `OneSetupPerForm`, and for `OnlySeenReplaced` that the form was filled from some version of
    the row, and from the row as it is when that version is the last (`FilledFromRow`).
  * The editor of results (`ItemInv`): writes go one at a time, and a note nobody types is the stored
    one (`OneWrite`, `UntypedNotes`): `ResultsAreTrue`.
  * Entering a recipe (`RecipeInv`): the steps are such that a pair of strengths stands only
    on a special move with OD (`TrueSteps`), and so do the ticks of an open dialog, whose step
    nothing moves meanwhile (`TrueDialog`). That each move has its button (`AllEntered`) is
    shown tab by tab. For special moves: a family is its base with the ending of its variant
    (`FamilyIsSplit`), so base, variant and strength name one move (`OneMoveEach`), and the
    base of a variant is there itself (`BaseIsThere`), so that the row of variants is shown.
    `OnlyMovesAreEntered`, and `MovesAreEnterable` at any time.
* **ListsProofs.** Likewise.
  * The trash (`TrashInv`): what is ticked is in the table that is shown, what is acted on
    was agreed to, what is refused is named: `OnlyAgreedIsDone`.
  * Punishes (`PunishInv`): a query that was read is of what is stored, since each write
    asks for it anew (`ReadsWhatIsStored`); a request whose page is still there has its
    callbacks (`OutcomeTold`): `PunishListShowsAll`.
  * Combo lists (`ListsInv`): the session holds the address while a list is shown; what was
    read of a row has its tags or an older version; what an export reads again has no row
    any more, and an export that can succeed is of the rows there are: `ListsShowAndKeep`.
  * Suggestions (`SuggestionInv`): an answer is the first that its own conditions find,
    whatever is asked for by now (`AnswersTheirKey`); a form belongs to the row it was
    opened for; a setup made here is told of by an answer still to come or by what the
    screen will show (`MadeAreTold`): `AdoptedAsOpened`.
  * Import (`ImportInv`), by what is under way. A table: what is left out was left out of
    the table shown. A file: a CSV handed over holds its table, which counts steps through an
    order of them and not by recursion. A commit: no recipe is stored twice, and a combo
    registered as a parent is of a chosen row and, when doubles are skipped, newer than the
    request. Then `RowsAreKept`, for any
    tables and any files in which no row is called 0, labels that are numbers included.
* **PhysicalInputProofs.** The actions are compositions of helpers, so each helper has a
  lemma about what it leaves alone, and the invariant `IInv` is proved along the
  order of an action: what was read is what counts as held, of the pad and of the keyboard; what
  a dialog or a render changes in between. `TakenOnce` and `StaysInSync` hold for any inputs,
  bindings and surfaces that meet `InputAssumption`, and any number of presses.

Named assumptions: `InputAssumption` and `RegistrationAssumption` are in their modules, the
others in `Forms` and `Lists`: typed numbers are numbers; the moves of a character are a roster
as the database and its tests keep it (`RecipeAssumption`: a code is there once, by
`UNIQUE (character_id, code)` of the first migration; no two special moves share family,
variant and strength, which moveSurfacing.roster.test.ts asserts of all characters; no variant has a
variant of its own, section 6); finitely many combos and proposals;
the ranking of proposals leaves no two level; no row of a file is called 0, which stands for
none in the model; no recipe is stored twice at first. TLC evaluates each of them.

Only model-checked: `EventuallyServes`, a liveness property under fairness, which is out of
the prover's reach (that every start-up ends is proved, that one gets past the lock is not), and so is what the recursive definitions of `InputResolution` compute for
every input.

## 5. Abstractions, and what is not modelled

* `ComboStore`: AcknowledgeGameVersion, oki options, the per-field rules and warnings of
  the validation, prunings and starters, list, search and sort queries. A tag is a mark
  of its user. The texts of `recipe_cache` are in `RecipeCache`.
* `DataDirMigration`: sweeping of staging directories, the choice of a name for the
  retired directory, symbolic links inside the directory, and paths outside of both
  directories.
* `RecipeCache`: purges, recipes without a move, and the wording of texts. An
  alias conflict is one of the ways a request gives up. ResolveSetupRecipe is not called
  by the program.
* Screens: notes, wording, layout, sorting and columns; drag and drop of steps; the search
  form and the tree of the punish page; the candidates of the link dialog; pages for
  settings, login, users and frame data. A text field takes the few values its rules tell
  apart.
* `Import`: parsing and validation of files, and what the server makes of a pasted text
  (the constant `CodeOf` is its answer). The server's part goes row by row, as the code does:
  the duplicate check stands before the transaction that creates the row, any row and any setup may fail
  alone, and other tabs write in between.
* `PhysicalInput`: the assignments of shortcuts are fixed, the readout is left out.
  `InputRegistration`: a second tab that saves other profiles.
* Not modelled: authentication and users (sessions in memory that no other part reads); the
  schema migration (golang-migrate does the work, the program ends on its error); the punish
  finder and the server's setplay search (pure scans of frame data, without state); writers
  of `config.toml` besides the default preset and the relocated paths; notices, tray,
  generators, master data. `PROJECT.json` has a reason for each.

## 6. Where code and words differ

Shown by a run:

* `unseen_overwrite`: the design (02-architecture.md:1082) says that of two who edit one combo
  at once the one who saves last is rejected, so that nobody overwrites by mistake what
  another has changed. The fields of the editor are filled when it is mounted
  (ComboEditor.tsx:189, 206), but the version is that of the live query (410, 523, 784), which
  React Query fetches again by default when the window gets the focus. A form that was
  refetched after somebody else's save therefore sends the new version with its old fields,
  and takes that save back without a word. The setup form is filled again with its
  version, and `ReplacesOnlySeen` holds of it.
* `other_tags`: the data model (03-data-model.md:739) says a save leaves other users'
  tags alone; a save by key change leaves them on the row in the trash.
* `told_registered`: asked to make a punish-counter version of an adopted combo, the server
  may find one that was entered by hand. It takes the adoption off the base and adopts
  nothing, and the page says that the punish is registered already (PunishList.tsx:131).
* `starter_of_character`: a comment (useComboListFilters.ts:28) says that a starter goes
  with its character; a new default character takes the old one out of the remembered filters
  and leaves the starter.

Met while modelling, in the modules' behaviours but without a run of their own:

* A reader that fills one missing text writes the whole column back and undoes a recompute
  committed in between. It may also write the text of a preset that has been deleted since
  it looked, or into the cache of a row that is in the trash since.
* A preset can be deleted and become the default at once; both handlers check before they
  write. The next start repairs it.
* Two starts that both judge a lock stale both migrate, because the lock is removed by
  name. With four processes this needs no stale lock: a start that failed can make the old
  database anew after its directory, lock included, was retired, and two others
  migrate that one at once.
* With fault `sync` the database is in place and the migration counts as failed: the
  server goes on with the old directory and the next start opens the new one, without
  what was saved in between (the comment at migrate.go:323 counts on the database coming
  last).
* With two processes: a start that decided before the other retired the old directory
  cannot create its lock there, falls back on the missing directory and makes an empty
  database in it; and a start in the gap between the release of the lock
  and the retirement opens the old directory and is left in the retired one.
* A curation request that arrives after its adoption was withdrawn leaves an orphan, which
  the lists ignore.
* After a pad is registered anew with a button held, the next sample is to be taken as what
  is down already (`setProfile`). A second dialog that opens, or a key, before the pad is
  read again spends this, with the pad as it was read before (useStepDetection.ts:222), and
  the held button is taken as pressed under its new meaning, which the comment at
  stepDetection.ts:452 says must not happen. The proof of `PressTakenOnce` did not go
  through until its invariant left these presses out; TLC reaches one with five turns.
* Of two physical steps that settle within one render the effect keeps the second only.
* A follow-up button that is held while the shortcut is left into the command mode counts
  as a fresh press there.
* A preview that is under way while the file is changed is shown for the new file.
* A setup whose parent is called by a number, and whose row was not taken, hangs under the
  combo that has this number as its id in the database (import.go:308); the design
  (05-screen-design.md:1464) says such a setup has nothing to hang under. What the program
  itself writes calls no row by a number, but a file may; the second file of `MCLists` does,
  and the property grants it.
* A variant of a variant (`x`, `x_holding`, `x_holding_perfect`) could not be entered: the
  last is a variant of the family `x_holding`, which is one of `x` itself, so its own family is
  shown with this one variant, without the row to choose it and with no plain move to fall
  back on (SpecialMovePanel.tsx:131, 224). No character has such moves today and no test says
  so; `RecipeAssumption` leaves them out, because the proof needs it.

## 7. Plan

Done: the store, the data directory, the caches and presets, the front end's forms, lists,
import and physical input, each with runs and proofs. Left, by importance:

1. `Auth`: log-in that verifies, then inserts a session, against a change of the
   password that drops all sessions (`internal/service/auth/service.go:118`).
2. `Startup`: configuration writers (shared `config.toml.tmp`), probe of the port, schema
   migration with its dirty flag; abstract specification: one value per key, each update
   atomic.
3. Abstract specifications for the screens, shown to be implemented: an import as one step
   that adds the chosen rows, a form as a register that is written once.
4. The pure searches (setplay, punish finder) as operators, checked against reference
   definitions over bounded inputs.
