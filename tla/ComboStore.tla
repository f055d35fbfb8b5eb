------------------------------ MODULE ComboStore ------------------------------
(***************************************************************************)
(* The relational core of tacpendium: the tables combos, setups,           *)
(* combo_setups, combo_setup_results, combo_tags, combo_punishes and       *)
(* combo_punish_curations, and the handlers of the combo, setup and punish *)
(* services that write them.                                               *)
(*                                                                         *)
(* SQLite is opened with _txlock=immediate (infra/db), so a handler that   *)
(* starts with BeginTx holds the single write lock until it commits: its   *)
(* transaction is one atomic action here, and a handler that rejects its   *)
(* input leaves every row alone (its guard is false).  A handler that      *)
(* reads before BeginTx is split where the read and the transaction can be *)
(* interleaved: CreateSetupLink, Materialize and the hiding of an adoption *)
(* keep what they read in a request, and a client keeps what it read in    *)
(* its edit form, whose fields are filled once while a refetch may renew   *)
(* the version that its save will name.                                    *)
(***************************************************************************)
EXTENDS Integers, FiniteSets

CONSTANTS
  MaxCombo,       \* bound: combos.id values ever allocated (AUTOINCREMENT)
  MaxSetup,       \* bound: setups.id values ever allocated
  MaxVersion,     \* bound: highest row version an edit may produce
  MaxEmbedded,    \* bound: setups registered together with a combo
  Recipes,        \* recipe hashes with the rest of the duplicate key but hit_type
  SetupRecipes,   \* recipe hashes of setups
  Advantages,     \* knockdown_advantage values
  NoAdvantage,    \* the NULL of knockdown_advantage
  Users,          \* the users, each with one edit form open at a time
  Taggers,        \* the users that have a tag to attach
  OppMoves,       \* opponent moves a combo may be adopted to punish
  Workers         \* requests that may be between a read and their transaction

ASSUME BoundsAssumption ==
  /\ MaxCombo \in Nat /\ MaxSetup \in Nat
  /\ MaxVersion \in Nat \ {0} /\ MaxEmbedded \in Nat
ASSUME NoAdvantageAssumption == NoAdvantage \notin Advantages
ASSUME TaggersAssumption == Taggers \subseteq Users
ASSUME RecipesAssumption == Recipes # {} /\ SetupRecipes # {}

VARIABLES
  combos,      \* combos: id -> row
  setups,      \* setups: id -> row
  links,       \* combo_setups: which setups hang off which combo
  results,     \* combo_setup_results: links with a verified condition
  tags,        \* combo_tags: combos tagged by a user
  punishes,    \* combo_punishes: combos adopted against an opponent move
  curations,   \* combo_punish_curations: adoptions hidden from the list
  forms,       \* the combo each user is editing, as read
  setupForms,  \* the setup each user is editing, as read
  requests     \* requests between their read and their transaction

punishTables == <<punishes, curations>>
linkTables == <<links, results>>
editors == <<forms, setupForms>>
vars == <<combos, setups, links, results, tags, punishes, curations,
          forms, setupForms, requests>>

ComboIds == 1 .. MaxCombo
SetupIds == 1 .. MaxSetup
States == {"none", "live", "trash", "gone"}
HitTypes == {"normal", "punish"}
AdvantagesOrNull == Advantages \cup {NoAdvantage}

-------------------------------------------------------------------------------
(* Rows.  "none": the id is not allocated yet; "trash": deleted_at is set;   *)
(* "gone": the row is deleted.  sup and mat are superseded_by_combo_id and   *)
(* materialized_from_combo_id, 0 for NULL.                                   *)

ComboRow == [st: States, ver: 0 .. MaxVersion, draft: BOOLEAN,
             recipe: Recipes, hit: HitTypes, ka: AdvantagesOrNull,
             sup: 0 .. MaxCombo, mat: 0 .. MaxCombo]

SetupRow == [st: States, ver: 0 .. MaxVersion, recipe: SetupRecipes]

NoComboRow(st) == [st |-> st, ver |-> 0, draft |-> FALSE,
                   recipe |-> CHOOSE r \in Recipes : TRUE, hit |-> "normal",
                   ka |-> NoAdvantage, sup |-> 0, mat |-> 0]

NoSetupRow(st) == [st |-> st, ver |-> 0, recipe |-> CHOOSE r \in SetupRecipes : TRUE]

NewComboRow(draft, recipe, hit, ka, mat) ==
  [st |-> "live", ver |-> 1, draft |-> draft, recipe |-> recipe, hit |-> hit,
   ka |-> ka, sup |-> 0, mat |-> mat]

Live(c) == combos[c].st = "live"
Stored(c) == combos[c].st \in {"live", "trash"}
LiveSetup(s) == setups[s].st = "live"
StoredSetup(s) == setups[s].st \in {"live", "trash"}

\* Mutants: the trash check dropped, or made before the transaction.
InTrashUnchecked(c) == Stored(c)
SetupInTrashUnchecked(s) == StoredSetup(s)

\* Restore, PermanentDelete: deleted_at is read in the transaction itself.
InTrash(c) == combos[c].st = "trash"
SetupInTrash(s) == setups[s].st = "trash"

\* AUTOINCREMENT: the next id is above every id ever used.
NextCombo(c) == /\ combos[c].st = "none"
                /\ \A d \in ComboIds : d < c => combos[d].st # "none"
NextSetup(s) == /\ setups[s].st = "none"
                /\ \A t \in SetupIds : t < s => setups[t].st # "none"

-------------------------------------------------------------------------------
(* Validation.                                                               *)

\* VAL-C02: a live published combo with the same duplicate key.
DupPublished(recipe, hit) ==
  \E d \in ComboIds : /\ Live(d) /\ ~combos[d].draft
                      /\ combos[d].recipe = recipe /\ combos[d].hit = hit

\* Drafts skip the full validation; a published combo needs the fields of
\* VAL-C15 and must not duplicate another.
MaySave(draft, recipe, hit, ka) ==
  draft \/ (ka # NoAdvantage /\ ~DupPublished(recipe, hit))

\* Mutant: parents in the trash are left out of the check.
DupSetupLiveParents(c, recipe, self) ==
  Live(c) /\ \E t \in SetupIds \ self : /\ <<c, t>> \in links /\ LiveSetup(t)
                                        /\ setups[t].recipe = recipe

\* VAL-S04: a live setup with the same recipe already hangs off the combo.
DupSetup(c, recipe, self) ==
  \E t \in SetupIds \ self : /\ <<c, t>> \in links /\ LiveSetup(t)
                             /\ setups[t].recipe = recipe

-------------------------------------------------------------------------------
(* Rows of the association tables.                                           *)

Of(c, rel) == {p \in rel : p[1] = c}
\* Mutant: rows are copied to the new combo instead of moved.
Copied(rel, old, new) == rel \cup {<<new, p[2]>> : p \in Of(old, rel)}
Moved(rel, old, new) == {<<IF p[1] = old THEN new ELSE p[1], p[2]>> : p \in rel}
Retagged(c, u, tagged) == (tags \ {<<c, u>>}) \cup (IF tagged THEN {<<c, u>>} ELSE {})

\* Mutant: the DELETE has no liveSetupScope.
DroppedWithTrashed(c, keep) == {<<c, s>> : s \in SetupIds \ keep}

\* setupCarryOptions: the live setups of c that are not kept lose their link
\* (and with it their results); links of trashed setups are not looked at.
Dropped(c, keep) == {<<c, s>> : s \in {t \in SetupIds \ keep : LiveSetup(t)}}

\* A changed knockdown advantage needs a decision about the live setups.
CarryDecided(c, ka, asked) ==
  asked \/ ka = combos[c].ka \/ ~\E s \in SetupIds : <<c, s>> \in links /\ LiveSetup(s)

-------------------------------------------------------------------------------
(* Requests and edit forms.                                                  *)

Idle == [kind |-> "idle"]
LinkRequest == [kind : {"link"}, combo : ComboIds, setup : SetupIds]
CurateRequest == [kind : {"curate"}, combo : ComboIds, move : OppMoves]
MaterializeRequest ==
  [kind : {"materialize"}, base : ComboIds, draft : BOOLEAN, recipe : Recipes,
   ka : AdvantagesOrNull, user : Users, tagged : BOOLEAN, move : OppMoves]
DrainRequest == [kind : {"drain"}, base : ComboIds, move : OppMoves]
Requests == {Idle} \cup LinkRequest \cup CurateRequest
              \cup MaterializeRequest \cup DrainRequest

\* The editor of a combo: draft and ka are what its fields were filled with, at
\* version shown; ver is the version its query has, which a save sends.
ComboForm == [id : 0 .. MaxCombo, ver : 0 .. MaxVersion, shown : 0 .. MaxVersion,
              draft : BOOLEAN, ka : AdvantagesOrNull]
NoForm == [id |-> 0, ver |-> 0, shown |-> 0, draft |-> FALSE, ka |-> NoAdvantage]

SetupForm == [id : 0 .. MaxSetup, ver : 0 .. MaxVersion]
NoSetupForm == [id |-> 0, ver |-> 0]

TypeOK ==
  /\ combos \in [ComboIds -> ComboRow]
  /\ setups \in [SetupIds -> SetupRow]
  /\ links \subseteq ComboIds \X SetupIds
  /\ results \subseteq ComboIds \X SetupIds
  /\ tags \subseteq ComboIds \X Users
  /\ punishes \subseteq ComboIds \X OppMoves
  /\ curations \subseteq ComboIds \X OppMoves
  /\ forms \in [Users -> ComboForm]
  /\ setupForms \in [Users -> SetupForm]
  /\ requests \in [Workers -> Requests]
  /\ \A c \in ComboIds : combos[c].ver # 0 <=> Stored(c)
  /\ \A s \in SetupIds : setups[s].ver # 0 <=> StoredSetup(s)

Init ==
  /\ combos = [c \in ComboIds |-> NoComboRow("none")]
  /\ setups = [s \in SetupIds |-> NoSetupRow("none")]
  /\ links = {} /\ results = {} /\ tags = {}
  /\ punishes = {} /\ curations = {}
  /\ forms = [u \in Users |-> NoForm]
  /\ setupForms = [u \in Users |-> NoSetupForm]
  /\ requests = [w \in Workers |-> Idle]

-------------------------------------------------------------------------------
(* Combos: POST, PATCH, PUT, DELETE, restore, permanent delete.              *)

\* Setups registered with a combo are created one by one in its transaction;
\* VAL-S04 sees the ones before it, so their recipes are pairwise distinct.
EmbeddedSetups ==
  {f \in UNION {[ids -> SetupRecipes] : ids \in
                  {{s \in SetupIds : setups[s].st = "none" /\ s =< n} : n \in SetupIds \cup {0}}} :
     /\ Cardinality(DOMAIN f) =< MaxEmbedded
     /\ \A s, t \in DOMAIN f : f[s] = f[t] => s = t}

\* Create: VAL-C02 and VAL-C15 inside the transaction, then the row, the
\* caller's tags and the embedded setups with their verified conditions.
Create(u, draft, recipe, hit, ka, tagged, embedded, verified) ==
  \E c \in ComboIds :
    /\ NextCombo(c)
    /\ MaySave(draft, recipe, hit, ka)
    /\ combos' = [combos EXCEPT ![c] = NewComboRow(draft, recipe, hit, ka, 0)]
    /\ tags' = Retagged(c, u, tagged)
    /\ setups' = [s \in SetupIds |->
                    IF s \in DOMAIN embedded
                      THEN [st |-> "live", ver |-> 1, recipe |-> embedded[s]]
                      ELSE setups[s]]
    /\ links' = links \cup {<<c, s>> : s \in DOMAIN embedded}
    /\ results' = results \cup {<<c, s>> : s \in verified}
    /\ UNCHANGED <<punishTables, editors, requests>>

OpenForm(u, c) ==
  /\ Live(c)
  /\ forms' = [forms EXCEPT ![u] =
                 [id |-> c, ver |-> combos[c].ver, shown |-> combos[c].ver,
                  draft |-> combos[c].draft, ka |-> combos[c].ka]]
  /\ UNCHANGED <<combos, setups, linkTables, tags, punishTables, setupForms, requests>>

\* The query of an open form is fetched again, when the window gets the focus or
\* the network is back: the version is renewed, the fields stay as filled.
RefetchForm(u) ==
  LET c == forms[u].id IN
    /\ c # 0
    /\ Live(c) /\ combos[c].ver # forms[u].ver
    /\ forms' = [forms EXCEPT ![u].ver = combos[c].ver]
    /\ UNCHANGED <<combos, setups, linkTables, tags, punishTables, setupForms, requests>>

\* The user leaves the form, or a refetch finds no live row and an error takes
\* the place of the form.
CloseForm(u) ==
  /\ forms[u] # NoForm
  /\ forms' = [forms EXCEPT ![u] = NoForm]
  /\ UNCHANGED <<combos, setups, linkTables, tags, punishTables, setupForms, requests>>

\* Mutants: a promotion without VAL-C02; a PATCH without VAL-C15.
PatchWithoutDuplicateCheck(c, draft, ka) ==
  (combos[c].draft /\ draft) \/ ka # NoAdvantage
PatchWithoutRequiredFields(c, draft, ka) ==
  combos[c].draft => draft \/ MaySave(FALSE, combos[c].recipe, combos[c].hit, ka)

\* PATCH: a draft that becomes published is validated in full inside the
\* transaction; a published combo keeps its required fields; the row changes
\* only if it is live and at the version the form sends.
PatchAllowed(c, draft, ka) ==
  IF combos[c].draft
    THEN draft \/ MaySave(FALSE, combos[c].recipe, combos[c].hit, ka)
    ELSE ka # NoAdvantage

\* Mutant: the version counts only changes of the knockdown advantage.
PatchedRowSameVersion(row, draft, ka) ==
  [row EXCEPT !.draft = draft, !.ka = ka, !.ver = IF ka = row.ka THEN @ ELSE @ + 1]

PatchedRow(row, draft, ka) ==
  [row EXCEPT !.draft = draft, !.ka = ka, !.ver = @ + 1]

UpdateMetadata(u, draft, ka, tagged, asked, keep) ==
  LET c == forms[u].id IN
    /\ c # 0
    /\ PatchAllowed(c, draft, ka)
    /\ CarryDecided(c, ka, asked)
    /\ Live(c) /\ combos[c].ver = forms[u].ver /\ combos[c].ver < MaxVersion
    /\ combos' = [combos EXCEPT ![c] = PatchedRow(@, draft, ka)]
    /\ tags' = Retagged(c, u, tagged)
    /\ links' = IF asked THEN links \ Dropped(c, keep) ELSE links
    /\ results' = IF asked THEN results \ Dropped(c, keep) ELSE results
    /\ forms' = [forms EXCEPT ![u] = NoForm]
    /\ UNCHANGED <<setups, punishTables, setupForms, requests>>

\* PUT: the old row goes to the trash and points to the new one, which takes
\* over the links that are kept, their results and the adoptions; the saver's
\* tags are written to the new row.
UpdateWithKeyChange(u, draft, recipe, hit, ka, tagged, asked, keep) ==
  LET old == forms[u].id
      dropped == IF asked THEN Dropped(old, keep) ELSE {}
  IN \E new \in ComboIds :
       /\ old # 0
       /\ NextCombo(new)
       /\ MaySave(draft, recipe, hit, ka)
       /\ CarryDecided(old, ka, asked)
       /\ Live(old) /\ combos[old].ver = forms[u].ver
       /\ combos' = [combos EXCEPT ![old].st = "trash", ![old].sup = new,
                                   ![new] = NewComboRow(draft, recipe, hit, ka, 0)]
       /\ links' = Moved(links \ dropped, old, new)
       /\ results' = Moved(results \ dropped, old, new)
       /\ punishes' = Moved(punishes, old, new)
       /\ curations' = Moved(curations, old, new)
       /\ tags' = IF tagged THEN Retagged(new, u, TRUE) ELSE tags
       /\ forms' = [forms EXCEPT ![u] = NoForm]
       /\ UNCHANGED <<setups, setupForms, requests>>

Delete(c) ==
  /\ Live(c)
  /\ combos' = [combos EXCEPT ![c].st = "trash"]
  /\ UNCHANGED <<setups, linkTables, tags, punishTables, editors, requests>>

\* Restore only warns about duplicates (VAL-R03): it is the one way back.
Restore(c) ==
  /\ InTrash(c)
  /\ combos' = [combos EXCEPT ![c].st = "live"]
  /\ UNCHANGED <<setups, linkTables, tags, punishTables, editors, requests>>

\* Mutant: a copy keeps the id of its destroyed base.
DetachedSuccessor(row, c) == [row EXCEPT !.sup = IF @ = c THEN 0 ELSE @]

\* References of other combos to a destroyed one are set to NULL.
Detached(row, c) == [row EXCEPT !.sup = IF @ = c THEN 0 ELSE @,
                                !.mat = IF @ = c THEN 0 ELSE @]

\* HardDelete: the rows of the seven child tables, the references of other
\* combos set to NULL, then the row.
PermanentDelete(c) ==
  /\ InTrash(c)
  /\ combos' = [d \in ComboIds |->
                  IF d = c THEN NoComboRow("gone")
                  ELSE Detached(combos[d], c)]
  /\ links' = links \ Of(c, links)
  /\ results' = results \ Of(c, results)
  /\ tags' = tags \ Of(c, tags)
  /\ punishes' = punishes \ Of(c, punishes)
  /\ curations' = curations \ Of(c, curations)
  /\ UNCHANGED <<setups, editors, requests>>

-------------------------------------------------------------------------------
(* Setups: create, link, unlink, edit, trash, restore, purge, verification.  *)

CreateSetup(s, c, recipe, verified) ==
  /\ NextSetup(s) /\ Live(c)
  /\ ~DupSetup(c, recipe, {})
  /\ setups' = [setups EXCEPT ![s] = [st |-> "live", ver |-> 1, recipe |-> recipe]]
  /\ links' = links \cup {<<c, s>>}
  /\ results' = IF verified THEN results \cup {<<c, s>>} ELSE results
  /\ UNCHANGED <<combos, tags, punishTables, editors, requests>>

\* CreateSetupLink checks that both rows are live before it opens its
\* transaction; the transaction only inserts, under the foreign and primary
\* keys of combo_setups, and looks at neither liveness nor VAL-S04.
LinkCheck(w, c, s) ==
  /\ requests[w] = Idle
  /\ Live(c) /\ LiveSetup(s) /\ <<c, s>> \notin links
  /\ requests' = [requests EXCEPT ![w] = [kind |-> "link", combo |-> c, setup |-> s]]
  /\ UNCHANGED <<combos, setups, linkTables, tags, punishTables, editors>>

\* Mutant: the foreign keys of combo_setups are not enforced.
LinkInsertUnchecked(w) ==
  LET c == requests[w].combo
      s == requests[w].setup
  IN /\ requests[w].kind = "link"
     /\ links' = links \cup {<<c, s>>}
     /\ requests' = [requests EXCEPT ![w] = Idle]
     /\ UNCHANGED <<combos, setups, results, tags, punishTables, editors>>

LinkInsert(w) ==
  LET c == requests[w].combo
      s == requests[w].setup
  IN /\ requests[w].kind = "link"
     /\ links' = IF Stored(c) /\ StoredSetup(s) THEN links \cup {<<c, s>>} ELSE links
     /\ requests' = [requests EXCEPT ![w] = Idle]
     /\ UNCHANGED <<combos, setups, results, tags, punishTables, editors>>

DeleteSetupLink(c, s) ==
  /\ <<c, s>> \in links
  /\ links' = links \ {<<c, s>>}
  /\ results' = results \ {<<c, s>>}
  /\ UNCHANGED <<combos, setups, tags, punishTables, editors, requests>>

OpenSetupForm(u, s) ==
  /\ LiveSetup(s)
  /\ setupForms' = [setupForms EXCEPT ![u] = [id |-> s, ver |-> setups[s].ver]]
  /\ UNCHANGED <<combos, setups, linkTables, tags, punishTables, forms, requests>>

\* A new recipe is checked against every combo the setup hangs off, the
\* trashed ones included (FindComboIDsBySetupIDAllowDeleted).  What the handler
\* reads before its transaction is protected by the version.
UpdateSetup(u, recipe) ==
  LET s == setupForms[u].id IN
    /\ s # 0
    /\ recipe = setups[s].recipe
         \/ \A c \in ComboIds : <<c, s>> \in links => ~DupSetup(c, recipe, {s})
    /\ LiveSetup(s) /\ setups[s].ver = setupForms[u].ver /\ setups[s].ver < MaxVersion
    /\ setups' = [setups EXCEPT ![s].recipe = recipe, ![s].ver = @ + 1]
    /\ setupForms' = [setupForms EXCEPT ![u] = NoSetupForm]
    /\ UNCHANGED <<combos, linkTables, tags, punishTables, forms, requests>>

\* The links stay, except the one to unlinkFrom (0: none asked for).
DeleteSetup(s, unlinkFrom) ==
  /\ LiveSetup(s)
  /\ setups' = [setups EXCEPT ![s].st = "trash"]
  /\ links' = links \ {<<unlinkFrom, s>>}
  /\ results' = results \ {<<unlinkFrom, s>>}
  /\ UNCHANGED <<combos, tags, punishTables, editors, requests>>

RestoreSetup(s) ==
  /\ SetupInTrash(s)
  /\ setups' = [setups EXCEPT ![s].st = "live"]
  /\ UNCHANGED <<combos, linkTables, tags, punishTables, editors, requests>>

\* Refused while a live combo refers to the setup (SetupInUseError).
PermanentDeleteSetup(s) ==
  /\ SetupInTrash(s)
  /\ ~\E c \in ComboIds : Live(c) /\ <<c, s>> \in links
  /\ setups' = [setups EXCEPT ![s] = NoSetupRow("gone")]
  /\ links' = {p \in links : p[2] # s}
  /\ results' = {p \in results : p[2] # s}
  /\ UNCHANGED <<combos, tags, punishTables, editors, requests>>

\* UpsertResult and DeleteResult: the link, to a live setup, is looked up
\* inside the transaction.
UpsertResult(c, s) ==
  /\ <<c, s>> \in links /\ LiveSetup(s)
  /\ results' = results \cup {<<c, s>>}
  /\ UNCHANGED <<combos, setups, links, tags, punishTables, editors, requests>>

DeleteResult(c, s) ==
  /\ <<c, s>> \in links /\ LiveSetup(s)
  /\ results' = results \ {<<c, s>>}
  /\ UNCHANGED <<combos, setups, links, tags, punishTables, editors, requests>>

-------------------------------------------------------------------------------
(* Adoptions against opponent moves, and materialize.                        *)

AddPunish(c, m) ==
  /\ Stored(c)
  /\ punishes' = punishes \cup {<<c, m>>}
  /\ UNCHANGED <<combos, setups, linkTables, tags, curations, editors, requests>>

RemovePunish(c, m) ==
  /\ punishes' = punishes \ {<<c, m>>}
  /\ curations' = curations \ {<<c, m>>}
  /\ UNCHANGED <<combos, setups, linkTables, tags, editors, requests>>

\* The list offers to hide an adoption; the handler inserts the curation
\* without looking at combo_punishes again.
CurateCheck(w, c, m) ==
  /\ requests[w] = Idle
  /\ Live(c) /\ <<c, m>> \in punishes \ curations
  /\ requests' = [requests EXCEPT ![w] = [kind |-> "curate", combo |-> c, move |-> m]]
  /\ UNCHANGED <<combos, setups, linkTables, tags, punishTables, editors>>

AddCuration(w) ==
  LET c == requests[w].combo IN
    /\ requests[w].kind = "curate"
    /\ curations' = IF Stored(c) THEN curations \cup {<<c, requests[w].move>>} ELSE curations
    /\ requests' = [requests EXCEPT ![w] = Idle]
    /\ UNCHANGED <<combos, setups, linkTables, tags, punishes, editors>>

RemoveCuration(c, m) ==
  /\ <<c, m>> \in curations
  /\ curations' = curations \ {<<c, m>>}
  /\ UNCHANGED <<combos, setups, linkTables, tags, punishes, editors, requests>>

\* Materialize reads the base combo before its transaction.  Punish-counter
\* combos are not eligible.
MaterializeRead(w, u, c, m) ==
  /\ requests[w] = Idle
  /\ Live(c) /\ combos[c].hit # "punish"
  /\ requests' = [requests EXCEPT ![w] =
       [kind |-> "materialize", base |-> c, draft |-> combos[c].draft,
        recipe |-> combos[c].recipe, ka |-> combos[c].ka,
        user |-> u, tagged |-> <<c, u>> \in tags, move |-> m]]
  /\ UNCHANGED <<combos, setups, linkTables, tags, punishTables, editors>>

\* An existing published punish-counter version is returned as it is; the
\* transaction is closed before the base's adoption is drained by another.
MaterializeExisting(w) ==
  LET q == requests[w] IN
    /\ q.kind = "materialize"
    /\ DupPublished(q.recipe, "punish")
    /\ requests' = [requests EXCEPT ![w] =
                      [kind |-> "drain", base |-> q.base, move |-> q.move]]
    /\ UNCHANGED <<combos, setups, linkTables, tags, punishTables, editors>>

DrainBasePunish(w) ==
  LET q == requests[w] IN
    /\ q.kind = "drain"
    /\ punishes' = punishes \ {<<q.base, q.move>>}
    /\ curations' = curations \ {<<q.base, q.move>>}
    /\ requests' = [requests EXCEPT ![w] = Idle]
    /\ UNCHANGED <<combos, setups, linkTables, tags, editors>>

\* Mutant: the search for an existing version is done before the transaction.
MayGenerateUnsearched(q) == q.draft \/ q.ka # NoAdvantage

\* FR301 and VAL-C15 for the version about to be generated.
MayGenerate(q) == /\ ~DupPublished(q.recipe, "punish")
                  /\ q.draft \/ q.ka # NoAdvantage

\* Otherwise the punish-counter version is made of the base as it was read;
\* its materialized_from needs the base row (foreign key).
MaterializeGenerate(w) ==
  LET q == requests[w] IN
    \E c \in ComboIds :
      /\ q.kind = "materialize"
      /\ MayGenerate(q)
      /\ NextCombo(c) /\ Stored(q.base)
      /\ combos' = [combos EXCEPT ![c] =
                      NewComboRow(q.draft, q.recipe, "punish", q.ka, q.base)]
      /\ tags' = Retagged(c, q.user, q.tagged)
      /\ punishes' = (punishes \cup {<<c, q.move>>}) \ {<<q.base, q.move>>}
      /\ curations' = curations \ {<<q.base, q.move>>}
      /\ requests' = [requests EXCEPT ![w] = Idle]
      /\ UNCHANGED <<setups, linkTables, editors>>

\* A request that ends early: SQLITE_BUSY, a cancelled context, a foreign key
\* or validation error, the process going down.
Abandon(w) ==
  /\ requests[w] # Idle
  /\ requests' = [requests EXCEPT ![w] = Idle]
  /\ UNCHANGED <<combos, setups, linkTables, tags, punishTables, editors>>

-------------------------------------------------------------------------------
TagChoices(u) == IF u \in Taggers THEN BOOLEAN ELSE {FALSE}

ComboEdit(u) ==
  \E draft, asked \in BOOLEAN, tagged \in TagChoices(u), ka \in AdvantagesOrNull,
     keep \in SUBSET SetupIds :
    \/ UpdateMetadata(u, draft, ka, tagged, asked, keep)
    \/ \E recipe \in Recipes, hit \in HitTypes :
         UpdateWithKeyChange(u, draft, recipe, hit, ka, tagged, asked, keep)

ComboCreate(u) ==
  \E draft \in BOOLEAN, tagged \in TagChoices(u), ka \in AdvantagesOrNull, recipe \in Recipes,
     hit \in HitTypes, embedded \in EmbeddedSetups :
    \E verified \in SUBSET DOMAIN embedded :
      Create(u, draft, recipe, hit, ka, tagged, embedded, verified)

ComboNext ==
  \/ \E u \in Users : ComboCreate(u) \/ ComboEdit(u) \/ RefetchForm(u) \/ CloseForm(u)
  \/ \E u \in Users, c \in ComboIds : OpenForm(u, c)
  \/ \E c \in ComboIds : Delete(c) \/ Restore(c) \/ PermanentDelete(c)

SetupNext ==
  \/ \E c \in ComboIds, s \in SetupIds, recipe \in SetupRecipes, verified \in BOOLEAN :
       CreateSetup(s, c, recipe, verified)
  \/ \E w \in Workers, c \in ComboIds, s \in SetupIds : LinkCheck(w, c, s)
  \/ \E w \in Workers : LinkInsert(w)
  \/ \E c \in ComboIds, s \in SetupIds :
       DeleteSetupLink(c, s) \/ UpsertResult(c, s) \/ DeleteResult(c, s)
  \/ \E u \in Users, s \in SetupIds : OpenSetupForm(u, s)
  \/ \E u \in Users, recipe \in SetupRecipes : UpdateSetup(u, recipe)
  \/ \E s \in SetupIds, c \in ComboIds \cup {0} : DeleteSetup(s, c)
  \/ \E s \in SetupIds : RestoreSetup(s) \/ PermanentDeleteSetup(s)

PunishNext ==
  \/ \E c \in ComboIds, m \in OppMoves :
       AddPunish(c, m) \/ RemovePunish(c, m) \/ RemoveCuration(c, m)
  \/ \E w \in Workers, c \in ComboIds, m \in OppMoves : CurateCheck(w, c, m)
  \/ \E w \in Workers, u \in Users, c \in ComboIds, m \in OppMoves :
       MaterializeRead(w, u, c, m)
  \/ \E w \in Workers :
       \/ AddCuration(w) \/ MaterializeExisting(w) \/ DrainBasePunish(w)
       \/ MaterializeGenerate(w) \/ Abandon(w)

Next == ComboNext \/ SetupNext \/ PunishNext

Spec == Init /\ [][Next]_vars

-------------------------------------------------------------------------------
(* Properties.                                                               *)

\* Every reference points to a stored row: the successor and the origin of a
\* combo, both ends of a setup link, the link of a verified result, the combo
\* of a tag, an adoption or a curation.  A successor is newer than the row it
\* replaced and an origin older than its copy, so neither chain can close.  The
\* trash list hides superseded rows, and a dangling successor would leave a row
\* that no screen reaches (docs/design/03-data-model.md, section 5).
ReferencesHold ==
  /\ \A c \in ComboIds :
       /\ combos[c].sup # 0 => combos[c].sup > c /\ Stored(combos[c].sup)
       /\ combos[c].mat # 0 => combos[c].mat < c /\ Stored(combos[c].mat)
  /\ \A p \in links : Stored(p[1]) /\ StoredSetup(p[2])
  /\ results \subseteq links
  /\ \A p \in tags \cup punishes \cup curations : Stored(p[1])

\* The optimistic lock is sound as long as it is not renewed under the form: a
\* form that no refetch has touched, and whose version is still the row's, shows
\* the row as it is, through any number of edits, deletions and restores by
\* others, so that the save it sends (Service.UpdateMetadata, the version in the
\* WHERE clause) overwrites nothing unseen.  NoLostUpdates is what it does not give.
LockSoundUntilRefetch ==
  \A u \in Users :
    LET f == forms[u] IN
      (f.id # 0 /\ Stored(f.id) /\ combos[f.id].ver = f.ver /\ f.shown = f.ver)
        => combos[f.id].draft = f.draft /\ combos[f.id].ka = f.ka

\* No sequence of saves, demotions, promotions and generations leaves a
\* published combo, live or in the trash, without a required field (VAL-C15).
PublishedIsComplete ==
  \A c \in ComboIds : Stored(c) /\ ~combos[c].draft => combos[c].ka # NoAdvantage

\* Two live published combos with one duplicate key.
Twins(c, d) == /\ c # d /\ Live(c) /\ Live(d)
               /\ ~combos[c].draft /\ ~combos[d].draft
               /\ combos[c].recipe = combos[d].recipe /\ combos[c].hit = combos[d].hit

\* VAL-C02: only taking a combo back out of the trash can make twins, however
\* creations, promotions, key changes and materialize requests interleave.
NoNewTwins ==
  [][\A c, d \in ComboIds :
       Twins(c, d)' => Twins(c, d) \/ InTrash(c) \/ InTrash(d)]_vars

\* Two live setups of one combo with the same recipe.
SetupTwins(c, s, t) == /\ s # t /\ <<c, s>> \in links /\ <<c, t>> \in links
                       /\ LiveSetup(s) /\ LiveSetup(t)
                       /\ setups[s].recipe = setups[t].recipe

\* VAL-S04: registering a setup and editing its recipe make no setup twins, not
\* even on a combo that is in the trash meanwhile; they come from a restored
\* setup, from linking an existing one, or with the combo they replace.
NoNewSetupTwins ==
  [][\A c \in ComboIds, s, t \in SetupIds :
       SetupTwins(c, s, t)' =>
         \/ SetupTwins(c, s, t)
         \/ SetupInTrash(s) \/ SetupInTrash(t)
         \/ \E w \in Workers : LinkInsert(w)
         \/ \E old \in ComboIds : combos'[old].sup = c /\ SetupTwins(old, s, t)]_vars

\* A setup restored from the trash is back at every combo it hung off: while it
\* is in the trash its links go only by an explicit unlink, with a destroyed
\* combo, or to the combo that replaces theirs.
HiddenLinksSurvive ==
  [][\A c \in ComboIds, s \in SetupIds :
       (<<c, s>> \in links /\ SetupInTrash(s) /\ SetupInTrash(s)') =>
         \/ <<c, s>> \in links'
         \/ DeleteSetupLink(c, s)
         \/ combos'[c].st = "gone"
         \/ <<combos'[c].sup, s>> \in links' \ links]_vars

\* A key change leaves nothing behind: the replaced row keeps no link, result
\* or adoption, and each verified result or adoption of it that was not dropped
\* with its link is found on the new row.
KeyChangeCarries ==
  [][\A c \in ComboIds :
       combos'[c].sup \notin {0, combos[c].sup} =>
         LET new == combos'[c].sup IN
           /\ Of(c, links') = {} /\ Of(c, results') = {}
           /\ Of(c, punishes') = {} /\ Of(c, curations') = {}
           /\ \A s \in SetupIds :
                <<c, s>> \in results /\ <<new, s>> \in links' => <<new, s>> \in results'
           /\ \A m \in OppMoves : <<c, m>> \in punishes => <<new, m>> \in punishes'
           /\ \A m \in OppMoves : <<c, m>> \in curations => <<new, m>> \in curations']_vars

\* The combos and the setups each implement the life cycle the trash promises.
ComboLifecycle ==
  INSTANCE RowLifecycle WITH Ids <- ComboIds,
    st <- [c \in ComboIds |-> combos[c].st], heir <- [c \in ComboIds |-> combos[c].sup]
SetupLifecycle ==
  INSTANCE RowLifecycle WITH Ids <- SetupIds,
    st <- [s \in SetupIds |-> setups[s].st], heir <- [s \in SetupIds |-> 0]

\* Throwing away, restoring, replacing and destroying combos is what
\* RowLifecycle allows, and nothing else happens to a row's state.
CombosAreRecoverable == ComboLifecycle!Spec
\* The same for setups, which nothing replaces.
SetupsAreRecoverable == SetupLifecycle!Spec

\* docs/design/02-architecture.md:1082: of two that edit one combo at once the one
\* who saves last is rejected, so that nobody overwrites by mistake what another
\* has changed.  An accepted PATCH should change no field that its user left as
\* the form shows it.
NoLostUpdates ==
  [][\A u \in Users :
       LET f == forms[u] IN
         (f.id # 0 /\ forms'[u] = NoForm /\ combos'[f.id].ver > combos[f.id].ver) =>
           /\ combos'[f.id].ka = f.ka => combos[f.id].ka = f.ka
           /\ combos'[f.id].draft = f.draft => combos[f.id].draft = f.draft]_vars

\* docs/design/03-data-model.md: saving a combo does not touch the tags of
\* other users.  After a save by key change the other users' tags should be on
\* the combo that replaced theirs.
OtherUsersTagsSurviveSave ==
  [][\A c \in ComboIds, u \in Users :
       (<<c, u>> \in tags /\ combos'[c].sup # combos[c].sup /\ combos'[c].sup # 0
          /\ forms'[u] = forms[u])
         => <<combos'[c].sup, u>> \in tags']_vars

===============================================================================
