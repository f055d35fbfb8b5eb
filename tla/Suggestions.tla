----------------------------- MODULE Suggestions -----------------------------
(***************************************************************************)
(* The setups that a combo's page proposes: a search by conditions, its    *)
(* answers by key, the rows with what was rejected, and the form of a row  *)
(* that adopts the proposal; other tabs adopt and delete setups meanwhile. *)
(*                                                                         *)
(* Every search is a query of its own: its answer stays in the cache, is   *)
(* shown at once when the same conditions come back, and is read again.    *)
(***************************************************************************)
EXTENDS Page, Integers

CONSTANTS
  Proposals, \* what the engine finds: steps, target (its order), type, mode, n, rest
  Types,     \* the kinds of targets
  Chosen,    \* the kinds that are chosen at first, and the server's when none is sent
  Typed,     \* what is typed as a number; 0 stands for no number as well
  Shared,    \* proposals that other tabs adopt as well
  Cells,     \* situations that can be confirmed
  First,     \* the number of results at first, which is the increment too
  Most,      \* and at most
  MaxActs,   \* bound: doings of the user
  MaxOthers  \* bound: setups adopted and deleted by other tabs

On == ui.page = "suggestions"

GapMin == 1
GapMax == 13

Acting  == On /\ ui.acts < MaxActs /\ ui.knockdown # "none"
Does(u) == Sets([u EXCEPT !.acts = @ + 1])

-----------------------------------------------------------------------------
(* The engine, the ranking and the cut, as the answer shows them.          *)

InBand(p, a) ==
  IF a.mode = "gap" THEN p.n - 1 \in a.gMin..a.gMax
  ELSE p.n >= a.nMin /\ (a.nMax > 0 => p.n <= a.nMax)

\* No kind at all is an empty parameter, which is the default one.
SentTypes(a) == IF a.types = {} THEN Chosen ELSE a.types

IsTarget(p, a) == IF a.target # None THEN p.target = The(a.target) ELSE p.type \in SentTypes(a)

Found(a) == {p \in Proposals : p.mode = a.mode /\ InBand(p, a) /\ IsTarget(p, a)}

\* By the frame: the deepest first, or the smallest gap first.
ByFrame(a, p, q) == IF a.mode = "gap" THEN p.n < q.n ELSE p.n > q.n

\* The rest is the number of steps, their length, the name, and what was found first.
Precedes(a, p, q) ==
  \/ a.sort = "target" /\ p.target < q.target
  \/ (a.sort = "target" => p.target = q.target) /\ ByFrame(a, p, q)
  \/ p.n = q.n /\ p.target < q.target
  \/ p.n = q.n /\ p.target = q.target /\ p.rest < q.rest

Answer(a) ==
  IF ui.knockdown = "negative" THEN [items |-> {}, adopted |-> {}, total |-> 0]
  ELSE [items   |-> {p \in Found(a) : Cardinality({q \in Found(a) : Precedes(a, q, p)}) < a.limit},
        adopted |-> srv.adopted,
        total   |-> Cardinality(Found(a))]

-----------------------------------------------------------------------------
(* The query.                                                              *)

QueryKey(a) == a

Cached(u) == IF u.applied = None THEN {}
             ELSE {e \in u.cache : e.key = QueryKey(The(u.applied))}
Data(u)   == (CHOOSE e \in Cached(u) : TRUE).data
Items(u)  == IF Cached(u) = {} THEN {} ELSE Data(u).items

SuggestionKey(p) == <<p.steps, p.n>>

Visible(u) == {p \in Items(u) : SuggestionKey(p) \notin u.dismissed}

\* Mutant: the rows have their place as their key.
RowByPlace(u, p) == Cardinality({q \in Visible(u) : Precedes(The(u.applied), q, p)})

RowKey(u, p) == SuggestionKey(p)

\* A row that is no longer shown takes its form along; a request of it goes on.
Shows(u) ==
  LET keys == {RowKey(u, p) : p \in Visible(u)}
  IN  [u EXCEPT !.forms   = {f \in @ : f.row \in keys},
                !.creates = {[c EXCEPT !.mounted = @ /\ c.row \in keys] : c \in @}]

Fetches(u) ==
  LET key == QueryKey(The(u.applied))
  IN  [u EXCEPT !.fetches = {f \in @ : f.key # key} \union {[key |-> key, by |-> The(u.applied), read |-> None]}]

FetchRead(f) ==
  On /\ f.read = None /\ Sets([ui EXCEPT !.fetches = (@ \ {f}) \union {[f EXCEPT !.read = Some(Answer(f.by))]}])

FetchAnswered(f) ==
  /\ On /\ f.read # None
  /\ Sets(Shows([ui EXCEPT !.fetches = @ \ {f},
                           !.cache   = {e \in @ : e.key # f.key} \union {[key |-> f.key, data |-> The(f.read)]}]))

-----------------------------------------------------------------------------
(* The conditions.                                                         *)

AtLeast(low, typed) == IF typed < low THEN low ELSE typed
InGap(typed, blank) ==
  LET n == IF typed = 0 THEN blank ELSE typed IN IF n < GapMin THEN GapMin ELSE IF n > GapMax THEN GapMax ELSE n

Sifts(field, value) == Acting /\ ui.filter[field] # value /\ Does([ui EXCEPT !.filter[field] = value])

ToggleType(type) ==
  /\ On /\ ui.filter.target = None
  /\ Sifts("types", IF type \in ui.filter.types THEN ui.filter.types \ {type} ELSE ui.filter.types \union {type})

SetMode(mode) == Sifts("mode", mode)
SetSort(sort) == Sifts("sort", sort)
SetTarget(target) == Sifts("target", target)

SetNumber(typed) ==
  \/ On /\ ui.filter.mode = "meaty" /\ (Sifts("nMin", AtLeast(1, typed)) \/ Sifts("nMax", AtLeast(0, typed)))
  \/ On /\ ui.filter.mode = "gap" /\ (Sifts("gMin", InGap(typed, GapMin)) \/ Sifts("gMax", InGap(typed, GapMax)))

\* The conditions apply from here on; what was rejected comes back.
RunSearch ==
  Acting /\ Does(Shows(Fetches([ui EXCEPT !.dismissed = {}, !.applied = Some(ui.filter)])))

CanShowMore ==
  /\ Visible(ui) # {}
  /\ Cardinality(Items(ui)) < Data(ui).total
  /\ The(ui.applied).limit < Most

ShowMore ==
  /\ Acting /\ CanShowMore
  /\ LET a == The(ui.applied)
     IN  Does(Shows(Fetches([ui EXCEPT !.applied =
           Some([a EXCEPT !.limit = IF @ + First < Most THEN @ + First ELSE Most])])))

-----------------------------------------------------------------------------
(* A row.                                                                  *)

Form(p)     == CHOOSE f \in ui.forms : f.row = RowKey(ui, p)
Editing(p)  == \E f \in ui.forms : f.row = RowKey(ui, p)
Offered(p)  == p.steps \notin Data(ui).adopted
Pending(p)  == \E c \in ui.creates : c.mounted /\ c.row = RowKey(ui, p)
OpenForm(p) == Acting /\ Editing(p) /\ Offered(p)

SetForm(p, form) == Does([ui EXCEPT !.forms = (@ \ {Form(p)}) \union {form}])

Reject(p) ==
  Acting /\ ~Editing(p) /\ Does(Shows([ui EXCEPT !.dismissed = @ \union {SuggestionKey(p)}]))

\* The name is made of the last move; without one the field is empty.
GeneratedName(p) == p.steps # << >>

\* `for` and `ticks` are the user's: what the form was opened for, and what was ticked in it.
StartAdopt(p) ==
  /\ Acting /\ ~Editing(p) /\ Offered(p)
  /\ Does([ui EXCEPT !.forms = @ \union {[row |-> RowKey(ui, p), named |-> GeneratedName(p),
                                         confirmed |-> {}, duplicate |-> FALSE,
                                         for |-> p, ticks |-> {}]}])

EditName(p) == OpenForm(p) /\ SetForm(p, [Form(p) EXCEPT !.named = ~@])

ToggleConfirmed(p, cell) ==
  LET toggled(set) == IF cell \in set THEN set \ {cell} ELSE set \union {cell}
  IN  OpenForm(p) /\ SetForm(p, [Form(p) EXCEPT !.confirmed = toggled(@), !.ticks = toggled(@)])

CancelAdopt(p) == OpenForm(p) /\ Does([ui EXCEPT !.forms = @ \ {Form(p)}])

ConfirmAdopt(p) ==
  /\ OpenForm(p) /\ Form(p).named /\ ~Pending(p)
  /\ Does([ui EXCEPT !.creates = @ \union {[row |-> RowKey(ui, p), steps |-> p.steps,
                                           confirmed |-> Form(p).confirmed, mounted |-> TRUE, done |-> "no",
                                           for |-> Form(p).for, ticks |-> Form(p).ticks]}])

-----------------------------------------------------------------------------
(* The answers.                                                            *)

\* The server refuses a recipe that the combo has; in the trash it is another thing.
Adopt(c) ==
  /\ On /\ c.done = "no"
  /\ ui' = [ui EXCEPT !.creates = (@ \ {c}) \union
              {[c EXCEPT !.done = IF c.steps \in srv.adopted THEN "duplicate" ELSE "made"]}]
  /\ srv' = [srv EXCEPT !.adopted = @ \union {c.steps},
                        !.mine    = IF c.steps \in srv.adopted THEN @ ELSE @ \union {c.steps}]

Refetches(u, c) == IF u.applied # None THEN Fetches(u) ELSE u

Settled(c) == [ui EXCEPT !.creates = @ \ {c}]
Closed(u, c) == [u EXCEPT !.forms = {f \in @ : ~(c.mounted /\ f.row = c.row)}]

Adopted(c) == On /\ c.done = "made" /\ Sets(Refetches(Closed(Settled(c), c), c))

Refused(c) ==
  /\ On /\ c.done = "duplicate"
  /\ Sets([Settled(c) EXCEPT !.forms = {[f EXCEPT !.duplicate = @ \/ (c.mounted /\ f.row = c.row)] : f \in @}])

Fails(c) == On /\ c.done = "no" /\ Sets(Settled(c))

\* Another tab adopts a proposal, or puts a setup into the trash.
OtherTab(p) ==
  /\ On /\ srv.others < MaxOthers
  /\ Serves([srv EXCEPT !.others = @ + 1,
                        !.mine = @ \ {p.steps},
                        !.adopted = IF p.steps \in @ THEN @ \ {p.steps} ELSE @ \union {p.steps}])

-----------------------------------------------------------------------------
Init ==
  \E knockdown \in {"none", "negative", "plus"} :
    /\ ui = [page |-> "suggestions", knockdown |-> knockdown, applied |-> None, dismissed |-> {},
             filter |-> [nMin |-> 1, nMax |-> 0, sort |-> "n", types |-> Chosen, target |-> None,
                         mode |-> "meaty", gMin |-> GapMin, gMax |-> GapMax,
                        limit |-> First],
             cache |-> {}, fetches |-> {}, forms |-> {}, creates |-> {}, acts |-> 0]
    /\ srv = [adopted |-> {}, mine |-> {}, others |-> 0]

Rows     == IF On THEN Visible(ui) ELSE {}
Reading  == IF On THEN ui.fetches ELSE {}
Adopting == IF On THEN ui.creates ELSE {}

Next ==
  \/ \E type \in Types : ToggleType(type)
  \/ \E mode \in {"meaty", "gap"} : SetMode(mode)
  \/ \E sort \in {"n", "target"} : SetSort(sort)
  \/ \E target \in {None} \union {Some(p.target) : p \in Proposals} : SetTarget(target)
  \/ \E typed \in Typed : SetNumber(typed)
  \/ RunSearch \/ ShowMore
  \/ \E p \in Rows : Reject(p) \/ StartAdopt(p) \/ EditName(p) \/ CancelAdopt(p) \/ ConfirmAdopt(p)
  \/ \E p \in Rows, cell \in Cells : ToggleConfirmed(p, cell)
  \/ \E f \in Reading : FetchRead(f) \/ FetchAnswered(f)
  \/ \E c \in Adopting : Adopt(c) \/ Adopted(c) \/ Refused(c) \/ Fails(c)
  \/ \E p \in Shared : OtherTab(p)

-----------------------------------------------------------------------------
\* What is adopted is the proposal whose form was opened, with what was
\* ticked in that form, however the rows above it came and went
\* (SetplaySuggestionSection.tsx: the key of a row, startAdopt, confirmAdopt).
AdoptsWhatWasOpened ==
  On => \A c \in ui.creates : c.steps = c.for.steps /\ c.confirmed = c.ticks

\* What is shown are the first proposals that the conditions of the last search
\* find, also when answers of earlier ones arrive after it or are still in the cache
\* (useSetplaySuggestions.ts: every condition is part of the key).
ShownAsAsked ==
  On /\ ui.applied # None =>
    LET a == The(ui.applied)
    IN  /\ Items(ui) \subseteq Found(a) /\ Cardinality(Items(ui)) <= a.limit
        /\ \A p \in Items(ui), q \in Found(a) : Precedes(a, q, p) => q \in Items(ui)

\* When every answer is in, a setup made here is not offered again, even if
\* its row was gone when the answer came (SetplaySuggestionSection.tsx: onSuccess
\* of the row's mutation asks for the proposals again).
AdoptedIsShown ==
  On /\ ui.fetches = {} /\ ui.creates = {} =>
    \A p \in Visible(ui) : p.steps \in srv.mine => ~Offered(p)

\* A proposal is shown where it was asked for, adopted as it was opened, and then gone.
AdoptionIsFaithful == ShownAsAsked /\ AdoptsWhatWasOpened /\ AdoptedIsShown
=============================================================================
