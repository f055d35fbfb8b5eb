------------------------------- MODULE Punish -------------------------------
(***************************************************************************)
(* Punishes: the search page, where combos are adopted against moves of    *)
(* the opponent, and the list page with its hidden items.  Both show what  *)
(* their query read last; every write refetches the query on the screen.   *)
(*                                                                         *)
(* The functions passed to mutate are called for the last request of its   *)
(* hook only, and not once the component is gone.                          *)
(***************************************************************************)
EXTENDS Page

CONSTANTS
  Bases,    \* combos that a punish-counter version can be made of
  Finished, \* combos that are punish-counters already
  HitOf,    \* their hit type
  Moves,    \* moves of the opponent
  MaxActs   \* bound: doings of the user

On == ui.page = "punish"

\* A version has the recipe of its base; it is made by materialize or was registered by hand.
Combos == (Bases \X {"base", "version"}) \union (Finished \X {"finished"})

Guards == {"block", "just_parry"}

\* PUNISH_COUNTER_HIT_TYPES of the page: one more than the server has tabs for.
PunishCounters == Guards \union {"drive_impact"}

Hit(c) == CASE c[2] = "base" -> "normal" [] c[2] = "version" -> "block" [] OTHER -> HitOf[c[1]]

Acting    == On /\ ui.acts < MaxActs
Does(u)   == [u EXCEPT !.acts = @ + 1]
OnSearch  == Acting /\ ui.screen = "search" /\ ui.data # None
OnList    == Acting /\ ui.screen = "list" /\ ui.data # None
Data      == The(ui.data)

-----------------------------------------------------------------------------
(* Requests.                                                               *)

Pending(op) == \E q \in ui.requests : q.op = op

\* A new request of a hook takes the callbacks from the earlier ones.
Mutate(u, op, c, m) ==
  [u EXCEPT !.requests = {[q EXCEPT !.tells = @ /\ q.op # op] : q \in @}
                         \union {[op |-> op, combo |-> c, move |-> m, tells |-> TRUE, left |-> FALSE, n |-> u.acts]}]

\* Invalidation reaches both queries; the one on the screen is read again, from the start.
InvalidatePunish(u) == [u EXCEPT !.fetch = "sent", !.read = None]

\* Mutant: a write invalidates the query of the search page only.
InvalidateSearch(u) == IF u.screen = "search" THEN InvalidatePunish(u) ELSE u

Invalidated(u) == InvalidatePunish(u)

Rows == [adopted |-> srv.adopted, curated |-> srv.curated, pruned |-> srv.pruned, made |-> srv.made]

FetchRead == On /\ ui.fetch = "sent" /\ Sets([ui EXCEPT !.fetch = "read", !.read = Some(Rows)])

FetchAnswered == On /\ ui.fetch = "read" /\ Sets([ui EXCEPT !.fetch = "idle", !.read = None, !.data = ui.read])

\* Another screen reads its own query; what was mounted hears no answer any more.
Opens(u, screen) ==
  [u EXCEPT !.screen = screen, !.data = None, !.fetch = "sent", !.read = None, !.hidden = {},
            !.requests = {[q EXCEPT !.tells = FALSE, !.left = TRUE] : q \in @}]

GoTo(screen) == Acting /\ screen # ui.screen /\ Sets(Does(Opens(ui, screen)))

-----------------------------------------------------------------------------
(* The search page.                                                        *)

\* Moves that were hidden are no candidates; every combo of the starter is below the others.
ShownInTree(c, m) == m \notin Data.pruned /\ c \in srv.combos /\ c \notin ui.hidden

ToggleAdopted(c, m) ==
  /\ OnSearch /\ ShownInTree(c, m)
  /\ Sets(Does(Mutate(ui, IF <<c, m>> \in Data.adopted THEN "remove" ELSE "add", c, m)))

Prune(m) == OnSearch /\ m \notin Data.pruned /\ Sets(Does(Mutate(ui, "prune", None, m)))

HideCombo(c) == OnSearch /\ c \in srv.combos \ ui.hidden /\ Sets(Does([ui EXCEPT !.hidden = @ \union {c}]))

RestoreAll == OnSearch /\ ui.hidden # {} /\ Sets(Does([ui EXCEPT !.hidden = {}]))

-----------------------------------------------------------------------------
(* The list.                                                               *)

\* The server's part: by the tab, and what belongs to no tab.
InTab(guard)  == {p \in Data.adopted \ Data.curated : Hit(p[1]) = guard}
Unclassified  == {p \in Data.adopted \ Data.curated : Hit(p[1]) \notin Guards}

HasVersion(c) == c[2] = "base" /\ c[1] \in Data.made

SplitUnclassified ==
  [convertible  |-> {p \in Unclassified : Hit(p[1]) \notin PunishCounters /\ ~HasVersion(p[1])},
   reusable     |-> {p \in Unclassified : Hit(p[1]) \in PunishCounters},
   materialized |-> {p \in Unclassified : Hit(p[1]) \notin PunishCounters /\ HasVersion(p[1])}]

Sections == DOMAIN SplitUnclassified

Listed == (UNION {InTab(g) : g \in Guards}) \union UNION {SplitUnclassified[s] : s \in Sections}

RemoveAdoption(c, m) == OnList /\ <<c, m>> \in Listed /\ Sets(Does(Mutate(ui, "remove", c, m)))

MayAsk(op) == ~Pending(op)

Convertible(c, m) ==
  \/ OnSearch /\ ShownInTree(c, m) /\ Hit(c) \notin PunishCounters /\ ~HasVersion(c)
  \/ OnList /\ <<c, m>> \in SplitUnclassified.convertible

DoMaterialize(c, m) == Convertible(c, m) /\ MayAsk("materialize") /\ Sets(Does(Mutate(ui, "materialize", c, m)))

Curate(c, m) ==
  /\ OnList /\ <<c, m>> \in SplitUnclassified.convertible /\ MayAsk("curate")
  /\ Sets(Does(Mutate(ui, "curate", c, m)))

\* The panel of the hidden items.
Unprune(m)     == OnList /\ m \in Data.pruned /\ Sets(Does(Mutate(ui, "unprune", None, m)))
Uncurate(c, m) == OnList /\ <<c, m>> \in Data.curated /\ Sets(Does(Mutate(ui, "uncurate", c, m)))

-----------------------------------------------------------------------------
(* The answers.  The writes of the server are idempotent.                  *)

Version(c) == <<c[1], "version">>

\* A version that exists is returned, and the base's adoption is drained; else one is made, and adopted.
AfterMaterialize(c, m) ==
  [srv EXCEPT !.adopted = (@ \ {<<c, m>>}) \union (IF Version(c) \in srv.combos THEN {} ELSE {<<Version(c), m>>}),
              !.curated = @ \ {<<c, m>>},
              !.made    = IF Version(c) \in srv.combos THEN @ ELSE @ \union {c[1]},
              !.combos  = @ \union {Version(c)}]

After(q) ==
  LET p == <<q.combo, q.move>>
  IN  CASE q.op = "add"      -> [srv EXCEPT !.adopted = @ \union {p}]
        [] q.op = "remove"   -> [srv EXCEPT !.adopted = @ \ {p}, !.curated = @ \ {p}]
        [] q.op = "curate"   -> [srv EXCEPT !.curated = @ \union {p}]
        [] q.op = "uncurate" -> [srv EXCEPT !.curated = @ \ {p}]
        [] q.op = "prune"    -> [srv EXCEPT !.pruned = @ \union {q.move}]
        [] q.op = "unprune"  -> [srv EXCEPT !.pruned = @ \ {q.move}]
        [] OTHER             -> AfterMaterialize(q.combo, q.move)

Succeeds(q) ==
  On /\ q \in ui.requests
     /\ ui' = Invalidated([ui EXCEPT !.requests = @ \ {q}]) /\ srv' = After(q)

Fails(q) == On /\ q \in ui.requests /\ Sets([ui EXCEPT !.requests = @ \ {q}])

\* The toast says that this punish is registered already, and opens the version.
SaysRegistered(q) == Succeeds(q) /\ q.op = "materialize" /\ q.tells /\ Version(q.combo) \in srv.combos

-----------------------------------------------------------------------------
Init ==
  \E byHand \in SUBSET Bases, screen \in {"search", "list"} :
    LET combos == (Bases \X {"base"}) \union (Finished \X {"finished"}) \union (byHand \X {"version"})
    IN  \E adopted \in {(combos \ (Bases \X {"version"})) \X Moves, {}} :
          /\ srv = [combos |-> combos, adopted |-> adopted, curated |-> {}, pruned |-> {}, made |-> {}]
          /\ ui = [page |-> "punish", screen |-> screen, data |-> None, fetch |-> "sent", read |-> None,
                   requests |-> {}, hidden |-> {}, acts |-> 0]

Asked == IF On THEN ui.requests ELSE {}

Next ==
  \/ FetchRead \/ FetchAnswered \/ RestoreAll
  \/ \E screen \in {"search", "list"} : GoTo(screen)
  \/ \E c \in Combos : HideCombo(c)
  \/ \E m \in Moves : Prune(m) \/ Unprune(m)
  \/ \E c \in Combos, m \in Moves :
       ToggleAdopted(c, m) \/ RemoveAdoption(c, m) \/ DoMaterialize(c, m) \/ Curate(c, m) \/ Uncurate(c, m)
  \/ \E q \in Asked : Succeeds(q) \/ Fails(q)

Spec == Init /\ [][Next]_vars

-----------------------------------------------------------------------------
(* Properties.                                                             *)

\* Every adoption is shown in exactly one place where it can be taken back: a tab, or one of the
\* parts of what belongs to no tab (the comments at splitUnclassified: "counted, not thrown away").
EachAdoptionInOnePlace ==
  On /\ ui.screen = "list" /\ ui.data # None =>
    \A p \in Data.adopted \ Data.curated :
      Cardinality({g \in Guards : p \in InTab(g)}) + Cardinality({s \in Sections : p \in SplitUnclassified[s]}) = 1

\* Once every request has been answered and the query read, the screen shows what is stored.
ShownIsStored == On /\ ui.requests = {} /\ ui.fetch = "idle" => ui.data = Some(Rows)

\* The outcome of making a version or of hiding a punish is told, unless its page has been left.
OutcomeIsTold == On => \A q \in ui.requests : q.op \in {"materialize", "curate"} => q.tells \/ q.left

\* The list is the stored one, complete, and says what became of a request.
PunishListIsTrue == EachAdoptionInOnePlace /\ ShownIsStored /\ OutcomeIsTold

\* When the page says that this punish is registered already (PunishList 131), the version it opens
\* is adopted against this move.
ToldRegisteredIsRegistered ==
  [][On => \A q \in ui.requests : SaysRegistered(q) => <<Version(q.combo), q.move>> \in srv'.adopted]_vars
=============================================================================
