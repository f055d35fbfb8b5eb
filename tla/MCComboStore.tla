---------------------------- MODULE MCComboStore ----------------------------
(* TLC instances of ComboStore: each .cfg opens the tables its question      *)
(* needs and closes the others by empty sets or zero bounds.                 *)
EXTENDS ComboStore, TLC

\* Sound where no user is told from another: Taggers must be empty.
UserSymmetry == Permutations(Users)
WorkerSymmetry == Permutations(Workers)

\* Bound for questions about edits: one duplicate key.  Combos with different
\* keys do not meet in VAL-C02, and MayGenerate searches among punish counters
\* only (run punishes has both hit types).
OneKey == \A c \in ComboIds : Stored(c) => combos[c].hit = "normal"

\* Bound for questions about setups: what hangs off a combo depends neither on
\* its draft flag nor on its hit type.
NormalDrafts ==
  \A c \in ComboIds : Stored(c) => combos[c].draft /\ combos[c].hit = "normal"

\* With forms for combos and for setups, requests that link both and two setup
\* recipes, one of these is under way at a time: requests and forms hold copies,
\* so that their kinds meet in the tables only, and a second recipe matters for
\* VAL-S04 alone, which looks at one combo.  A result is carried by a key change or
\* left behind with a link that is dropped: one shows either; a request inserts a
\* link without one.
OneStory ==
  /\ NormalDrafts /\ Cardinality(results) =< 1
  /\ results # {} => \A w \in Workers : requests[w] = Idle
  /\ \A u \in Users : setupForms[u].id # 0 =>
       forms[u].id = 0 /\ \A w \in Workers : requests[w] = Idle
  /\ Cardinality({setups[s].recipe : s \in {s \in SetupIds : StoredSetup(s)}}) > 1 =>
       /\ results = {} /\ \A u \in Users : forms[u].id = 0
       /\ \A c \in ComboIds \ {1} : ~Stored(c)

RecipeSymmetry == Permutations(SetupRecipes)

\* Bound for questions about materialize: one adoption and one curation at a
\* time are enough to be moved, drained or orphaned; a draft base makes drafts,
\* which are nobody's twins; a form of a combo that is gone saves nothing.
OneAdoption ==
  /\ Cardinality(punishes) =< 1 /\ Cardinality(curations) =< 1
  /\ \A c \in ComboIds : ~combos[c].draft
  /\ \A u \in Users : forms[u].id # 0 => Live(forms[u].id)
=============================================================================
