---------------------------- MODULE MCRecipeCache ----------------------------
(* TLC instance of RecipeCache: requests that write, and requests that read   *)
(* the recipe of one of two combos.                                           *)
EXTENDS RecipeCache, TLC

\* Bound for the rows nobody reads: each depends on the presets only, so that one
\* of them at a time, a combo or a setup, is enough beside the combo that is read.
OneUnread == Cardinality({r \in Rows \ Shown : rows[r].st # "none"}) =< 1

ItemSymmetry == Permutations(Recipes) \cup Permutations(Workers)
===============================================================================
