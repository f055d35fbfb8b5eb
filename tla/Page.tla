-------------------------------- MODULE Page --------------------------------
(***************************************************************************)
(* What the modules of the screens share.  `ui` is what one browser tab    *)
(* holds: React state, refs, requests under way; it is gone with the page. *)
(* `srv` is what survives the page: rows of the server, the history of the *)
(* tab, local storage, other users' doings, and the accounts of the        *)
(* properties.  ui.page names the screen, and a screen's actions need it.  *)
(***************************************************************************)
EXTENDS Naturals, Sequences, FiniteSets

VARIABLES ui, srv

vars == <<ui, srv>>

None    == << >>
Some(x) == <<x>>
The(o)  == o[1]

\* A handler that only sets state; an answer or an outside event that only changes the server.
Sets(next)   == ui' = next /\ UNCHANGED srv
Serves(next) == srv' = next /\ UNCHANGED ui

\* The screen that is shown stays.
Stays == ui'.page = ui.page
=============================================================================
