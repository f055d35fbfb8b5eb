------------------------------- MODULE DataHome -------------------------------
(***************************************************************************)
(* What the start of the program promises to a user who knows nothing of   *)
(* directories: there is one store of facts, which only saving changes,    *)
(* and whenever the program is open it shows that store.  The steps of the *)
(* move of the data directory, its crashes and its I/O errors included,    *)
(* change nothing here.                                                    *)
(***************************************************************************)
CONSTANT Facts     \* what a user saves

VARIABLES
  stored,  \* facts in the store
  shown    \* what is shown: nothing, or one set of facts while the program is open

homeVars == <<stored, shown>>

Init == stored \in SUBSET Facts /\ shown = {}

IsOpen == shown # {}

Open == ~IsOpen /\ shown' = {stored} /\ UNCHANGED stored

\* Stopped, or killed.
Close == IsOpen /\ shown' = {} /\ UNCHANGED stored

Save(f) ==
  /\ IsOpen /\ f \notin stored
  /\ stored' = stored \cup {f} /\ shown' = {stored'}

Next == Open \/ Close \/ \E f \in Facts : Save(f)

Spec == Init /\ [][Next]_homeVars
===============================================================================
