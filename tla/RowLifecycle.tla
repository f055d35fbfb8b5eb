---------------------------- MODULE RowLifecycle ----------------------------
(***************************************************************************)
(* What the trash promises for the rows of one table, whoever edits them   *)
(* and in whatever order: ids are allocated upwards and never reused; a    *)
(* live row is never destroyed, it is only thrown away; what is in the     *)
(* trash comes back or is destroyed on request; and a row thrown away      *)
(* because a new one replaced it names that heir, which is the newest row  *)
(* of the table at that moment and is never a destroyed one.               *)
(***************************************************************************)
EXTENDS Integers

CONSTANT Ids          \* the ids the table may allocate
VARIABLES st, heir    \* state of each row; the row that replaced it, or 0

TypeOK == /\ st \in [Ids -> {"none", "live", "trash", "gone"}]
          /\ heir \in [Ids -> Ids \cup {0}]

Init == /\ st = [i \in Ids |-> "none"]
        /\ heir = [i \in Ids |-> 0]

\* New rows take the lowest ids never used.
Fresh(new) == /\ \A i \in new : st[i] = "none"
              /\ \A i \in new, j \in Ids \ new : j < i => st[j] # "none"

Add(new) ==
  /\ Fresh(new)
  /\ st' = [i \in Ids |-> IF i \in new THEN "live" ELSE st[i]]
  /\ UNCHANGED heir

Replace(old, new) ==
  /\ Fresh({new}) /\ st[old] = "live"
  /\ st' = [st EXCEPT ![old] = "trash", ![new] = "live"]
  /\ heir' = [heir EXCEPT ![old] = new]

Throw(i) == st[i] = "live" /\ st' = [st EXCEPT ![i] = "trash"] /\ UNCHANGED heir
Restore(i) == st[i] = "trash" /\ st' = [st EXCEPT ![i] = "live"] /\ UNCHANGED heir

Destroy(i) ==
  /\ st[i] = "trash"
  /\ st' = [st EXCEPT ![i] = "gone"]
  /\ heir' = [j \in Ids |-> IF j = i \/ heir[j] = i THEN 0 ELSE heir[j]]

Next == \/ \E new \in SUBSET Ids : Add(new)
        \/ \E old, new \in Ids : Replace(old, new)
        \/ \E i \in Ids : Throw(i) \/ Restore(i) \/ Destroy(i)

Spec == Init /\ [][Next]_<<st, heir>>
=============================================================================
