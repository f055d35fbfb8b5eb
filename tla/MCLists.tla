------------------------------- MODULE MCLists -------------------------------
(* TLC instances of Lists: two characters, two rows of each table of the      *)
(* trash, five proposals, two files of combos and two of setups, one with a   *)
(* row that both a row of the file and a number answer to.                    *)
EXTENDS Lists, TLC

AllOfRyu == <<"ryu", "ryu">>
Hits     == [d |-> "drive_impact", j |-> "just_parry"]

Proposed(steps, target, type, mode, n, rest) ==
  [steps |-> steps, target |-> target, type |-> type, mode |-> mode, n |-> n, rest |-> rest]
Proposable ==
  {Proposed(<<"f", "a">>, 1, "normal", "meaty", 1, 1), Proposed(<<"b">>, 2, "normal", "meaty", 2, 2),
   Proposed(<<"f", "t">>, 3, "normal", "meaty", 1, 3), Proposed(<<"c">>, 3, "normal", "meaty", 1, 4),
   Proposed(<<"t">>, 3, "throw", "gap", 2, 5)}
ProposableElsewhere == {Proposed(<<"b">>, 2, "normal", "meaty", 2, 2)}

RyuFirst == <<"ryu", "ken">>
Starters == [ryu |-> "hadoken", ken |-> "shoryuken"]

Pasted     == [t1 |-> <<<<"w", "x">>>>, t2 |-> <<<<"x">>, <<"w">>>>]
Known      == [k \in {"ryu", "ken"} \X {"w", "x"} |-> IF k[2] = "x" THEN "" ELSE "p"]
Row(local, recipe, draft) == [local |-> local, recipe |-> recipe, draft |-> draft, valid |-> TRUE]
ComboFiles == {<<Row(1, <<"ryu", "p">>, FALSE), Row(2, <<"ryu", "p">>, FALSE)>>,
               <<Row(1, <<"ken", "p">>, TRUE), Row(2, <<"ken", "p", "p">>, FALSE)>>}
SetupRows  == {{[parent |-> 2, number |-> 0, recipe |-> "s"], [parent |-> 0, number |-> 1, recipe |-> "t"]},
               {[parent |-> 2, number |-> 1, recipe |-> "s"]}}
Nothing    == << >>

ActsOfLists == [trash |-> 3, punish |-> 3, suggestions |-> 4, lists |-> 7, import |-> 7]
OthersOfLists == [trash |-> 1, suggestions |-> 1, lists |-> 2, import |-> 1]
=============================================================================
