------------------------------ MODULE MCScreens ------------------------------
(* TLC instance of Forms and of Lists (MCLists has the values of the latter): *)
(* a behaviour is one tab that shows one screen of either.  Two catalogues of *)
(* moves, a combo and a setup of the faces of the recipe entry, small sets    *)
(* elsewhere.                                                                 *)
EXTENDS Forms, MCLists

Mv(code, category) == [code |-> code, category |-> category, setupOnly |-> FALSE, derived |-> FALSE]
Derived(move)      == [move EXCEPT !.derived = TRUE]
SetupOnly(move)    == [move EXCEPT !.setupOnly = TRUE]

Normals ==
  << Mv(<<"standing", "light", "punch">>, "normal"), Mv(<<"rush", "standing", "light", "punch">>, "normal"),
     Mv(<<"step", "kick">>, "unique"), Mv(<<"rush", "step", "kick">>, "system"), Mv(<<"rush", "charm">>, "system"),
     Mv(<<"drive", "reversal">>, "system"), SetupOnly(Mv(<<"taunt">>, "system")) >>
Specials ==
  << Mv(<<"hadoken", "light">>, "special"), Mv(<<"hadoken", "od">>, "special"),
     Mv(<<"hadoken", "holding", "light">>, "special"), Derived(Mv(<<"beast", "light", "roll">>, "special")),
     Derived(Mv(<<"beast", "od", "roll">>, "special")), Mv(<<"denjin", "charge">>, "system") >>

Faces      == {<<"combo", Normals>>, <<"setup", Specials>>}
Index      == (<<6, "light", "punch">> :> <<"step", "kick">>) @@ (<<4, "light", "punch">> :> <<"gone">>)
Categories == [m1 |-> "a", m2 |-> "b"]
ActsOfForms == [combo_editor |-> 3, basic_fields |-> 3, recipe |-> 4, setup_editor |-> 4, setup_item |-> 4]

ScreensSpec == (InitForms \/ InitLists) /\ [][NextForms \/ NextLists]_vars
=============================================================================
