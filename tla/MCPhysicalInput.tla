-------------------------- MODULE MCPhysicalInput --------------------------
(***************************************************************************)
(* Physical input on the page, and the dialogs that register a pad or      *)
(* keys.  While such a dialog is open the provider only keeps in step with *)
(* the devices, so a behaviour is about the one or the other.              *)
(***************************************************************************)
EXTENDS PhysicalInput, InputRegistration

VARIABLE registering \* what the behaviour is about

ASSUME MCAssumption == RegistrationAssumption /\ InputAssumption

LK == "light_kick"
HK == "heavy_kick"

MCTarget == [p \in Profiles |->
  [i \in PadInputs |-> CASE i = "b1" -> IF p = "p1" THEN LK ELSE HK
                        [] i = "b2" -> IF p = "p1" THEN HK ELSE LK
                        [] i = "pre" -> "prefix"
                        [] i = "rt" -> "right"]]
MCKeyTarget ==
  [k \in Keys |-> CASE k = "k1" -> LK [] k = "k2" -> "command_mode" [] k = "k3" -> "delete"]
MCOffers == [f \in Surfaces |-> IF f = "f1" THEN {"delete", "save", "modifier", "command_mode"} ELSE {"delete", "modifier"}]
MCMoves == {[dir |-> d, what |-> LK, rush |-> FALSE] : d \in {5, 6}}
           \cup {[dir |-> 5, what |-> "hadoken", rush |-> FALSE]}
MCTable == {[dirs |-> <<6>>, strength |-> "any", kind |-> "kick", move |-> "hadoken"]}

MCPadOrder == <<"up", "lp", "pre">>
MCOptional == <<"pre">>
MCKeyOrder == <<"up", "lp">>
MCStandard == [t \in {"up", "lp", "pre"} |->
                 CASE t = "up" -> "i1" [] t = "lp" -> "i2" [] t = "pre" -> "unbound"]

MCInit ==
  /\ Init /\ RegistrationInit /\ registering \in BOOLEAN
  /\ IF registering THEN world.stored = NoProfile ELSE ~standard

MCNext ==
  \/ ~registering /\ Next /\ UNCHANGED registrationVars
  \/ registering /\ RegistrationNext /\ UNCHANGED vars

MCSpec ==
  MCInit /\ [][MCNext /\ UNCHANGED registering]_<<vars, registrationVars, registering>>
=============================================================================
