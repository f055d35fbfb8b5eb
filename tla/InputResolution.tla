-------------------------- MODULE InputResolution --------------------------
(***************************************************************************)
(* The pure part of physical input: from pressed inputs to a direction,    *)
(* from the buttons of one window to an intent, and from a list of         *)
(* directions and a button to the command of a move.  No definition here   *)
(* has state; PhysicalInput applies them where the code calls them.        *)
(***************************************************************************)
EXTENDS Naturals, Sequences, FiniteSets

\* A value that may be missing.
None    == << >>
Some(x) == <<x>>

Punches == {"light_punch", "medium_punch", "heavy_punch"}
Kicks   == {"light_kick", "medium_kick", "heavy_kick"}
Attacks == Punches \cup Kicks

KindOf(b) == IF b \in Punches THEN "punch" ELSE "kick"
StrengthOf(b) ==
  CASE b \in {"light_punch", "light_kick"} -> "light"
    [] b \in {"medium_punch", "medium_kick"} -> "medium"
    [] b \in {"heavy_punch", "heavy_kick"} -> "heavy"

\* Buttons that stand for a whole system move (OPTIONAL_BUTTONS).
Macros == {"drive_impact", "drive_parry", "throw"}

Directions == 1 .. 9
Neutral    == 5

Actions == {"delete", "save", "modifier", "command_mode"}
NoAction == "none"

\* Opposite inputs to the left and to the right cancel out, and up wins over down.
Numpad(cards) ==
  LET left  == "left" \in cards
      right == "right" \in cards
      column == IF left = right THEN 2 ELSE IF right THEN 3 ELSE 1
      row    == IF "up" \in cards THEN 2 ELSE IF "down" \in cards THEN 0 ELSE 1
  IN  3 * row + column

IsBackward(dir) == dir \in {1, 4, 7}

-----------------------------------------------------------------------------
(* What a device says: the pressed buttons, the raw directions and whether *)
(* the prefix button is down.  A device without a profile says nothing.    *)

Unresolved == [ok |-> FALSE, buttons |-> {}, cards |-> {}, prefix |-> FALSE]

\* Only inputs that have a target are read; the prefix is kept apart from the buttons.
Reading(targets) ==
  [ok      |-> TRUE,
   buttons |-> targets \cap (Attacks \cup Macros),
   cards   |-> targets \cap {"up", "down", "left", "right"},
   prefix  |-> "prefix" \in targets]

\* Both devices together are one reading; the direction is taken after the union.
MergeReadings(a, b) ==
  IF ~a.ok THEN b
  ELSE IF ~b.ok THEN a
  ELSE [ok |-> TRUE, buttons |-> a.buttons \cup b.buttons,
        cards |-> a.cards \cup b.cards, prefix |-> a.prefix \/ b.prefix]

\* The button that follows the prefix chooses the operation; light and medium others choose none.
ActionOf(button) ==
  CASE button = "medium_punch" -> "modifier"
    [] button = "heavy_punch"  -> "save"
    [] button = "heavy_kick"   -> "delete"
    [] button = "light_kick"   -> "command_mode"
    [] OTHER -> NoAction

-----------------------------------------------------------------------------
(* One step: the intent of the buttons of a window, and its move.          *)

Pair(strength) ==
  CASE strength = "heavy"  -> "drive_impact"
    [] strength = "medium" -> "drive_parry"
    [] strength = "light"  -> "throw"

Attack(b) == [tag |-> "attack", what |-> b]
System(b) == [tag |-> "system", what |-> b]
Refused(why) == [tag |-> "refused", what |-> why]

Classify(buttons) ==
  LET attacks == buttons \cap Attacks
  IN  IF Cardinality(buttons) > 2 THEN Refused("too_many_buttons")
      ELSE IF Cardinality(buttons) = 1
           THEN LET b == CHOOSE x \in buttons : TRUE
                IN  IF b \in Attacks THEN Attack(b) ELSE System(b)
      ELSE IF buttons # attacks THEN Refused("unknown_combination")
      ELSE IF Cardinality({KindOf(b) : b \in attacks}) = 1 THEN Refused("od_not_supported")
      ELSE IF Cardinality({StrengthOf(b) : b \in attacks}) > 1 THEN Refused("mixed_strength")
      ELSE System(Pair(StrengthOf(CHOOSE b \in attacks : TRUE)))

\* `moves` holds the inputs the character has a move for: [dir, what] of an attack, a name of a
\* system move.  A dash attack is looked for under "rush" instead of its direction's own move.
ResolveStep(step, moves, rushOn) ==
  LET intent == Classify(step.buttons)
      system == IF intent.what = "throw" /\ IsBackward(step.dir)
                  THEN "throw_back" ELSE intent.what
  IN  CASE intent.tag = "refused" -> intent.what
        [] intent.tag = "attack" /\ rushOn /\ step.dir >= 7 -> "rush_not_available_in_air"
        [] intent.tag = "attack" /\ (~rushOn \/ step.dir < 7) ->
             IF [dir |-> step.dir, what |-> intent.what, rush |-> rushOn] \in moves
               THEN "added" ELSE "move_not_found"
        [] intent.tag = "system" -> IF system \in moves THEN "added" ELSE "move_not_found"

-----------------------------------------------------------------------------
(* Command motions: the longest command that the directions begin with.    *)
(* A row of the index is [dirs, strength, kind, move]; strength "any" is a  *)
(* command that does not name one, kind "other" a row that is not one      *)
(* attack button (several buttons, a hold, a full circle).                 *)

Begins(prefix, s) ==
  Len(prefix) <= Len(s) /\ \A i \in DOMAIN prefix : prefix[i] = s[i]

TakesPart(row) == row.dirs # << >> /\ row.kind # "other"

Matching(table, dirs, button) ==
  {row \in table : /\ TakesPart(row)
                   /\ Begins(row.dirs, dirs)
                   /\ row.kind = KindOf(button)
                   /\ row.strength \in {StrengthOf(button), "any"}}

\* Longest first; among equally long ones those that name the strength; never a guess.
ResolveMotion(table, dirs, button) ==
  LET matching == Matching(table, dirs, button)
      longest  == {r \in matching : \A o \in matching : Len(o.dirs) <= Len(r.dirs)}
      exact    == {r \in longest : r.strength = StrengthOf(button)}
      finals   == IF exact # {} THEN exact ELSE longest
      moves    == {r.move : r \in finals}
  IN  IF matching = {} THEN [move |-> "none", why |-> "no_match"]
      ELSE IF Cardinality(moves) > 1 THEN [move |-> "none", why |-> "ambiguous"]
      ELSE [move |-> CHOOSE x \in moves : TRUE, why |-> "resolved"]
=============================================================================
