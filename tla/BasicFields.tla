----------------------------- MODULE BasicFields -----------------------------
(***************************************************************************)
(* The fields of the combo form that depend on one another: the start      *)
(* position (a band, a mass of the training stage or a percentage of it),  *)
(* the states of a character, the oki options with "investigated", and the *)
(* status tag; with the row they are saved to, which another tab may write.*)
(*                                                                         *)
(* A text field that is empty is None, the band "not specified" is "".     *)
(***************************************************************************)
EXTENDS Page, Integers

CONSTANTS
  TypedMasses,    \* what is typed into the mass fields
  TypedPercents,  \* what is typed as a percentage, in tenths
  OkiKinds,       \* attack and tech types of the oki options
  OtherTags,      \* tags that are no status
  MaxActs         \* bound: doings of the user

On == ui.page = "basic_fields"

LeastOf(S) == CHOOSE x \in S : \A y \in S : x <= y
Clamped(n, low, high) == IF n < low THEN low ELSE IF n > high THEN high ELSE n

-----------------------------------------------------------------------------
(* The start position.                                                     *)

MaxPositionMass == 160

PositionBands ==
  [corner_self          |-> [min |-> 0,   max |-> 25,  representative |-> 12],
   corner_self_near     |-> [min |-> 26,  max |-> 47,  representative |-> 36],
   mid_self             |-> [min |-> 48,  max |-> 69,  representative |-> 58],
   mid_screen           |-> [min |-> 70,  max |-> 90,  representative |-> 80],
   mid_opponent         |-> [min |-> 91,  max |-> 112, representative |-> 102],
   corner_opponent_near |-> [min |-> 113, max |-> 134, representative |-> 124],
   corner_opponent      |-> [min |-> 135, max |-> 160, representative |-> 148]]

Bands == DOMAIN PositionBands

PositionFromMass(mass) ==
  CHOOSE b \in Bands : PositionBands[b].min <= mass /\ mass <= PositionBands[b].max

RepresentativeMassOf(band) ==
  IF band \in Bands THEN Some(PositionBands[band].representative) ELSE None

\* In tenths, rounded half up, as Math.round does; and back, rounded to a mass.
PercentFromMass(mass) == (mass * 1000 + 80) \div MaxPositionMass
PercentToMass(percent) == Clamped((percent * MaxPositionMass + 500) \div 1000, 0, MaxPositionMass)

\* A band brings its representative mass, unless the mass given lies in it already.
PositionOfBand(form, band) ==
  IF band = "" THEN [form EXCEPT !.position = "", !.mass = None]
  ELSE IF form.mass # None /\ PositionFromMass(The(form.mass)) = band THEN [form EXCEPT !.position = band]
  ELSE [form EXCEPT !.position = band, !.mass = RepresentativeMassOf(band)]

\* Mutant: the band stays when a mass of another band is typed.
MassWithoutBand(form, mass) == [form EXCEPT !.mass = mass]

\* The band follows the mass; an emptied mass leaves it.
PositionOfMass(form, mass) ==
  IF mass = None THEN [form EXCEPT !.mass = None]
  ELSE [form EXCEPT !.mass = mass, !.position = PositionFromMass(The(mass))]

-----------------------------------------------------------------------------
(* The states of a character.                                              *)

\* A flag is a state of 0 or 1 with a single value; only what differs from the least is kept.
StateDefs ==
  [flag   |-> [min |-> 0, max |-> 1, single |-> TRUE],
   placed |-> [min |-> 0, max |-> 2, single |-> TRUE],
   stock  |-> [min |-> 1, max |-> 2, single |-> FALSE]]

Codes == DOMAIN StateDefs
Unset == [start |-> None, end |-> None]

OrMin(opt, code) == IF opt = None THEN StateDefs[code].min ELSE Clamped(The(opt), StateDefs[code].min, StateDefs[code].max)

\* Both ends of a single value are the same; of data with one end only, that end is taken.
NormalizeIntValue(v, code) ==
  LET start == OrMin(v.start, code)
      end   == OrMin(v.end, code)
      one   == IF end # StateDefs[code].min THEN end ELSE start
  IN  IF StateDefs[code].single THEN [start |-> one, end |-> one] ELSE [start |-> start, end |-> end]

IsDefault(n, code) == n.start = StateDefs[code].min /\ n.end = StateDefs[code].min

\* A state that says nothing is left out.
Kept(v, code) == IF IsDefault(NormalizeIntValue(v, code), code) THEN Unset ELSE v

\* Mutant: a single value is written to its start only.
SingleStartOnly(code, n) == [start |-> n, end |-> None]

SetSingleIntField(code, n) ==
  IF n = None \/ OrMin(n, code) = StateDefs[code].min THEN Unset
  ELSE [start |-> Some(OrMin(n, code)), end |-> Some(OrMin(n, code))]

SetIntField(v, code, which, n) ==
  Kept([v EXCEPT ![which] = IF n = None THEN None ELSE Some(OrMin(n, code))], code)

\* What is sent: both ends of each state that says something.
BuildSituation(states) ==
  [c \in Codes |-> LET n == NormalizeIntValue(states[c], c)
                   IN  IF IsDefault(n, c) THEN Unset ELSE [start |-> Some(n.start), end |-> Some(n.end)]]

\* What the controls show: the end alone for a single value.
ShownState(v, code) ==
  IF StateDefs[code].single THEN <<OrMin(v.end, code)>> ELSE <<OrMin(v.start, code), OrMin(v.end, code)>>

-----------------------------------------------------------------------------
(* Oki options and tags.                                                   *)

OkiOptions == [kind : OkiKinds, dr : BOOLEAN]

\* An option without drive rush brings the one with it; taking one away takes only that one.
ToggledOki(options, o) ==
  IF o \in options THEN options \ {o}
  ELSE options \union {o} \union (IF o.dr THEN {} ELSE {[o EXCEPT !.dr = TRUE]})

Statuses == {"learning", "learned", "mastered"}

TagsWithStatus(tags, status) == (tags \ Statuses) \union (IF status = "" THEN {} ELSE {status})

-----------------------------------------------------------------------------
(* Actions.                                                                *)

\* The sections do not depend on one another: one of them is filled in per behaviour.
Sections == {"position", "numbers", "choices", "states", "oki", "tags"}

Usable == On /\ ui.acts < MaxActs /\ ~ui.unsetting
In(section) == Usable /\ ui.section = section
Acts(u) == [u EXCEPT !.acts = @ + 1]

\* A field whose handler has changed the form.
Changes(form) == Sets(Acts([ui EXCEPT !.form = form]))

SetPositionMode(mode) == In("position") /\ mode # ui.mode /\ ui.focus = "none" /\ Sets([ui EXCEPT !.mode = mode])

SetPositionBand(band) == In("position") /\ ui.mode = "band" /\ Changes(PositionOfBand(ui.form, band))

\* What is typed is held within the training stage.
TypedMass(mass) == IF mass = None THEN None ELSE Some(Clamped(The(mass), 0, MaxPositionMass))

SetStartPositionMass(mass) ==
  /\ In("position") /\ ui.mode = "mass"
  /\ Sets(Acts([ui EXCEPT !.form = PositionOfMass(@, TypedMass(mass)), !.focus = "position"]))

\* An unfinished number leaves the mass alone.
SetStartPositionPercent(percent) ==
  /\ In("position") /\ ui.mode = "percent"
  /\ LET mass == IF percent = None THEN None ELSE Some(PercentToMass(The(percent)))
     IN  Sets(Acts([ui EXCEPT !.form = PositionOfMass(@, mass), !.focus = "position"]))

\* Leaving the emptied field fills in what its band stands for.
FillStartPositionMassOnBlur ==
  /\ On /\ ui.focus = "position"
  /\ Sets([ui EXCEPT !.focus = "none",
                     !.form.mass = IF @ # None THEN @ ELSE RepresentativeMassOf(ui.form.position)])

\* Gauges are held within their limits while they are typed; an empty field stays empty.
Limits == [driveAvailableAtStart |-> 6, saAvailableAtStart |-> 3, saGaugeConsumed |-> 6,
           driveGaugeConsumed |-> 20]
Gauges == DOMAIN Limits

SetGauge(gauge, n) ==
  /\ In("numbers")
  /\ Changes([ui.form EXCEPT !.gauges[gauge] = IF n = None THEN None
                                               ELSE Some(Clamped(The(n), 0, Limits[gauge]))])

\* Fields of the duplicate key; the search for punishes fixes the kind of hit.
Choices == {"opponentStance", "hitType", "starterMeaty", "opponentSize"}

SetChoice(choice, value) ==
  /\ In("choices") /\ ~(choice = "hitType" /\ ui.locked)
  /\ Changes([ui.form EXCEPT !.choices[choice] = value])

\* A distance has no band, and nothing is filled in.
SetCarryDistance(mass) == In("position") /\ ui.focus = "none" /\ Changes([ui.form EXCEPT !.carry = TypedMass(mass)])

SetState(code, v) ==
  Sets(Acts([ui EXCEPT !.form.states[code] = v, !.touched = @ \union {code}]))

SetSingle(code, n) == In("states") /\ StateDefs[code].single /\ SetState(code, SetSingleIntField(code, n))

SetPair(code, which, n) ==
  /\ In("states") /\ ~StateDefs[code].single
  /\ SetState(code, SetIntField(ui.form.states[code], code, which, n))

\* Whoever touches an option has investigated.
ToggleOki(o) ==
  In("oki") /\ Changes([ui.form EXCEPT !.oki = ToggledOki(@, o), !.verified = TRUE])

\* Taking "investigated" back is asked about as long as there are options.
RequestOkiVerifiedChange ==
  /\ In("oki")
  /\ IF ui.form.verified /\ ui.form.oki # {} THEN Sets(Acts([ui EXCEPT !.unsetting = TRUE]))
     ELSE Changes([ui.form EXCEPT !.verified = ~@])

UnsetOkiVerified(agreed) ==
  /\ On /\ ui.unsetting
  /\ Sets([ui EXCEPT !.unsetting = FALSE, !.form.verified = ~agreed])

HandleMyComboStatusChange(status) ==
  In("tags") /\ Changes([ui.form EXCEPT !.tags = TagsWithStatus(@, status)])

\* The selector of tags does not offer the statuses.
ToggleTag(tag) ==
  In("tags") /\ Changes([ui.form EXCEPT !.tags = IF tag \in @ THEN @ \ {tag} ELSE @ \union {tag}])

-----------------------------------------------------------------------------
(* Saving: PUT writes the position, PATCH does not.                        *)

Row(form, choices, position, mass) ==
  [choices |-> choices, gauges |-> form.gauges, position |-> position, mass |-> mass, carry |-> form.carry, states |-> BuildSituation(form.states),
   oki |-> form.oki, verified |-> form.verified, tags |-> form.tags,
   version |-> srv.row.version + 1]

\* With a whole row the mass decides, and a band without a mass stands for its representative.
Normalized(form) ==
  IF form.mass # None THEN Row(form, form.choices, PositionFromMass(The(form.mass)), form.mass)
  ELSE Row(form, form.choices, form.position, RepresentativeMassOf(form.position))

\* Without the key only an empty mass is filled in, from the band of the row.
Patched(form) ==
  Row(form, srv.row.choices, srv.row.position,
      IF form.mass = None THEN RepresentativeMassOf(srv.row.position) ELSE form.mass)

HasKeyChanges ==
  ui.form.position # ui.initial.position \/ ui.form.choices # ui.initial.choices

\* A button of the controller saves without leaving the field; another version is refused.
Save ==
  /\ Usable /\ srv.row.version = ui.initial.version
  /\ srv' = [srv EXCEPT !.row = IF HasKeyChanges THEN Normalized(ui.form) ELSE Patched(ui.form)]
  /\ ui' = Acts([ui EXCEPT !.initial = srv'.row, !.saved = TRUE])

OtherSaves(band) ==
  /\ On /\ srv.row.version < 2 /\ band # srv.row.position
  /\ Serves([srv EXCEPT !.row.position = band, !.row.mass = RepresentativeMassOf(band),
                        !.row.version = @ + 1])

Refetched == On /\ ui.initial # srv.row /\ Sets([ui EXCEPT !.initial = srv.row])

\* A gauge that was never given is shown, and then saved, as none consumed.
ShownGauge(gauge, opt) ==
  IF opt = None /\ gauge \in {"saGaugeConsumed", "driveGaugeConsumed"} THEN Some(0) ELSE opt

FormOf(row) ==
  [choices |-> row.choices, gauges |-> [g \in Gauges |-> ShownGauge(g, row.gauges[g])],
   position |-> row.position, mass |-> row.mass, carry |-> row.carry, states |-> row.states,
   oki |-> row.oki, verified |-> row.verified, tags |-> row.tags]

Init ==
  \E band \in {"", "corner_self"}, section \in Sections, locked \in BOOLEAN :
    LET row == [choices |-> [c \in Choices |-> "first"], gauges |-> [g \in Gauges |-> None],
                position |-> band, mass |-> RepresentativeMassOf(band), carry |-> None,
                states |-> [c \in Codes |-> Unset], oki |-> {}, verified |-> FALSE,
                tags |-> {}, version |-> 1]
    IN  /\ srv = [row |-> row]
        /\ ui = [page |-> "basic_fields", form |-> FormOf(row), initial |-> row, section |-> section,
                 locked |-> locked, mode |-> "band", focus |-> "none", unsetting |-> FALSE,
                 touched |-> {}, saved |-> FALSE, acts |-> 0]

Opt(S) == {None} \union {Some(x) : x \in S}

Next ==
  \/ FillStartPositionMassOnBlur \/ RequestOkiVerifiedChange \/ Save \/ Refetched
  \/ \E agreed \in BOOLEAN : UnsetOkiVerified(agreed)
  \/ \E mode \in {"band", "mass", "percent"} : SetPositionMode(mode)
  \/ \E band \in {"", "corner_self", "mid_screen"} : SetPositionBand(band) \/ OtherSaves(band)
  \/ \E mass \in Opt(TypedMasses) : SetStartPositionMass(mass)
  \/ \E percent \in Opt(TypedPercents) : SetStartPositionPercent(percent)
  \/ \E gauge \in Gauges, n \in Opt({0, 99}) : SetGauge(gauge, n)
  \/ \E choice \in Choices, value \in {"first", "second"} : SetChoice(choice, value)
  \/ SetCarryDistance(Some(LeastOf(TypedMasses)))
  \/ \E code \in Codes, n \in Opt({0, 1, 3}) :
       SetSingle(code, n) \/ \E which \in {"start", "end"} : SetPair(code, which, n)
  \/ \E o \in OkiOptions : ToggleOki(o)
  \/ \E status \in Statuses \union {""} : HandleMyComboStatusChange(status)
  \/ \E tag \in OtherTags : ToggleTag(tag)

-----------------------------------------------------------------------------
(* Properties.                                                             *)

\* The row has a mass exactly when it has a band, and the band is that of the mass: although an
\* update without the key writes the mass alone, and although another tab moved the row meanwhile.
BandOfMass ==
  On => IF srv.row.position = "" THEN srv.row.mass = None
        ELSE srv.row.mass # None /\ PositionFromMass(The(srv.row.mass)) = srv.row.position

\* One decimal of a percentage is enough for every mass: showing and retyping it moves nothing.
PercentKeepsMass ==
  On /\ ui.acts = 0 => \A mass \in 0..MaxPositionMass : PercentToMass(PercentFromMass(mass)) = mass

\* Band, mass and percentage are three views of one number, on the form and in the row
\* (startPosition.ts, useUpdateCombo.ts).
MassAgrees == BandOfMass /\ PercentKeepsMass

\* A state that was touched is saved as its controls show it, clamped to its range.
StatesSavedAsShown ==
  [][On /\ srv'.row.version > srv.row.version /\ ui'.saved /\ ui'.acts > ui.acts =>
       \A c \in ui.touched : ShownState(ui.form.states[c], c) =
                             (LET n == NormalizeIntValue(srv'.row.states[c], c)
                              IN  IF StateDefs[c].single THEN <<n.start>> ELSE <<n.start, n.end>>)]_vars
=============================================================================
