-------------------------- MODULE InputRegistration --------------------------
(***************************************************************************)
(* The two dialogs that register inputs: the calibration of a gamepad,     *)
(* which watches live snapshots, and the binding of keyboard keys.  Both   *)
(* walk through an order of targets, stop at an input that is in use, and  *)
(* store what was registered so far in the browser.                        *)
(***************************************************************************)
EXTENDS InputResolution

CONSTANTS
  PadOrder,    \* CALIBRATION_ORDER: directions and attacks, then macros and the prefix
  Optional,    \* OPTIONAL_TARGETS: the end of PadOrder
  Inputs,      \* buttons and half axes of the pad
  Standard,    \* the profile of the standard layout: what createStandardProfile returns
  KeyOrder,    \* KEYBOARD_REGISTRATION_ORDER
  Codes,       \* keys
  Excluded,    \* keys that are refused: function, modifier, Tab, Escape, Enter, ...
  Unbound

Elems(q) == {q[i] : i \in DOMAIN q}
PadTargets == Elems(PadOrder)
KeyTargets == Elems(KeyOrder)

Distinct(profile, Bindings) ==
  \A t, u \in DOMAIN profile : t # u /\ profile[t] \in Bindings => profile[t] # profile[u]

\* What is assumed of the constants.
RegistrationAssumption ==
  /\ PadOrder \in Seq(PadTargets) /\ KeyOrder \in Seq(KeyTargets)
  /\ Optional \in Seq(PadTargets)
  /\ Unbound \notin Inputs \cup Codes
  /\ Standard \in [PadTargets -> Inputs \cup {Unbound}]
  /\ Distinct(Standard, Inputs)
  /\ Excluded \subseteq Codes

VARIABLES
  saved,     \* the stored profile of the pad, as used by the provider; None if there is none
  savedKeys, \* the stored bindings of the keyboard
  cal,       \* calibration: None while closed, or [profile, order, cursor, conflict, mode, retaken]
  standard,  \* the pad reports the standard layout
  padOpen,   \* the calibration dialog is open (without a pad it shows no calibration)
  awaiting,  \* awaitingReleaseRef: the pressed input was used, or was held when the target came up
  connected, \* a pad is recognised
  held,      \* inputs of the pad that are down
  stale,     \* inputs that have been down since before the present target was asked for
  reg        \* keyboard registration, as `cal`, with the refused key

registrationVars ==
  <<saved, savedKeys, standard, cal, padOpen, awaiting, connected, held, stale, reg>>
padVars == <<saved, standard, cal, padOpen, awaiting, connected, held, stale>>
keyVars == <<savedKeys, reg>>

The(o) == o[1]

-----------------------------------------------------------------------------
(* What both registrations share.                                          *)

CurrentTarget(c) == c.order[c.cursor]
Finished(c)      == c.cursor > Len(c.order)

EmptyProfile(Targets) == [t \in Targets |-> Unbound]

\* The first target of the order that has no input; behind the end if there is none.
FirstUnassigned(profile, order) ==
  LET open == {i \in DOMAIN order : profile[order[i]] = Unbound}
  IN  IF open = {} THEN Len(order) + 1 ELSE CHOOSE i \in open : \A j \in open : i <= j

Start(profile, order, first, mode) ==
  [profile |-> profile, order |-> order, cursor |-> first, conflict |-> None,
   mode |-> mode, retaken |-> None, refused |-> None]

\* Mutant: only the targets that are walked through are searched.
UserOfInOrder(c, input) == {t \in Elems(c.order) \ {CurrentTarget(c)} : c.profile[t] = input}

UserOf(c, input) == {t \in DOMAIN c.profile \ {CurrentTarget(c)} : c.profile[t] = input}

\* An input that another target uses is not taken before the user has decided.
Record(c, input) ==
  IF Finished(c) \/ c.conflict # None THEN c
  ELSE IF UserOf(c, input) # {}
    THEN [c EXCEPT !.refused = None,
                   !.conflict = Some([target |-> CurrentTarget(c), input |-> input,
                                      existing |-> CHOOSE t \in UserOf(c, input) : TRUE])]
  ELSE [c EXCEPT !.profile[CurrentTarget(c)] = input, !.cursor = @ + 1,
                 !.refused = None, !.retaken = None]

Overwrite(c) ==
  LET k == The(c.conflict)
  IN  [c EXCEPT !.profile = [@ EXCEPT ![k.existing] = Unbound, ![k.target] = k.input],
                !.cursor = @ + 1, !.conflict = None, !.refused = None, !.retaken = None]

Skip(c) == [c EXCEPT !.cursor = @ + 1, !.conflict = None, !.refused = None]

-----------------------------------------------------------------------------
(* Calibration of the pad.                                                 *)

\* After a single target was taken anew, the targets that are still open follow.
ResumeAfterRetake(c, assigned) ==
  IF c.mode # "single" \/ ~Finished(c) THEN c
  ELSE LET resumed == Start(c.profile, PadOrder, FirstUnassigned(c.profile, PadOrder), "sequential")
       IN  IF ~Finished(resumed) THEN [resumed EXCEPT !.retaken = assigned]
           ELSE IF assigned = None THEN c ELSE [c EXCEPT !.retaken = assigned]

RecordBinding(c, input) ==
  LET r == Record(c, input)
  IN  IF Finished(c) \/ r.conflict # None THEN r ELSE ResumeAfterRetake(r, Some(CurrentTarget(c)))

ConfirmOverwrite(c) == ResumeAfterRetake(Overwrite(c), Some(The(c.conflict).target))

SkipCurrent(c) == ResumeAfterRetake([Skip(c) EXCEPT !.retaken = None], None)

ProfileInUse ==
  IF saved # None THEN The(saved)
  ELSE IF standard THEN Standard ELSE EmptyProfile(PadTargets)

\* Opening continues where the stored profile ends; with the standard layout only the optional
\* targets are asked for.
OpenCalibration ==
  IF saved = None /\ standard
    THEN Start(Standard, Optional, 1, "partial")
    ELSE Start(ProfileInUse, PadOrder, FirstUnassigned(ProfileInUse, PadOrder), "sequential")

\* Mutant: a held input fills one target after the other.
WatchHeld(c, wait, down) ==
  IF c = None THEN {<<c, wait>>}
  ELSE IF The(c).conflict # None \/ Finished(The(c)) \/ down = {} THEN {<<c, FALSE>>}
  ELSE {<<Some(RecordBinding(The(c), i)), TRUE>> : i \in down}

\* The effect that watches the snapshot: one press fills one target, and nothing is accepted
\* until every input has been released.  It says nothing while a conflict is open.
Watch(c, wait, down) ==
  IF c = None THEN {<<c, wait>>}
  ELSE IF The(c).conflict # None \/ Finished(The(c)) THEN {<<c, wait>>}
  ELSE IF down = {} THEN {<<c, FALSE>>}
  ELSE IF wait THEN {<<c, TRUE>>}
  ELSE {<<Some(RecordBinding(The(c), i)), TRUE>> : i \in down}

\* A new target was asked for with `down` held: those inputs belong to an earlier one.
Observe(c, wait, down, old) ==
  \E seen \in Watch(c, wait, down) :
    /\ cal' = seen[1] /\ awaiting' = seen[2]
    /\ stale' = IF seen[1] # c THEN down ELSE old \cap down

OpenPad ==
  /\ ~padOpen /\ reg = None /\ padOpen' = TRUE
  /\ cal' = (IF connected THEN Some(OpenCalibration) ELSE None)
  /\ awaiting' = connected /\ stale' = held
  /\ UNCHANGED <<saved, connected, held, standard, keyVars>>

ClosePad ==
  /\ padOpen /\ padOpen' = FALSE
  /\ cal' = None /\ awaiting' = FALSE
  /\ UNCHANGED <<saved, connected, held, stale, standard, keyVars>>

\* The pad is recognised by its first input; an open dialog starts its calibration.
Connect(i) ==
  /\ ~connected /\ connected' = TRUE /\ held' = {i}
  /\ cal' = (IF padOpen THEN Some(OpenCalibration) ELSE cal)
  /\ awaiting' = (padOpen \/ awaiting) /\ stale' = {i}
  /\ UNCHANGED <<saved, padOpen, standard, keyVars>>

\* Without a pad the dialog keeps what it has, and waits.
Disconnect ==
  /\ connected /\ connected' = FALSE /\ held' = {} /\ stale' = {}
  /\ UNCHANGED <<saved, cal, padOpen, awaiting, standard, keyVars>>

Press(i) ==
  /\ connected /\ i \notin held /\ held' = held \cup {i}
  /\ Observe(cal, awaiting, held', stale)
  /\ UNCHANGED <<saved, padOpen, connected, standard, keyVars>>

Release(i) ==
  /\ i \in held /\ held' = held \ {i}
  /\ Observe(cal, awaiting, held', stale)
  /\ UNCHANGED <<saved, padOpen, connected, standard, keyVars>>

\* A click changes the calibration; the effect then runs on the snapshot that is there.
Click(c, wait) ==
  /\ IF connected THEN Observe(Some(c), wait, held, held)
     ELSE cal' = Some(c) /\ awaiting' = wait /\ UNCHANGED stale
  /\ UNCHANGED <<saved, padOpen, connected, held, standard, keyVars>>

ConfirmPad == cal # None /\ The(cal).conflict # None /\ Click(ConfirmOverwrite(The(cal)), awaiting)
CancelPad  == cal # None /\ The(cal).conflict # None
              /\ Click([The(cal) EXCEPT !.conflict = None], awaiting)
SkipPad    == cal # None /\ ~Finished(The(cal)) /\ Click(SkipCurrent(The(cal)), TRUE)
RetakePad(t) ==
  /\ cal # None /\ The(cal).profile[t] # Unbound
  /\ Click(Start(The(cal).profile, <<t>>, 1, "single"), TRUE)
RecalibrateAll ==
  /\ cal # None /\ The(cal).mode # "sequential"
  /\ Click(Start(The(cal).profile, PadOrder, 1, "sequential"), TRUE)

\* What was registered so far is used at once; only if the browser stored it the dialog closes.
SavePad(stored) ==
  /\ cal # None /\ saved' = Some(The(cal).profile)
  /\ IF stored THEN padOpen' = FALSE /\ cal' = None /\ awaiting' = FALSE
     ELSE UNCHANGED <<padOpen, cal, awaiting>>
  /\ UNCHANGED <<connected, held, stale, standard, keyVars>>

\* Without a pad there is nothing to remove, and the dialog closes all the same.
RemovePad ==
  /\ cal # None /\ saved # None
  /\ saved' = IF connected THEN None ELSE saved
  /\ padOpen' = FALSE /\ cal' = None /\ awaiting' = FALSE
  /\ UNCHANGED <<connected, held, stale, standard, keyVars>>

-----------------------------------------------------------------------------
(* Binding of keys.                                                        *)

Keyed(c) == reg' = Some(c) /\ UNCHANGED <<savedKeys, padVars>>

OpenKeys ==
  /\ reg = None /\ ~padOpen
  /\ Keyed(Start(savedKeys, KeyOrder, FirstUnassigned(savedKeys, KeyOrder), "sequential"))

\* Function, modifier, navigation, activation and system keys are refused.
Refuses(code) == code \in Excluded

\* One keydown; a repeat says nothing, and a refused key says why.
RecordKey(code) ==
  LET c == The(reg)
      r == IF Refuses(code) THEN [c EXCEPT !.refused = Some(code)]
           ELSE LET n == Record(c, code)
                IN  IF n.conflict = None /\ c.mode = "single"
                      THEN [n EXCEPT !.retaken = Some(CurrentTarget(c))] ELSE n
  IN  reg # None /\ ~Finished(c) /\ c.conflict = None /\ Keyed(r)

ConfirmKey ==
  LET c == The(reg)
  IN  /\ reg # None /\ c.conflict # None
      /\ Keyed([Overwrite(c) EXCEPT
                  !.retaken = IF c.mode = "single" THEN Some(The(c.conflict).target) ELSE None])

CancelKey  == reg # None /\ The(reg).conflict # None /\ Keyed([The(reg) EXCEPT !.conflict = None])
DismissKey == reg # None /\ The(reg).refused # None /\ Keyed([The(reg) EXCEPT !.refused = None])
SkipKey    == reg # None /\ ~Finished(The(reg)) /\ Keyed(Skip(The(reg)))
RetakeKey(t) == reg # None /\ Keyed(Start(The(reg).profile, <<t>>, 1, "single"))

SaveKeys(stored) ==
  /\ reg # None /\ savedKeys' = The(reg).profile
  /\ reg' = IF stored THEN None ELSE reg
  /\ UNCHANGED padVars

\* Everything is forgotten, whatever the dialog holds.
ClearKeys == reg # None /\ savedKeys' = EmptyProfile(KeyTargets) /\ reg' = None /\ UNCHANGED padVars
CloseKeys == reg # None /\ reg' = None /\ UNCHANGED <<savedKeys, padVars>>

-----------------------------------------------------------------------------
RegistrationInit ==
  /\ saved = None /\ savedKeys = EmptyProfile(KeyTargets)
  /\ cal = None /\ padOpen = FALSE /\ awaiting = FALSE
  /\ standard \in BOOLEAN
  /\ connected = FALSE /\ held = {} /\ stale = {} /\ reg = None

RegistrationNext ==
  \/ OpenPad \/ ClosePad \/ Disconnect \/ ConfirmPad \/ CancelPad \/ SkipPad
  \/ RecalibrateAll \/ RemovePad
  \/ \E i \in Inputs : Connect(i) \/ Press(i) \/ Release(i)
  \/ \E t \in PadTargets : RetakePad(t)
  \/ \E stored \in BOOLEAN : SavePad(stored) \/ SaveKeys(stored)
  \/ OpenKeys \/ ConfirmKey \/ CancelKey \/ DismissKey \/ SkipKey \/ ClearKeys \/ CloseKeys
  \/ \E code \in Codes : RecordKey(code)
  \/ \E t \in KeyTargets : RetakeKey(t)

RegistrationSpec == RegistrationInit /\ [][RegistrationNext]_registrationVars

-----------------------------------------------------------------------------
(* Properties.                                                             *)

\* One input never has two targets, in what is stored, what is being calibrated and what is being
\* bound: a registration that was begun with either layout, resumed, retaken or partly skipped
\* stops at every input in use (calibration.ts:196-237, keyboardRegistration.ts:92-166).
NoSharedBinding ==
  /\ saved # None => Distinct(The(saved), Inputs)
  /\ cal # None => Distinct(The(cal).profile, Inputs)
  /\ Distinct(savedKeys, Codes)
  /\ reg # None => Distinct(The(reg).profile, Codes)

\* A press fills one target only: an input that has been down since before the present target was
\* asked for is not taken for it, unless the user decides a conflict (GamepadCalibrationDialog.tsx:118-138).
OnePressOneTarget ==
  [][\A t \in PadTargets, i \in stale :
       cal # None /\ cal' # None /\ The(cal).profile[t] # i /\ The(cal').profile[t] = i
         => The(cal).conflict # None]_registrationVars
=============================================================================
