--------------------------- MODULE PhysicalInput ---------------------------
(***************************************************************************)
(* PhysicalInputProvider and the hooks it runs: a gamepad read once per     *)
(* frame, bound keys of the keyboard, one window that turns the buttons of *)
(* a short moment into a step, the shortcut prefix, the command mode, and  *)
(* the surface (a recipe editor) that owns the input.                      *)
(*                                                                         *)
(* React separates what a handler sees at once (refs) from what a render   *)
(* shows (state).  The record `s` holds both: the refs, and the state that *)
(* is set but not rendered yet.  `shown` is the state of the last render;  *)
(* Commit renders and runs the effects in the order of the code.  Devices, *)
(* timers, dialogs and pages act between any two commits.                  *)
(***************************************************************************)
EXTENDS InputResolution

CONSTANTS
  Surfaces,      \* recipe editors that may be on the page
  PadInputs,     \* buttons and directions of the pad
  Profiles,      \* registrations of the pad
  Target,        \* Target[p][i]: what input i means under profile p
  Keys,          \* keys of the keyboard that can be bound
  KeyTarget,     \* KeyTarget[k]: the input a key means, or the name of an operation
  Offers,        \* Offers[f]: operations that surface f implements
  Moves,         \* inputs that are moves of the character
  MotionTable,   \* commands of the character
  MaxRetained,   \* MAX_RETAINED_STEPS
  MaxSteps,      \* bound: steps of a recipe
  MaxPresses,    \* bound: presses in a behaviour
  MaxTurns       \* bound: turns of pages, dialogs and plugs in a behaviour

\* What a run's module assumes of the constants.
InputAssumption ==
  /\ Target \in [Profiles -> [PadInputs -> Attacks \cup Macros \cup
                               {"up", "down", "left", "right", "prefix"}]]
  /\ Offers \in [Surfaces -> SUBSET Actions]
  /\ PadInputs \cap Keys = {}
  /\ MaxRetained \in Nat \ {0} /\ MaxSteps \in Nat /\ MaxPresses \in Nat /\ MaxTurns \in Nat

NoProfile == "no_profile"
NoSurface == "no_surface"

VARIABLES
  s,        \* refs of the provider, and state set but not rendered
  shown,    \* state as last rendered
  modal,    \* the modal dialogs that are open
  world     \* what is physically down, what is plugged and stored, and the accounts of the properties

vars == <<s, shown, modal, world>>

ActionKeys == {k \in Keys : KeyTarget[k] \in Actions}
MoveKeys   == Keys \ ActionKeys

Last(r)  == r.last[1]
Dialogs  == {"dialog", "binding"}

-----------------------------------------------------------------------------
(* Steps: one window of simultaneous presses.                              *)

Emit(r, step) ==
  LET all == <<[step |-> step, new |-> TRUE]>> \o r.steps
  IN  [r EXCEPT !.steps = IF Len(all) <= MaxRetained THEN all
                          ELSE SubSeq(all, 1, MaxRetained)]

\* The window is dropped and the pressed buttons count as held: nothing rises from them.
SeedNow(r, reading) ==
  [r EXCEPT !.held = reading.buttons, !.pending = None, !.seedNext = FALSE]

\* The timer of the open window: seedSample and reset clear it together with the window.
FlushWindow(r) == [Emit(r, r.pending[1]) EXCEPT !.pending = None]

\* A sample after the end of the window closes it first.  The first rising button opens a
\* window that later ones join, and a direction that is not neutral replaces the earlier one.
PushSample(r, reading, late) ==
  LET closed  == IF r.pending # None /\ late THEN FlushWindow(r) ELSE r
      rising  == reading.buttons \ r.held
      before  == IF closed.pending # None THEN closed.pending[1]
                 ELSE [buttons |-> {}, dir |-> Neutral]
      dir     == Numpad(reading.cards)
      window  == [buttons |-> before.buttons \cup rising,
                  dir |-> IF dir # Neutral THEN dir ELSE before.dir]
  IN  [closed EXCEPT !.held = reading.buttons,
                     !.pending = IF window.buttons = {} THEN None ELSE Some(window)]

PushResult(r, reading, late) ==
  IF r.seedNext THEN SeedNow(r, reading) ELSE PushSample(r, reading, late)

-----------------------------------------------------------------------------
(* What the owner of the input does with a step, a motion or an operation. *)

\* The handlers of the owner exist while it is mounted.
HasHandler(r) == r.owner \in r.handlers

Readout(r, why) ==
  IF why = "added"
    THEN [r EXCEPT !.face[r.owner].steps = IF @ < MaxSteps THEN @ + 1 ELSE @,
                   !.face[r.owner].read = "added"]
    ELSE [r EXCEPT !.face[r.owner].read = why]

HandleStep(r, step) == Readout(r, ResolveStep(step, Moves, shown.face[r.owner].rush))

\* A motion without a button is one that was given up.
DeliverMotion(r, dirs, button) ==
  IF ~HasHandler(r) THEN r
  ELSE IF button = None THEN Readout(r, "abandoned")
  ELSE LET found == ResolveMotion(MotionTable, dirs, button[1])
       IN  Readout(r, IF found.why # "resolved" THEN found.why
                      ELSE IF [dir |-> Neutral, what |-> found.move, rush |-> FALSE] \in Moves
                           THEN "added" ELSE "move_not_found")

\* Entering takes what is held as already down; leaving gives up the directions so far.
SetCommandMode(r, on) ==
  IF r.mode = on THEN r
  ELSE LET held == r.last # None /\ on
           r1 == [r EXCEPT !.mode = on,
                           !.attackDown = IF held THEN Last(r).buttons \cap Attacks ELSE {},
                           !.dirLast = IF held THEN Numpad(Last(r).cards) ELSE Neutral]
           r2 == IF ~on /\ r.dirs # << >> THEN DeliverMotion(r1, r.dirs, None) ELSE r1
           r3 == [r2 EXCEPT !.dirs = << >>]
       IN  IF r.last # None THEN SeedNow(r3, Last(r)) ELSE r3

\* The surface knows the mode, the table of commands and its recipe as last rendered.  Leaving
\* the mode is always possible; entering needs a table.
HandleAction(r, action) ==
  LET f       == r.owner
      recipe  == shown.face[f]
      outcome ==
        IF action = "command_mode"
          THEN IF shown.mode \/ shown.index[f] THEN "done" ELSE "unavailable"
        ELSE IF action \notin Offers[f] THEN "unavailable"
        ELSE IF action = "save"
          THEN IF recipe.saving \/ recipe.steps = 0 THEN "blocked" ELSE "done"
        ELSE IF recipe.steps = 0 THEN "no_target" ELSE "done"
      r1 == CASE outcome # "done" -> r
              [] outcome = "done" /\ action = "command_mode" -> SetCommandMode(r, ~shown.mode)
              [] outcome = "done" /\ action = "delete" ->
                   [r EXCEPT !.face[f].steps = IF @ > 0 THEN @ - 1 ELSE 0]
              [] outcome = "done" /\ action = "save" -> [r EXCEPT !.face[f].saving = TRUE]
              [] outcome = "done" /\ action = "modifier" -> r
  IN  [r1 EXCEPT !.face[f].note = outcome]

DispatchAction(r, action) ==
  IF modal # {} \/ ~HasHandler(r) THEN r ELSE HandleAction(r, action)

\* Mutant: the buttons that were held during the shortcut are not seeded.
LeaveShortcutUnseeded(r) ==
  IF ~r.shortcut THEN r ELSE [r EXCEPT !.shortcut = FALSE, !.followDown = {}]

LeaveShortcut(r) ==
  IF ~r.shortcut THEN r
  ELSE LET r1 == [r EXCEPT !.shortcut = FALSE, !.followDown = {}]
       IN  IF r.last # None THEN SeedNow(r1, Last(r)) ELSE r1

-----------------------------------------------------------------------------
(* One sample of both devices.                                             *)

FollowUps(reading) == {b \in reading.buttons : ActionOf(b) # NoAction}

\* Only one operation fires, that of the first follow-up that rises, and the prefix is spent.
ShortcutSample(r, reading) ==
  LET rose == FollowUps(reading) \ r.followDown
      r1   == [r EXCEPT !.followDown = FollowUps(reading)]
  IN  IF rose = {} THEN {r1}
      ELSE {LeaveShortcut(DispatchAction(r1, ActionOf(b))) : b \in rose}

\* Directions are kept as they change; an attack that rises confirms the motion.
ModeSample(r, reading) ==
  LET dir     == Numpad(reading.cards)
      dirs    == IF dir # r.dirLast /\ dir # Neutral THEN Append(r.dirs, dir) ELSE r.dirs
      attacks == reading.buttons \cap Attacks
      rose    == attacks \ r.attackDown
      r1      == [r EXCEPT !.dirLast = dir, !.dirs = dirs, !.attackDown = attacks]
  IN  IF rose = {} THEN {r1}
      ELSE {[DeliverMotion(r1, dirs, Some(b)) EXCEPT !.dirs = << >>] : b \in rose}

\* Mutant: a sample behind a dialog is dropped.
ModalSampleDropped(r, reading) == r

\* While a dialog is open the sample only moves the references along.
ModalSample(r, reading) ==
  SeedNow([r EXCEPT !.prefixDown = reading.prefix,
                    !.dirLast = Numpad(reading.cards),
                    !.attackDown = reading.buttons \cap Attacks], reading)

TogglePrefix(r, reading) ==
  LET r1 == [r EXCEPT !.prefixDown = reading.prefix]
  IN  IF ~reading.prefix \/ r.prefixDown THEN r1
      ELSE IF r.shortcut THEN LeaveShortcut(r1)
      ELSE [r1 EXCEPT !.shortcut = TRUE, !.followDown = FollowUps(reading)]

\* The outcomes of a sample: which of several buttons that rise at once comes first is open.
HandleSources(r0, late) ==
  LET reading == MergeReadings(r0.padRes, r0.keyRes)
      r       == [r0 EXCEPT !.last = Some(reading)]
      r1      == TogglePrefix(r, reading)
  IN  IF modal # {} THEN {ModalSample(r, reading)}
      ELSE IF r1.shortcut THEN ShortcutSample(r1, reading)
      ELSE IF r1.mode THEN ModeSample(r1, reading)
      ELSE {PushResult(r1, reading, late)}

-----------------------------------------------------------------------------
(* Which presses were taken, for the properties: `known` are the inputs    *)
(* that are down and were part of a sample.  A button that rises is        *)
(* covered if some press of it is not known yet.                           *)

PadReading(r, pad) ==
  IF r.profile = NoProfile THEN Unresolved ELSE Reading({Target[r.profile][i] : i \in pad})

Pressed(r, w, button) ==
  {i \in w.pad : r.profile # NoProfile /\ Target[r.profile][i] = button}
    \cup {k \in w.keys \cap MoveKeys : KeyTarget[k] = button}

\* What a sample takes as pressed anew, and as what: a step, an operation or a motion.
Taken(r0) ==
  LET reading == MergeReadings(r0.padRes, r0.keyRes)
      r1      == TogglePrefix([r0 EXCEPT !.last = Some(reading)], reading)
      Nothing == [as |-> "nothing", buttons |-> {}]
  IN  IF modal # {} THEN Nothing
      ELSE IF r1.shortcut
        THEN [as |-> "operation", buttons |-> FollowUps(reading) \ r1.followDown]
      ELSE IF r1.mode
        THEN [as |-> "motion", buttons |-> (reading.buttons \cap Attacks) \ r1.attackDown]
      ELSE IF r1.seedNext THEN Nothing
      ELSE [as |-> "step", buttons |-> reading.buttons \ r1.held]

\* The inputs that are down and belong to what a sample was made of.
Sampled(r, w) == (IF r.padRes.ok THEN w.pad ELSE {}) \cup (r.codes \cap w.keys)

\* `reread` says that the pad was registered anew since it was read last.
Account(r, w) ==
  LET taken == Taken(r)
      again == {b \in taken.buttons : Pressed(r, w, b) \subseteq w.known}
      Only(inputs) == \A b \in again : Pressed(r, w, b) \subseteq inputs
      why == IF Only(w.forgotten) THEN "after_reset"
             ELSE IF w.reread /\ Only(w.forgotten \cup w.pad) THEN "after_registration"
             ELSE taken.as
  IN  [w EXCEPT !.known = Sampled(r, w),
                !.reread = @ /\ <<r.snap, r.padRes>> # <<Some(w.pad), PadReading(r, w.pad)>>,
                !.again = IF again = {} THEN @ ELSE @ \cup {why}]

Sample(r, w) ==
  /\ \E late \in BOOLEAN : (late => r.pending # None) /\ s' \in HandleSources(r, late)
  /\ world' = Account(r, w)
  /\ UNCHANGED <<shown, modal>>

-----------------------------------------------------------------------------
(* Devices.                                                                *)

CanPress(w) == w.presses < MaxPresses

\* One frame: a pad becomes active with its first input, and only a change is a sample.  The
\* snapshot is state: the registration that belongs to it is known after the next render.
PadTick(pad) ==
  LET pressed == pad \ world.pad
      w == [world EXCEPT !.pad = pad, !.presses = @ + Cardinality(pressed),
                         !.known = @ \ (world.pad \ pad), !.forgotten = @ \ (world.pad \ pad)]
      r == [s EXCEPT !.active = TRUE, !.status = "connected", !.snap = Some(pad),
                     !.showsPad = TRUE, !.padRes = PadReading(s, pad)]
  IN  /\ world.plugged /\ shown.enabled
      /\ pad # world.pad \/ ~s.active
      /\ pressed = {} \/ w.presses <= MaxPresses
      /\ s.active \/ pad # {}
      /\ IF s.snap = Some(pad)
           THEN s' = [s EXCEPT !.active = TRUE, !.status = "connected"] /\ world' = w
                /\ UNCHANGED <<shown, modal>>
           ELSE Sample(r, w)

\* The input of a pad that nobody polls, or the release before a pad is active.
PadUnread(pad) ==
  /\ world.plugged /\ pad # world.pad
  /\ ~shown.enabled \/ (~s.active /\ pad = {})
  /\ world.presses + Cardinality(pad \ world.pad) <= MaxPresses
  /\ world' = [world EXCEPT !.pad = pad, !.known = @ \cap (pad \cup Keys),
                             !.forgotten = @ \cap (pad \cup Keys),
                             !.presses = @ + Cardinality(pad \ world.pad)]
  /\ UNCHANGED <<s, shown, modal>>

Turn(w) == [w EXCEPT !.turns = @ + 1]
CanTurn == world.turns < MaxTurns

Plug ==
  /\ ~world.plugged /\ CanTurn
  /\ world' = [Turn(world) EXCEPT !.plugged = TRUE]
  /\ UNCHANGED <<s, shown, modal>>

\* The frame that finds no pad also forgets the last snapshot; the browser's event does not.
Unplug(byEvent) ==
  /\ world.plugged
  /\ world' = [world EXCEPT !.plugged = FALSE, !.pad = {}, !.known = @ \cap Keys,
                             !.forgotten = @ \cap Keys]
  /\ s' = IF ~s.active \/ ~shown.enabled THEN s
          ELSE [s EXCEPT !.active = FALSE, !.showsPad = FALSE, !.status = "disconnected",
                         !.snap = IF byEvent THEN @ ELSE None]
  /\ UNCHANGED <<shown, modal>>

\* The bindings are those of the last render; without any, the keyboard says nothing.
KeyReading(codes) ==
  IF shown.registered THEN Reading({KeyTarget[c] : c \in codes}) ELSE Unresolved

\* Keys are read while some surface is registered and no binding dialog captures them, unless
\* a text field has the focus.  A key of an operation acts at once, without prefix or window.
KeyDown(k) ==
  LET w == [world EXCEPT !.keys = @ \cup {k}, !.presses = @ + 1]
      r == [s EXCEPT !.codes = @ \cup {k},
                     !.keyRes = KeyReading(s.codes \cup {k})]
  IN  /\ k \notin world.keys /\ CanPress(world) /\ shown.listening /\ shown.registered
      /\ IF k \in ActionKeys
           THEN s' = DispatchAction(s, KeyTarget[k]) /\ world' = w /\ UNCHANGED <<shown, modal>>
           ELSE Sample(r, w)

KeyUnread(k) ==
  /\ k \notin world.keys /\ CanPress(world)
  /\ world' = [world EXCEPT !.keys = @ \cup {k}, !.presses = @ + 1]
  /\ UNCHANGED <<s, shown, modal>>

KeyUp(k) ==
  LET w == [world EXCEPT !.keys = @ \ {k}, !.known = @ \ {k}, !.forgotten = @ \ {k}]
      r == [s EXCEPT !.codes = @ \ {k},
                     !.keyRes = KeyReading(s.codes \ {k})]
  IN  /\ k \in world.keys
      /\ IF shown.listening /\ k \in s.codes THEN Sample(r, w)
         ELSE world' = w /\ UNCHANGED <<s, shown, modal>>

\* The window loses the focus or is hidden: every key counts as released.
Blur ==
  /\ shown.listening /\ s.codes # {}
  /\ Sample([s EXCEPT !.codes = {}, !.keyRes = KeyReading({})], world)

FlushTimer ==
  /\ s.pending # None
  /\ s' = FlushWindow(s)
  /\ UNCHANGED <<shown, modal, world>>

ShortcutTimeout ==
  /\ s.shortcut
  /\ s' = LeaveShortcut(s)
  /\ UNCHANGED <<shown, modal, world>>

-----------------------------------------------------------------------------
(* Rendering.  Commit shows the state and runs the clean-ups, then the      *)
(* effects of the surfaces, then those of the provider.                    *)

FreshFace == [steps |-> 0, note |-> "none", read |-> "none", rush |-> FALSE, saving |-> FALSE]

HasPadInput(r) == r.status = "connected" \/ r.registered

Rendered(r) ==
  [mounted   |-> r.mounted,  face    |-> r.face,    index   |-> r.index,
   mode      |-> r.mode,     shortcut |-> r.shortcut, status |-> r.status,
   registered |-> r.registered,
   enabled   |-> r.surfaces # {},
   listening |-> r.surfaces # {} /\ ~r.capturing,
   profile   |-> IF r.showsPad THEN world.stored ELSE NoProfile,
   steps     |-> r.steps # << >>]

\* unregisterSurface: the next registered surface takes over from an owner that leaves.
Unregister(r, gone) ==
  LET left == r.surfaces \ gone
      eldest == CHOOSE f \in left : \A g \in left : <<g, f>> \notin r.before
  IN  [r EXCEPT !.surfaces = left, !.handlers = @ \ gone,
                !.before = {p \in @ : p[1] \in left /\ p[2] \in left},
                !.uiOwner = IF @ \notin gone THEN @
                            ELSE IF left = {} THEN NoSurface ELSE eldest,
                !.face = [f \in Surfaces |-> IF f \in gone THEN FreshFace ELSE @[f]]]

\* Taking the listeners away forgets the held keys without telling the provider.
CleanUp(r, now) ==
  LET r1 == Unregister(r, shown.mounted \ now.mounted)
      r2 == IF shown.listening /\ ~now.listening THEN [r1 EXCEPT !.codes = {}] ELSE r1
  IN  IF shown.enabled /\ ~now.enabled THEN [r2 EXCEPT !.active = FALSE, !.snap = None] ELSE r2

Register(r, new) ==
  IF new = {} THEN r
  ELSE LET f == CHOOSE x \in new : TRUE
       IN  [r EXCEPT !.surfaces = @ \cup {f}, !.handlers = @ \cup {f},
                     !.before = @ \cup (r.surfaces \X {f}),
                     !.uiOwner = IF @ = NoSurface THEN f ELSE @]

\* A mode without a table of commands is folded; what was read is cleared when no device is left.
SurfaceEffects(r, now) ==
  LET r1    == Register(r, now.mounted \ shown.mounted)
      fold  == now.mode /\ \E f \in now.mounted : ~now.index[f]
      r2    == IF fold THEN SetCommandMode(r1, FALSE) ELSE r1
      Clear(face) ==
        IF ~HasPadInput(now) THEN [face EXCEPT !.note = "none", !.read = "none"]
        ELSE IF now.shortcut /\ ~shown.shortcut THEN [face EXCEPT !.note = "none"] ELSE face
  IN  [r2 EXCEPT !.face = [f \in Surfaces |-> IF f \in now.mounted THEN Clear(@[f]) ELSE @[f]]]

\* A registration that replaces another one seeds the next sample; the first one does not.
ProfileEffect(r, now) ==
  IF now.profile = shown.profile THEN r
  ELSE [r EXCEPT !.seedNext = @ \/ r.profile # NoProfile, !.profile = now.profile]

\* Without pad, or without surface, everything is forgotten that was observed.
Reset(r) ==
  SetCommandMode(LeaveShortcut(
    [r EXCEPT !.padRes = Unresolved, !.held = {}, !.pending = None, !.seedNext = FALSE,
              !.steps = << >>, !.marked = FALSE, !.prefixDown = FALSE, !.last = None]), FALSE)

LostPad(now) ==
  /\ <<now.status, now.enabled>> # <<shown.status, shown.enabled>>
  /\ ~(now.status = "connected" /\ now.enabled)

DisconnectEffect(r, now) ==
  IF ~LostPad(now) THEN r
  ELSE Reset([r EXCEPT !.keyRes = IF now.enabled THEN @ ELSE Unresolved])

RegisteredEffect(r, now) ==
  IF shown.registered /\ ~now.registered THEN [r EXCEPT !.keyRes = Unresolved] ELSE r

\* Steps in front of the one delivered last are new.  Without a mark all of them are.
Fresh(steps, marked) ==
  IF ~marked THEN steps ELSE SelectSeq(steps, LAMBDA e : e.new)

\* `rendered` are the steps of this render, newest first; the oldest is handed over first.  The
\* surface appends each to the recipe of its own render, so that of several only one stays.
DeliverEffect(r, rendered) ==
  LET fresh   == Fresh(rendered, r.marked)
      result  == [i \in DOMAIN fresh |-> ResolveStep(fresh[i].step, Moves, shown.face[r.owner].rush)]
      added   == IF \E i \in DOMAIN fresh : result[i] = "added" THEN 1 ELSE 0
      changed == (\E i \in DOMAIN rendered : rendered[i].new) \/ (rendered = << >> /\ shown.steps)
      r1      == [r EXCEPT !.marked = rendered # << >>,
                           !.steps = [i \in DOMAIN @ |-> [@[i] EXCEPT !.new = FALSE]]]
  IN  IF ~changed THEN r
      ELSE IF fresh = << >> \/ ~HasHandler(r) THEN r1
      ELSE [r1 EXCEPT !.face[r.owner].steps = IF @ + added <= MaxSteps THEN @ + added ELSE MaxSteps,
                      !.face[r.owner].read = result[1]]

ProviderEffects(r, now) ==
  LET r1 == DisconnectEffect(ProfileEffect(r, now), now)
      r2 == [RegisteredEffect(r1, now) EXCEPT !.owner = s.uiOwner]
  IN  DeliverEffect(r2, s.steps)

Commit ==
  LET now == Rendered(s)
  IN  /\ now # shown \/ s.owner # s.uiOwner \/ \E i \in DOMAIN s.steps : s.steps[i].new
      /\ s' = ProviderEffects(SurfaceEffects(CleanUp(s, now), now), now)
      /\ shown' = now
      /\ world' = [world EXCEPT !.forgotten = IF LostPad(now) THEN @ \cup world.known ELSE @,
                                 !.reread = @ \/ now.profile # shown.profile]
      /\ UNCHANGED modal

-----------------------------------------------------------------------------
(* Pages and dialogs.                                                      *)

Page(r) == s' = r /\ CanTurn /\ world' = Turn(world) /\ UNCHANGED <<shown, modal>>

Mount(f)   == f \notin s.mounted /\ s.mounted = shown.mounted
              /\ Page([s EXCEPT !.mounted = @ \cup {f}])
Unmount(f) == f \in s.mounted /\ Page([s EXCEPT !.mounted = @ \ {f}])

Claim(f) == f \in shown.mounted /\ s.uiOwner # f /\ Page([s EXCEPT !.uiOwner = f])

\* Another character: its commands may be none.
ChangeCharacter(f) == f \in s.mounted /\ Page([s EXCEPT !.index[f] = ~@])

ToggleRush(f) == f \in s.mounted /\ Page([s EXCEPT !.face[f].rush = ~@])

SaveSettles(f) ==
  /\ s.face[f].saving
  /\ s' = [s EXCEPT !.face[f].saving = FALSE]
  /\ UNCHANGED <<shown, modal, world>>

\* An opening dialog drops the shortcut and takes what is held as known, in the same turn.
OpenDialog(d) ==
  LET r == LeaveShortcut(s)
      r1 == IF modal = {} THEN (IF r.last # None THEN SeedNow(r, Last(r)) ELSE r) ELSE s
  IN  /\ d \notin modal /\ shown.mounted # {}
      /\ CanTurn /\ world' = Turn(world)
      /\ modal' = modal \cup {d}
      /\ s' = IF d = "binding" THEN [r1 EXCEPT !.capturing = TRUE] ELSE r1
      /\ UNCHANGED shown

\* A dialog is closed by a click that comes after what it stored was rendered.
CloseDialog(d) ==
  /\ d \in modal
  /\ Rendered(s).profile = shown.profile /\ s.registered = shown.registered
  /\ modal' = modal \ {d}
  /\ s' = IF d = "binding" THEN [s EXCEPT !.capturing = FALSE] ELSE s
  /\ UNCHANGED <<shown, world>>

\* The registrations of both devices change inside their dialogs only.
StoreProfile(p) ==
  /\ modal # {} /\ world.stored # p /\ CanTurn
  /\ world' = [Turn(world) EXCEPT !.stored = p]
  /\ UNCHANGED <<s, shown, modal>>

StoreKeys(on) ==
  /\ "binding" \in modal /\ s.registered # on
  /\ Page([s EXCEPT !.registered = on])

-----------------------------------------------------------------------------
Init ==
  /\ s = [padRes |-> Unresolved, keyRes |-> Unresolved, last |-> None,
          held |-> {}, pending |-> None, seedNext |-> FALSE, steps |-> << >>, marked |-> FALSE,
          shortcut |-> FALSE, prefixDown |-> FALSE, followDown |-> {},
          mode |-> FALSE, dirs |-> << >>, dirLast |-> Neutral, attackDown |-> {},
          owner |-> NoSurface, uiOwner |-> NoSurface, surfaces |-> {}, before |-> {}, handlers |-> {},
          profile |-> NoProfile, active |-> FALSE, snap |-> None, showsPad |-> FALSE,
          status |-> "idle", codes |-> {}, registered |-> TRUE, capturing |-> FALSE,
          mounted |-> {}, index |-> [f \in Surfaces |-> TRUE],
          face |-> [f \in Surfaces |-> FreshFace]]
  /\ world \in [pad : {{}}, keys : {{}}, plugged : {FALSE},
                 stored : Profiles \cup {NoProfile}, known : {{}}, forgotten : {{}}, reread : {FALSE},
                 again : {{}}, presses : {0}, turns : {0}]
  /\ shown = Rendered(s)
  /\ modal = {}

Next ==
  \/ \E pad \in SUBSET PadInputs : PadTick(pad) \/ PadUnread(pad)
  \/ Plug \/ \E byEvent \in BOOLEAN : Unplug(byEvent)
  \/ \E k \in Keys : KeyDown(k) \/ KeyUnread(k) \/ KeyUp(k)
  \/ Blur \/ FlushTimer \/ ShortcutTimeout \/ Commit
  \/ \E f \in Surfaces : \/ Mount(f) \/ Unmount(f) \/ Claim(f)
                          \/ ChangeCharacter(f) \/ ToggleRush(f) \/ SaveSettles(f)
  \/ \E d \in Dialogs : OpenDialog(d) \/ CloseDialog(d)
  \/ \E p \in Profiles \cup {NoProfile} : StoreProfile(p)
  \/ \E on \in BOOLEAN : StoreKeys(on)

Spec == Init /\ [][Next]_vars

-----------------------------------------------------------------------------
(* Properties.                                                             *)

\* A press that a sample has seen is not taken again as a step or as an operation, through the
\* shortcut, the command mode, dialogs and a change of registration (leaveShortcut,
\* setCommandModeActive, the modal effect and setProfile all seed what is held).  Two are left
\* out: what was forgotten when the pad went away, and what is held while the pad is registered
\* anew, since a dialog or a key spends the seed of setProfile before the pad is read again.
PressTakenOnce == {"step", "operation"} \cap world.again = {}

\* What counts as held is what the last sample said, whenever a sample can become a step: no way
\* out of the shortcut, the mode, a dialog or a disconnection leaves the detection behind.
HeldInSync ==
  ~s.shortcut /\ ~s.mode => s.held = IF s.last = None THEN {} ELSE Last(s).buttons

Settled == Rendered(s) = shown /\ s.owner = s.uiOwner

\* Once everything is rendered, the command mode is on only while a surface is mounted and every
\* mounted surface has commands: unmounting, another character and a lost pad all fold it.
ModeHasTable ==
  Settled /\ s.mode => shown.mounted # {} /\ \A f \in shown.mounted : shown.index[f]

\* The detection and the command mode agree with the devices and the page.
InputInSync == HeldInSync /\ ModeHasTable
=============================================================================
