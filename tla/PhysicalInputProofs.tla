------------------------ MODULE PhysicalInputProofs ------------------------
(***************************************************************************)
(* That a press is taken once, and that the detection and the command mode *)
(* stay in step with the devices and the page, for all constants.          *)
(*                                                                         *)
(* The records of PhysicalInput have many fields and its steps are made of *)
(* small functions on them.  For each function a lemma says which fields   *)
(* it may change (Keeps) and what it does to those that matter.  A step is *)
(* then proved from these frames.  The invariant is in four parts:         *)
(*   Sync       what counts as held is what was read last, or the shortcut *)
(*              or the mode stands between;                                *)
(*   PadRead,   what each device said last holds what is down on it, so    *)
(*   KeysRead   that a reading never loses an input without its release;   *)
(*   Kept       an input that a sample has seen is in the last reading;    *)
(*   Dialogged, which keys are heard, and where the mode may stand, by     *)
(*   Mounted    what was rendered last.                                    *)
(* With Kept and Sync an input that was seen cannot rise again.            *)
(***************************************************************************)
EXTENDS PhysicalInput, TLAPS

Fields == {"padRes", "keyRes", "last", "held", "pending", "seedNext", "steps", "marked",
           "shortcut", "prefixDown", "followDown", "mode", "dirs", "dirLast", "attackDown",
           "owner", "uiOwner", "surfaces", "before", "handlers", "profile", "active", "snap", "showsPad",
           "status", "codes", "registered", "capturing", "mounted", "index", "face"}

\* q is r in all fields but these.
Keeps(q, r, changed) == DOMAIN q = Fields /\ \A f \in Fields \ changed : q[f] = r[f]

Window == {"held", "pending", "seedNext"}
Mode   == Window \cup {"mode", "attackDown", "dirLast", "dirs", "face"}

LEMMA Seeds ==
  ASSUME NEW r, NEW reading, DOMAIN r = Fields
  PROVE  Keeps(SeedNow(r, reading), r, Window) /\ SeedNow(r, reading).held = reading.buttons
BY DEF SeedNow, Keeps, Window, Fields

LEMMA Flushes == ASSUME NEW r, DOMAIN r = Fields PROVE Keeps(FlushWindow(r), r, {"steps", "pending"})
BY DEF FlushWindow, Emit, Keeps, Fields

LEMMA Pushes ==
  ASSUME NEW r, NEW reading, NEW late, DOMAIN r = Fields
  PROVE  LET q == PushResult(r, reading, late)
         IN  Keeps(q, r, Window \cup {"steps"}) /\ q.held = reading.buttons
<1> DEFINE closed == IF r.pending # None /\ late THEN FlushWindow(r) ELSE r
<1>1. Keeps(closed, r, {"steps", "pending"})
  BY Flushes DEF Keeps
<1> DEFINE rising == reading.buttons \ r.held
           before == IF closed.pending # None THEN closed.pending[1] ELSE [buttons |-> {}, dir |-> Neutral]
           dir    == Numpad(reading.cards)
           window == [buttons |-> before.buttons \cup rising, dir |-> IF dir # Neutral THEN dir ELSE before.dir]
           opened == IF window.buttons = {} THEN None ELSE Some(window)
<1>2. PushSample(r, reading, late) = [closed EXCEPT !.held = reading.buttons, !.pending = opened]
  BY DEF PushSample
<1> HIDE DEF opened, window, dir, before, rising
<1>3. CASE r.seedNext
  BY <1>3, Seeds DEF PushResult, Keeps, Window
<1>4. CASE ~r.seedNext
  <2> HIDE DEF closed
  <2> DEFINE q == PushResult(r, reading, late)
  <2>1. q = [closed EXCEPT !.held = reading.buttons, !.pending = opened]
    BY <1>2, <1>4 DEF PushResult
  <2> HIDE DEF q
  <2>2. Keeps(q, closed, {"held", "pending"}) /\ q.held = reading.buttons
    BY <1>1, <2>1 DEF Keeps, Fields
  <2>3. Keeps(q, r, Window \cup {"steps"})
    BY <1>1, <2>2 DEF Keeps, Window
  <2>4. QED
    BY <2>2, <2>3 DEF q
<1>5. QED
  BY <1>3, <1>4

LEMMA Reads == ASSUME NEW r, NEW why, DOMAIN r = Fields PROVE Keeps(Readout(r, why), r, {"face"})
BY DEF Readout, Keeps, Fields

LEMMA Motions == ASSUME NEW r, NEW dirs, NEW button, DOMAIN r = Fields
  PROVE Keeps(DeliverMotion(r, dirs, button), r, {"face"})
<1>1. DeliverMotion(r, dirs, button) = r \/ \E why : DeliverMotion(r, dirs, button) = Readout(r, why)
  BY DEF DeliverMotion
<1>2. QED
  BY <1>1, Reads DEF Keeps

LEMMA Modes ==
  ASSUME NEW r, NEW on, DOMAIN r = Fields
  PROVE  LET q == SetCommandMode(r, on)
         IN  /\ Keeps(q, r, Mode) /\ q.mode = on
             /\ q.held = IF r.mode # on /\ r.last # None THEN Last(r).buttons ELSE r.held
<1>1. CASE r.mode = on
  BY <1>1 DEF SetCommandMode, Keeps
<1>2. CASE r.mode # on
  <2> DEFINE held == r.last # None /\ on
             r1 == [r EXCEPT !.mode = on,
                           !.attackDown = IF held THEN Last(r).buttons \cap Attacks ELSE {},
                           !.dirLast = IF held THEN Numpad(Last(r).cards) ELSE Neutral]
             r2 == IF ~on /\ r.dirs # << >> THEN DeliverMotion(r1, r.dirs, None) ELSE r1
             r3 == [r2 EXCEPT !.dirs = << >>]
             q  == SetCommandMode(r, on)
  <2>1. q = IF r.last # None THEN SeedNow(r3, Last(r)) ELSE r3
    BY <1>2 DEF SetCommandMode
  <2>2. Keeps(r1, r, {"mode", "attackDown", "dirLast"}) /\ r1.mode = on
    BY DEF Keeps, Fields
  <2> HIDE DEF r1
  <2>3. Keeps(r2, r1, {"face"})
    BY <2>2, Motions DEF Keeps
  <2> HIDE DEF r2
  <2>4. Keeps(r3, r2, {"dirs"})
    BY <2>3 DEF Keeps, Fields
  <2> HIDE DEF r3, q
  <2>5. Keeps(r3, r, {"mode", "attackDown", "dirLast", "face", "dirs"})
    BY <2>2, <2>3, <2>4 DEF Keeps
  <2>6. r3.mode = on /\ r3.held = r.held
    BY <2>2, <2>3, <2>4 DEF Keeps, Fields
  <2>7. CASE r.last # None
    <3>1. Keeps(q, r3, Window) /\ q.held = Last(r).buttons
      BY <2>1, <2>5, <2>7, Seeds DEF Keeps
    <3>2. q.mode = on
      BY <3>1, <2>6 DEF Keeps, Window, Fields
    <3>3. Keeps(q, r, Mode)
      BY <3>1, <2>5 DEF Keeps, Mode
    <3>4. QED
      BY <3>1, <3>2, <3>3, <2>7, <1>2 DEF q
  <2>8. CASE r.last = None
    <3>1. Keeps(r3, r, Mode)
      BY <2>5 DEF Keeps, Mode
    <3>2. QED
      BY <3>1, <2>1, <2>6, <2>8 DEF q
  <2>9. QED
    BY <2>7, <2>8
<1>3. QED
  BY <1>1, <1>2

\* What an operation may have done to what is held.
Turned(q, r) ==
  /\ Keeps(q, r, Mode)
  /\ q.held = r.held \/ (r.last # None /\ q.held = Last(r).buttons)
  /\ q.mode = r.mode \/ q.mode = ~shown.mode
  /\ q.mode # r.mode /\ r.last # None => q.held = Last(r).buttons

LEMMA Handles ==
  ASSUME NEW r, NEW action \in Actions, DOMAIN r = Fields
  PROVE  Turned(HandleAction(r, action), r)
<1> DEFINE q == HandleAction(r, action)
           m == SetCommandMode(r, ~shown.mode)
           n == [r EXCEPT !.face[r.owner].steps = IF @ > 0 THEN @ - 1 ELSE 0]
           v == [r EXCEPT !.face[r.owner].saving = TRUE]
<1>1. \E note, r1 : /\ r1 = r \/ r1 = m \/ r1 = n \/ r1 = v
                    /\ q = [r1 EXCEPT !.face[r.owner].note = note]
  BY DEF HandleAction, Actions
<1>2. PICK note, r1 : /\ r1 = r \/ r1 = m \/ r1 = n \/ r1 = v
                      /\ q = [r1 EXCEPT !.face[r.owner].note = note]
  BY <1>1
<1>3. Turned(m, r)
  BY Modes DEF Turned
<1>4. Turned(n, r) /\ Turned(v, r) /\ Turned(r, r)
  BY DEF Turned, Keeps, Mode, Window, Fields
<1> HIDE DEF m, n, v, q
<1>5. Turned(r1, r)
  BY <1>2, <1>3, <1>4
<1>6. Keeps(q, r1, {"face"})
  BY <1>2, <1>5 DEF Turned, Keeps, Fields
<1>7. q.held = r1.held /\ q.mode = r1.mode
  BY <1>6 DEF Keeps, Fields
<1>8. Keeps(q, r, Mode)
  BY <1>5, <1>6 DEF Turned, Keeps, Mode
<1>9. QED
  BY <1>5, <1>7, <1>8 DEF Turned, q

LEMMA Dispatches ==
  ASSUME NEW r, NEW action \in Actions, DOMAIN r = Fields
  PROVE  /\ Turned(DispatchAction(r, action), r)
         /\ DispatchAction(r, action) = r \/ HasHandler(r)
<1>1. Turned(r, r)
  BY DEF Turned, Keeps
<1>2. QED
  BY <1>1, Handles DEF DispatchAction

LEMMA Leaves ==
  ASSUME NEW r, DOMAIN r = Fields, r.shortcut \in BOOLEAN
  PROVE  LET q == LeaveShortcut(r)
         IN  /\ Keeps(q, r, Window \cup {"shortcut", "followDown"}) /\ q.shortcut = FALSE
             /\ q.held = IF r.shortcut /\ r.last # None THEN Last(r).buttons ELSE r.held
<1> DEFINE q  == LeaveShortcut(r)
           r1 == [r EXCEPT !.shortcut = FALSE, !.followDown = {}]
<1>1. CASE ~r.shortcut
  BY <1>1 DEF LeaveShortcut, Keeps
<1>2. CASE r.shortcut
  <2>1. q = IF r.last # None THEN SeedNow(r1, Last(r)) ELSE r1
    BY <1>2 DEF LeaveShortcut
  <2>2. Keeps(r1, r, {"shortcut", "followDown"}) /\ r1.shortcut = FALSE /\ r1.held = r.held
    BY DEF Keeps, Fields
  <2> HIDE DEF r1, q
  <2>3. CASE r.last # None
    <3>1. Keeps(q, r1, Window) /\ q.held = Last(r).buttons
      BY <2>1, <2>2, <2>3, Seeds DEF Keeps
    <3>2. q.shortcut = FALSE
      BY <3>1, <2>2 DEF Keeps, Window, Fields
    <3>3. Keeps(q, r, Window \cup {"shortcut", "followDown"})
      BY <3>1, <2>2 DEF Keeps
    <3>4. QED
      BY <3>1, <3>2, <3>3, <2>3, <1>2 DEF q
  <2>4. CASE r.last = None
    <3>1. Keeps(r1, r, Window \cup {"shortcut", "followDown"})
      BY <2>2 DEF Keeps
    <3>2. QED
      BY <3>1, <2>1, <2>2, <2>4 DEF q
  <2>5. QED
    BY <2>3, <2>4
<1>3. QED
  BY <1>1, <1>2

-----------------------------------------------------------------------------
(* A sample leaves what is held in step with what was read.                *)

Sync(r) ==
  /\ r.shortcut \in BOOLEAN /\ r.mode \in BOOLEAN
  /\ r.last = None => r.held = {} /\ ~r.shortcut
  /\ r.shortcut => r.followDown = FollowUps(Last(r))
  /\ ~r.shortcut /\ ~r.mode /\ r.last # None => r.held = Last(r).buttons

Observed == Mode \cup {"last", "prefixDown", "followDown", "shortcut", "steps"}

\* Only a handler of a surface switches the command mode on, and only where it is shown as off.
TurnedOn(q, r) == q.mode => r.mode \/ (~shown.mode /\ HasHandler(r))

LEMMA ActionsOfButtons == \A b : ActionOf(b) \in Actions \cup {NoAction}
BY DEF ActionOf, Actions, NoAction

LEMMA Toggles ==
  ASSUME NEW r, NEW reading, DOMAIN r = Fields, r.shortcut \in BOOLEAN, r.last = Some(reading)
  PROVE  LET q == TogglePrefix(r, reading)
         IN  /\ Keeps(q, r, Window \cup {"prefixDown", "shortcut", "followDown"})
             /\ q.shortcut \in BOOLEAN
             /\ q.shortcut => \/ q.followDown = FollowUps(reading)
                              \/ r.shortcut /\ q.followDown = r.followDown
             /\ ~q.shortcut => q.held = IF r.shortcut THEN reading.buttons ELSE r.held
<1> DEFINE q == TogglePrefix(r, reading)
           r1 == [r EXCEPT !.prefixDown = reading.prefix]
<1>1. Keeps(r1, r, {"prefixDown"})
  BY DEF Keeps, Fields
<1>2. r1.shortcut = r.shortcut /\ r1.followDown = r.followDown /\ r1.held = r.held /\ r1.last = r.last
  BY <1>1 DEF Keeps, Fields
<1>3. Last(r) = reading /\ r.last # None
  BY DEF Last, Some, None
<1>4. CASE ~reading.prefix \/ r.prefixDown
  <2>1. q = r1
    BY <1>4 DEF TogglePrefix
  <2> HIDE DEF r1, q
  <2>2. Keeps(q, r, Window \cup {"prefixDown", "shortcut", "followDown"})
    BY <1>1, <2>1 DEF Keeps
  <2>3. QED
    BY <1>2, <2>1, <2>2 DEF q
<1>5. CASE reading.prefix /\ ~r.prefixDown /\ r.shortcut
  <2>1. q = LeaveShortcut(r1)
    BY <1>5 DEF TogglePrefix
  <2> HIDE DEF r1, q
  <2>2. /\ Keeps(q, r1, Window \cup {"shortcut", "followDown"}) /\ q.shortcut = FALSE
        /\ q.held = Last(r1).buttons
    BY <1>1, <1>2, <1>3, <1>5, <2>1, Leaves DEF Keeps
  <2>3. Last(r1) = reading
    BY <1>2, <1>3 DEF Last
  <2>4. Keeps(q, r, Window \cup {"prefixDown", "shortcut", "followDown"})
    BY <1>1, <2>2 DEF Keeps
  <2>5. QED
    BY <1>5, <2>2, <2>3, <2>4 DEF q
<1>6. CASE reading.prefix /\ ~r.prefixDown /\ ~r.shortcut
  <2>1. q = [r1 EXCEPT !.shortcut = TRUE, !.followDown = FollowUps(reading)]
    BY <1>6 DEF TogglePrefix
  <2> HIDE DEF r1, q
  <2>2. /\ Keeps(q, r1, {"shortcut", "followDown"}) /\ q.shortcut = TRUE
        /\ q.followDown = FollowUps(reading)
    BY <1>1, <2>1 DEF Keeps, Fields
  <2>3. Keeps(q, r, Window \cup {"prefixDown", "shortcut", "followDown"})
    BY <1>1, <2>2 DEF Keeps
  <2>4. QED
    BY <2>2, <2>3 DEF q
<1>7. QED
  BY <1>4, <1>5, <1>6

LEMMA Samples ==
  ASSUME NEW r0, NEW late, NEW q \in HandleSources(r0, late), DOMAIN r0 = Fields, Sync(r0),
         modal # {} => ~r0.shortcut, shown.mode \in BOOLEAN
  PROVE  /\ Keeps(q, r0, Observed) /\ Sync(q) /\ q.last = Some(MergeReadings(r0.padRes, r0.keyRes))
         /\ modal # {} => ~q.shortcut
         /\ TurnedOn(q, r0)
<1> DEFINE reading == MergeReadings(r0.padRes, r0.keyRes)
           r  == [r0 EXCEPT !.last = Some(reading)]
           r1 == TogglePrefix(r, reading)
<1>1. q \in IF modal # {} THEN {ModalSample(r, reading)}
            ELSE IF r1.shortcut THEN ShortcutSample(r1, reading)
            ELSE IF r1.mode THEN ModeSample(r1, reading)
            ELSE {PushResult(r1, reading, late)}
  BY DEF HandleSources
<1> HIDE DEF reading
<1>2. Keeps(r, r0, {"last"}) /\ r.last = Some(reading)
  BY DEF Keeps, Fields
<1> HIDE DEF r
<1>3. /\ r.shortcut = r0.shortcut /\ r.mode = r0.mode /\ r.owner = r0.owner /\ r.handlers = r0.handlers
      /\ r.held = r0.held /\ r.shortcut \in BOOLEAN /\ r.mode \in BOOLEAN
  BY <1>2 DEF Keeps, Fields, Sync
<1>4. \A x : Some(x) # None /\ Some(x)[1] = x
  BY DEF Some, None
<1>5. ASSUME NEW p, p.last = r.last PROVE p.last # None /\ Last(p) = reading
  BY <1>2, <1>4, <1>5 DEF Last
<1>6. CASE modal # {}
  <2> DEFINE m == [r EXCEPT !.prefixDown = reading.prefix,
                            !.dirLast = Numpad(reading.cards),
                            !.attackDown = reading.buttons \cap Attacks]
  <2>1. q = SeedNow(m, reading)
    BY <1>1, <1>6 DEF ModalSample
  <2>2. Keeps(m, r, {"prefixDown", "dirLast", "attackDown"})
    BY <1>2 DEF Keeps, Fields
  <2> HIDE DEF m
  <2>3. Keeps(q, m, Window) /\ q.held = reading.buttons
    BY <2>1, <2>2, Seeds DEF Keeps
  <2>4. q.last = r.last /\ q.shortcut = r.shortcut /\ q.mode = r.mode
    BY <2>2, <2>3 DEF Keeps, Window, Fields
  <2>5. Keeps(q, r0, Observed)
    BY <1>2, <2>2, <2>3 DEF Keeps, Observed, Mode
  <2>6. Sync(q)
    BY <1>3, <1>5, <1>6, <2>3, <2>4 DEF Sync
  <2>7. QED
    BY <1>2, <1>3, <1>6, <2>4, <2>5, <2>6 DEF TurnedOn, reading
<1>7. CASE modal = {}
  <2>1. /\ Keeps(r1, r, Window \cup {"prefixDown", "shortcut", "followDown"})
        /\ r1.shortcut \in BOOLEAN
        /\ ~r1.shortcut => r1.held = IF r.shortcut THEN reading.buttons ELSE r.held
    BY <1>2, <1>3, Toggles DEF Keeps
  <2> HIDE DEF r1
  <2>2. /\ r1.last = r.last /\ r1.mode = r.mode /\ r1.owner = r.owner /\ r1.handlers = r.handlers
    BY <2>1 DEF Keeps, Window, Fields
  <2>3. Keeps(r1, r0, Observed)
    BY <1>2, <2>1 DEF Keeps, Observed, Mode
  <2>4. ASSUME r1.shortcut
        PROVE  Keeps(q, r1, Observed) /\ Sync(q) /\ q.last = r1.last /\ TurnedOn(q, r1)
    <3> DEFINE rose == FollowUps(reading) \ r1.followDown
               r2   == [r1 EXCEPT !.followDown = FollowUps(reading)]
    <3>1. q \in IF rose = {} THEN {r2}
                ELSE {LeaveShortcut(DispatchAction(r2, ActionOf(b))) : b \in rose}
      BY <1>1, <1>7, <2>4 DEF ShortcutSample
    <3>2. Keeps(r2, r1, {"followDown"}) /\ r2.followDown = FollowUps(reading)
      BY <2>1 DEF Keeps, Fields
    <3>3. \A b \in rose : ActionOf(b) \in Actions
      BY ActionsOfButtons DEF FollowUps
    <3> HIDE DEF r2, rose
    <3>4. /\ r2.last = r1.last /\ r2.shortcut = r1.shortcut /\ r2.mode = r1.mode /\ r2.owner = r1.owner
          /\ r2.handlers = r1.handlers
      BY <3>2 DEF Keeps, Fields
    <3>5. CASE q = r2
      <4>1. Keeps(q, r1, Observed)
        BY <3>2, <3>5 DEF Keeps, Observed
      <4>2. Sync(q)
        BY <3>2, <3>4, <3>5, <2>1, <2>2, <2>4, <1>3, <1>5 DEF Sync
      <4>3. QED
        BY <4>1, <4>2, <3>4, <3>5 DEF TurnedOn
    <3>6. ASSUME NEW b \in rose, q = LeaveShortcut(DispatchAction(r2, ActionOf(b)))
          PROVE  Keeps(q, r1, Observed) /\ Sync(q) /\ q.last = r1.last /\ TurnedOn(q, r1)
      <4> DEFINE d == DispatchAction(r2, ActionOf(b))
      <4>1. Turned(d, r2) /\ (d = r2 \/ HasHandler(r2))
        BY <3>2, <3>3, Dispatches DEF Keeps
      <4> HIDE DEF d
      <4>2. d.last = r2.last /\ d.shortcut = r2.shortcut /\ (d.mode = r2.mode \/ d.mode = ~shown.mode)
        BY <4>1 DEF Turned, Keeps, Mode, Window, Fields
      <4>3. d.shortcut \in BOOLEAN /\ d.shortcut /\ d.last # None /\ Last(d) = reading /\ d.mode \in BOOLEAN
        BY <4>2, <3>4, <2>1, <2>2, <2>4, <1>3, <1>5
      <4>4. /\ Keeps(q, d, Window \cup {"shortcut", "followDown"}) /\ q.shortcut = FALSE
            /\ q.held = reading.buttons
        BY <3>6, <4>1, <4>3, Leaves DEF d, Turned, Keeps
      <4>5. q.last = d.last /\ q.mode = d.mode
        BY <4>4 DEF Keeps, Window, Fields
      <4>6. Keeps(q, r1, Observed)
        BY <3>2, <4>1, <4>4 DEF Turned, Keeps, Observed, Mode
      <4>7. Sync(q)
        BY <4>3, <4>4, <4>5, <4>2, <3>4, <2>2, <1>5 DEF Sync
      <4>8. TurnedOn(q, r1)
        BY <4>1, <4>2, <4>3, <4>5, <3>4, <2>2, <1>3 DEF TurnedOn, HasHandler
      <4>9. QED
        BY <4>2, <4>5, <4>6, <4>7, <4>8, <3>4
    <3>7. QED
      BY <3>1, <3>5, <3>6
  <2>5. ASSUME ~r1.shortcut, r1.mode
        PROVE  Keeps(q, r1, Observed) /\ Sync(q) /\ q.last = r1.last /\ TurnedOn(q, r1)
    <3>1. \E r2 : /\ Keeps(r2, r1, {"dirLast", "dirs", "attackDown"})
                  /\ q = r2 \/ \E p : Keeps(p, r2, {"face"}) /\ q = [p EXCEPT !.dirs = << >>]
      <4> DEFINE dir     == Numpad(reading.cards)
                 dirs    == IF dir # r1.dirLast /\ dir # Neutral THEN Append(r1.dirs, dir) ELSE r1.dirs
                 attacks == reading.buttons \cap Attacks
                 rose    == attacks \ r1.attackDown
                 r2      == [r1 EXCEPT !.dirLast = dir, !.dirs = dirs, !.attackDown = attacks]
      <4>1. q \in IF rose = {} THEN {r2}
                  ELSE {[DeliverMotion(r2, dirs, Some(b)) EXCEPT !.dirs = << >>] : b \in rose}
        BY <1>1, <1>7, <2>5 DEF ModeSample
      <4>2. Keeps(r2, r1, {"dirLast", "dirs", "attackDown"})
        BY <2>1 DEF Keeps, Fields
      <4> HIDE DEF r2, dirs, rose
      <4>3. \A b : Keeps(DeliverMotion(r2, dirs, Some(b)), r2, {"face"})
        BY <4>2, Motions DEF Keeps
      <4>4. QED
        BY <4>1, <4>2, <4>3
    <3>2. PICK r2 : /\ Keeps(r2, r1, {"dirLast", "dirs", "attackDown"})
                    /\ q = r2 \/ \E p : Keeps(p, r2, {"face"}) /\ q = [p EXCEPT !.dirs = << >>]
      BY <3>1
    <3>3. Keeps(q, r2, {"face", "dirs"})
      BY <3>2 DEF Keeps, Fields
    <3>4. Keeps(q, r1, {"dirLast", "dirs", "attackDown", "face"})
      BY <3>2, <3>3 DEF Keeps
    <3>5. q.last = r1.last /\ q.mode = r1.mode /\ q.shortcut = r1.shortcut
      BY <3>4 DEF Keeps, Fields
    <3>6. Keeps(q, r1, Observed)
      BY <3>4 DEF Keeps, Observed, Mode
    <3>7. Sync(q)
      BY <3>5, <2>1, <2>2, <2>5, <1>3, <1>5 DEF Sync
    <3>8. QED
      BY <3>5, <3>6, <3>7, <2>5 DEF TurnedOn
  <2>6. ASSUME ~r1.shortcut, ~r1.mode
        PROVE  Keeps(q, r1, Observed) /\ Sync(q) /\ q.last = r1.last /\ TurnedOn(q, r1)
    <3>1. q = PushResult(r1, reading, late)
      BY <1>1, <1>7, <2>6
    <3>2. Keeps(q, r1, Window \cup {"steps"}) /\ q.held = reading.buttons
      BY <2>1, <3>1, Pushes DEF Keeps
    <3>3. q.last = r1.last /\ q.mode = r1.mode /\ q.shortcut = r1.shortcut
      BY <3>2 DEF Keeps, Window, Fields
    <3>4. Keeps(q, r1, Observed)
      BY <3>2 DEF Keeps, Observed, Mode
    <3>5. q.last # None /\ Last(q) = reading
      BY <3>3, <2>2, <1>5
    <3>6. q.held = reading.buttons /\ q.shortcut = FALSE /\ q.mode \in BOOLEAN
      BY <3>2, <3>3, <2>1, <2>2, <2>6, <1>3
    <3>7. Sync(q)
      BY <3>5, <3>6 DEF Sync
    <3>8. QED
      BY <3>3, <3>4, <3>7 DEF TurnedOn
  <2>7. Keeps(q, r1, Observed) /\ Sync(q) /\ q.last = r1.last /\ TurnedOn(q, r1)
    BY <2>4, <2>5, <2>6
  <2>8. Keeps(q, r0, Observed)
    BY <2>3, <2>7 DEF Keeps
  <2>9. TurnedOn(q, r0)
    BY <2>2, <2>7, <1>3 DEF TurnedOn, HasHandler
  <2>10. QED
    BY <2>2, <2>7, <2>8, <2>9, <1>2, <1>7 DEF reading
<1>8. QED
  BY <1>6, <1>7

Buttons == Attacks \cup Macros

WorldFields == {"pad", "keys", "plugged", "stored", "known", "forgotten", "reread", "again",
                "presses", "turns"}

Typed(r, w) ==
  /\ DOMAIN r = Fields /\ DOMAIN w = WorldFields
  /\ w.pad \subseteq PadInputs /\ w.keys \subseteq Keys /\ w.known \subseteq w.pad \cup w.keys
  /\ w.reread \in BOOLEAN
  /\ r.padRes.buttons \subseteq Buttons /\ r.keyRes.buttons \subseteq Buttons

Means(r, i, b) == r.profile # NoProfile /\ Target[r.profile][i] = b

\* What the pad said last holds every button that is down, and would hold it had the last
\* snapshot come again; unless the pad was registered anew since.
PadRead(r, w) ==
  r.padRes.ok /\ ~w.reread =>
    \A b \in Buttons : \A i :
      Means(r, i, b) /\ (i \in w.pad \/ (r.snap # None /\ i \in r.snap[1])) => b \in r.padRes.buttons

\* The keys that are heard are in what the keyboard said last.
KeysRead(r) ==
  /\ r.codes \subseteq MoveKeys
  /\ r.codes # {} => r.keyRes.ok
  /\ \A c \in r.codes : KeyTarget[c] \in Buttons => KeyTarget[c] \in r.keyRes.buttons

\* An input that a sample has seen and that is still down is in the last reading.
Kept(r, w) ==
  \A b \in Buttons : \A i \in Pressed(r, w, b) \cap w.known :
    i \in w.forgotten \/ (w.reread /\ i \in w.pad) \/ (r.last # None /\ b \in Last(r).buttons)

LEMMA MergedHasBoth ==
  ASSUME NEW a, NEW b
  PROVE  LET m == MergeReadings(a, b)
         IN  /\ a.ok => a.buttons \subseteq m.buttons
             /\ b.ok => b.buttons \subseteq m.buttons
             /\ m.buttons \subseteq a.buttons \cup b.buttons
BY DEF MergeReadings

\* What a sample takes is in its reading and not in the one before.
LEMMA TakesWhatRises ==
  ASSUME NEW r0, DOMAIN r0 = Fields, Sync(r0), NEW b \in Taken(r0).buttons,
         Taken(r0).as \in {"step", "operation"}, r0.last # None
  PROVE  /\ b \in MergeReadings(r0.padRes, r0.keyRes).buttons
         /\ b \notin Last(r0).buttons
<1> DEFINE reading == MergeReadings(r0.padRes, r0.keyRes)
           r  == [r0 EXCEPT !.last = Some(reading)]
           r1 == TogglePrefix(r, reading)
           Nothing == [as |-> "nothing", buttons |-> {}]
<1>1. Taken(r0) = IF modal # {} THEN Nothing
      ELSE IF r1.shortcut
        THEN [as |-> "operation", buttons |-> FollowUps(reading) \ r1.followDown]
      ELSE IF r1.mode
        THEN [as |-> "motion", buttons |-> (reading.buttons \cap Attacks) \ r1.attackDown]
      ELSE IF r1.seedNext THEN Nothing
      ELSE [as |-> "step", buttons |-> reading.buttons \ r1.held]
  BY DEF Taken
<1> HIDE DEF reading
<1>2. Keeps(r, r0, {"last"}) /\ r.last = Some(reading)
  BY DEF Keeps, Fields
<1> HIDE DEF r
<1>3. /\ r.shortcut = r0.shortcut /\ r.mode = r0.mode /\ r.held = r0.held /\ r.followDown = r0.followDown
      /\ r.shortcut \in BOOLEAN
  BY <1>2 DEF Keeps, Fields, Sync
<1>4. /\ Keeps(r1, r, Window \cup {"prefixDown", "shortcut", "followDown"})
      /\ r1.shortcut \in BOOLEAN
      /\ r1.shortcut => \/ r1.followDown = FollowUps(reading)
                        \/ r.shortcut /\ r1.followDown = r.followDown
      /\ ~r1.shortcut => r1.held = IF r.shortcut THEN reading.buttons ELSE r.held
  BY <1>2, <1>3, Toggles DEF Keeps
<1> HIDE DEF r1
<1>5. r1.mode = r.mode
  BY <1>4 DEF Keeps, Window, Fields
<1>6. CASE r1.shortcut
  <2>1. b \in FollowUps(reading) /\ b \notin r1.followDown
    BY <1>1, <1>6
  <2>2. b \notin FollowUps(Last(r0))
    BY <2>1, <1>3, <1>4, <1>6 DEF Sync
  <2>3. QED
    BY <2>1, <2>2 DEF FollowUps, reading
<1>7. CASE ~r1.shortcut
  <2>1. b \in reading.buttons /\ b \notin r1.held /\ ~r1.mode
    BY <1>1, <1>7
  <2>2. ~r0.shortcut /\ ~r0.mode /\ b \notin r0.held
    BY <2>1, <1>3, <1>4, <1>5, <1>7
  <2>3. QED
    BY <2>1, <2>2 DEF Sync, reading
<1>8. QED
  BY <1>4, <1>6, <1>7

LEMMA Accounted ==
  ASSUME NEW r, NEW w, DOMAIN w = WorldFields
  PROVE  LET v == Account(r, w)
         IN  /\ DOMAIN v = WorldFields
             /\ v.pad = w.pad /\ v.keys = w.keys /\ v.forgotten = w.forgotten
             /\ v.known = Sampled(r, w)
             /\ v.reread = (w.reread /\ <<r.snap, r.padRes>> # <<Some(w.pad), PadReading(r, w.pad)>>)
<1> DEFINE reread == w.reread /\ <<r.snap, r.padRes>> # <<Some(w.pad), PadReading(r, w.pad)>>
           known  == Sampled(r, w)
<1>1. \E again : Account(r, w) = [w EXCEPT !.known = known, !.reread = reread, !.again = again]
  BY DEF Account
<1> HIDE DEF reread, known
<1>2. QED
  BY <1>1 DEF WorldFields, reread, known

\* A sample that takes an input as a step or an operation has an excuse if it knew the input.
LEMMA TakesOnce ==
  ASSUME NEW r, NEW w, Typed(r, w), Sync(r), Kept(r, w), {"step", "operation"} \cap w.again = {}
  PROVE  {"step", "operation"} \cap Account(r, w).again = {}
<1> DEFINE taken == Taken(r)
           again == {b \in taken.buttons : Pressed(r, w, b) \subseteq w.known}
           Only(inputs) == \A b \in again : Pressed(r, w, b) \subseteq inputs
           why == IF Only(w.forgotten) THEN "after_reset"
             ELSE IF w.reread /\ Only(w.forgotten \cup w.pad) THEN "after_registration"
             ELSE taken.as
           reread == w.reread /\ <<r.snap, r.padRes>> # <<Some(w.pad), PadReading(r, w.pad)>>
           known  == Sampled(r, w)
           all == IF again = {} THEN w.again ELSE w.again \cup {why}
<1>1. Account(r, w) = [w EXCEPT !.known = known, !.reread = reread, !.again = all]
  BY DEF Account
<1> HIDE DEF reread, known, all
<1>2. Account(r, w).again = all
  BY <1>1 DEF Typed, WorldFields
<1>3. ASSUME why \in {"step", "operation"} PROVE FALSE
  <2>1. ~Only(w.forgotten) /\ ~(w.reread /\ Only(w.forgotten \cup w.pad)) /\ taken.as \in {"step", "operation"}
    BY <1>3
  <2>2. \E b \in again : \E i \in Pressed(r, w, b) : i \notin w.forgotten /\ ~(w.reread /\ i \in w.pad)
    <3>1. CASE w.reread
      BY <2>1, <3>1
    <3>2. CASE ~w.reread
      BY <2>1, <3>2
    <3>3. QED
      BY <3>1, <3>2
  <2>3. PICK b \in again : \E i \in Pressed(r, w, b) : i \notin w.forgotten /\ ~(w.reread /\ i \in w.pad)
    BY <2>2
  <2>4. PICK i \in Pressed(r, w, b) : i \notin w.forgotten /\ ~(w.reread /\ i \in w.pad)
    BY <2>3
  <2>5. i \in w.known /\ b \in taken.buttons
    BY <2>3, <2>4
  <2> HIDE DEF again
  <2>6. CASE r.last # None
    <3>1. b \in MergeReadings(r.padRes, r.keyRes).buttons /\ b \notin Last(r).buttons
      BY <2>1, <2>5, <2>6, TakesWhatRises DEF Typed
    <3>2. b \in Buttons
      BY <3>1, MergedHasBoth DEF Typed
    <3>3. QED
      BY <3>1, <3>2, <2>4, <2>5 DEF Kept
  <2>7. CASE r.last = None
    <3>1. ~(b \in Buttons)
      BY <2>4, <2>5, <2>7 DEF Kept
    <3>2. \A x \in taken.buttons : x \in MergeReadings(r.padRes, r.keyRes).buttons
      BY <2>1 DEF Taken, FollowUps
    <3>3. QED
      BY <3>1, <3>2, <2>5, MergedHasBoth DEF Typed
  <2>8. QED
    BY <2>6, <2>7
<1> HIDE DEF why, again
<1>4. QED
  BY <1>2, <1>3 DEF all

InputInv(r, w, dialogs) ==
  /\ Typed(r, w) /\ Sync(r) /\ PadRead(r, w) /\ KeysRead(r) /\ Kept(r, w)
  /\ dialogs # {} => ~r.shortcut
  /\ {"step", "operation"} \cap w.again = {}

\* After a sample everything that was down and heard is in the reading.
LEMMA KeepsSampled ==
  ASSUME InputAssumption, NEW r, NEW w, Typed(r, w), PadRead(r, w), KeysRead(r),
         NEW b \in Buttons, NEW i \in Pressed(r, w, b) \cap Sampled(r, w),
         ~(w.reread /\ <<r.snap, r.padRes>> # <<Some(w.pad), PadReading(r, w.pad)>> /\ i \in w.pad)
  PROVE  b \in MergeReadings(r.padRes, r.keyRes).buttons
<1>1. i \in w.pad \/ (i \in w.keys \cap MoveKeys /\ KeyTarget[i] = b)
  BY DEF Pressed
<1>2. CASE i \in w.pad
  <2>1. i \notin w.keys
    BY <1>2 DEF InputAssumption, Typed
  <2>2. Means(r, i, b) /\ r.padRes.ok
    BY <1>2, <2>1 DEF Pressed, Sampled, Means
  <2>3. CASE ~w.reread
    <3>1. b \in r.padRes.buttons
      BY <1>2, <2>2, <2>3 DEF PadRead
    <3>2. QED
      BY <2>2, <3>1, MergedHasBoth
  <2>4. CASE <<r.snap, r.padRes>> = <<Some(w.pad), PadReading(r, w.pad)>>
    <3>1. r.padRes = Reading({Target[r.profile][j] : j \in w.pad})
      BY <2>2, <2>4 DEF PadReading, Means
    <3>2. b \in {Target[r.profile][j] : j \in w.pad}
      BY <1>2, <2>2 DEF Means
    <3>3. b \in r.padRes.buttons
      BY <3>1, <3>2 DEF Reading, Buttons
    <3>4. QED
      BY <2>2, <3>3, MergedHasBoth
  <2>5. QED
    BY <2>3, <2>4, <1>2 DEF Typed
<1>3. CASE i \notin w.pad
  <2>1. i \in r.codes /\ KeyTarget[i] = b
    BY <1>1, <1>3 DEF Sampled
  <2>2. b \in r.keyRes.buttons /\ r.keyRes.ok
    BY <2>1 DEF KeysRead
  <2>3. QED
    BY <2>2, MergedHasBoth
<1>4. QED
  BY <1>2, <1>3

LEMMA SampleStep ==
  ASSUME InputAssumption, NEW r, NEW w, InputInv(r, w, modal), shown.mode \in BOOLEAN, Sample(r, w)
  PROVE  /\ Keeps(s', r, Observed) /\ TurnedOn(s', r) /\ UNCHANGED <<shown, modal>>
         /\ InputInv(s', world', modal)
<1>1. PICK late \in BOOLEAN : s' \in HandleSources(r, late)
  BY DEF Sample
<1>2. world' = Account(r, w) /\ UNCHANGED <<shown, modal>>
  BY DEF Sample
<1> DEFINE q == s'
           v == world'
<1>3. /\ Keeps(q, r, Observed) /\ Sync(q) /\ q.last = Some(MergeReadings(r.padRes, r.keyRes))
      /\ modal # {} => ~q.shortcut
      /\ TurnedOn(q, r)
  BY <1>1, Samples DEF InputInv, Typed
<1>4. /\ DOMAIN v = WorldFields /\ v.pad = w.pad /\ v.keys = w.keys /\ v.forgotten = w.forgotten
      /\ v.known = Sampled(r, w)
      /\ v.reread = (w.reread /\ <<r.snap, r.padRes>> # <<Some(w.pad), PadReading(r, w.pad)>>)
  BY <1>2, Accounted DEF InputInv, Typed
<1>5. {"step", "operation"} \cap v.again = {}
  BY <1>2, TakesOnce DEF InputInv
<1> HIDE DEF q, v
<1>6. /\ q.padRes = r.padRes /\ q.keyRes = r.keyRes /\ q.profile = r.profile /\ q.snap = r.snap
      /\ q.codes = r.codes
  BY <1>3 DEF Keeps, Observed, Mode, Window, Fields
<1>7. v.known \subseteq v.pad \cup v.keys
  BY <1>4 DEF Sampled
<1>8. Typed(q, v)
  <2>1. v.reread \in BOOLEAN
    BY <1>4
  <2>2. DOMAIN q = Fields
    BY <1>3 DEF Keeps
  <2>3. QED
    BY <2>1, <2>2, <1>4, <1>6, <1>7 DEF InputInv, Typed
<1>9. PadRead(q, v)
  <2>1. CASE w.reread /\ ~v.reread
    <3>1. r.snap = Some(w.pad) /\ r.padRes = PadReading(r, w.pad)
      BY <1>4, <2>1
    <3>2. r.snap[1] = w.pad
      BY <3>1 DEF Some
    <3>3. ASSUME r.padRes.ok, NEW b \in Buttons, NEW i, Means(r, i, b), i \in w.pad PROVE b \in r.padRes.buttons
      <4>1. r.padRes = Reading({Target[r.profile][j] : j \in w.pad})
        BY <3>1, <3>3 DEF PadReading, Means
      <4>2. b \in {Target[r.profile][j] : j \in w.pad}
        BY <3>3 DEF Means
      <4>3. QED
        BY <4>1, <4>2 DEF Reading, Buttons
    <3>4. \A i, b : Means(q, i, b) <=> Means(r, i, b)
      BY <1>6 DEF Means
    <3>5. SUFFICES ASSUME q.padRes.ok, NEW i, NEW b, b \in Buttons, Means(q, i, b),
                          i \in v.pad \/ (q.snap # None /\ i \in q.snap[1])
                   PROVE  b \in q.padRes.buttons
      BY DEF PadRead
    <3>6. i \in w.pad
      BY <3>2, <3>5, <1>4, <1>6
    <3>7. QED
      BY <3>3, <3>4, <3>5, <3>6, <1>6
  <2>2. CASE w.reread = v.reread
    BY <2>2, <1>4, <1>6 DEF InputInv, PadRead, Means
  <2>3. QED
    BY <2>1, <2>2, <1>4 DEF InputInv, Typed
<1>10. KeysRead(q)
  BY <1>6 DEF InputInv, KeysRead
<1>11. Kept(q, v)
  <2>1. \A b : Pressed(q, v, b) = Pressed(r, w, b)
    BY <1>4, <1>6 DEF Pressed
  <2>2. q.last # None /\ Last(q) = MergeReadings(r.padRes, r.keyRes)
    BY <1>3 DEF Last, Some, None
  <2>3. ASSUME NEW b \in Buttons, NEW i \in Pressed(r, w, b) \cap Sampled(r, w), ~(v.reread /\ i \in w.pad)
        PROVE  b \in Last(q).buttons
    BY <2>3, <2>2, <1>4, KeepsSampled DEF InputInv
  <2>4. QED
    BY <2>1, <2>2, <2>3, <1>4 DEF Kept
<1>12. InputInv(q, v, modal)
  BY <1>3, <1>5, <1>8, <1>9, <1>10, <1>11 DEF InputInv
<1>13. QED
  BY <1>2, <1>3, <1>12 DEF q, v, InputInv

\* Dialogs, listeners and what was rendered.
Dialogged(r, view, dialogs) ==
  /\ ("binding" \in dialogs) <=> r.capturing
  /\ r.registered # view.registered => r.capturing
  /\ ~view.listening \/ ~view.registered => r.codes = {}
  /\ ~view.enabled => ~r.padRes.ok

\* Surfaces and the command mode.
Mounted(r, view) ==
  /\ r.handlers = view.mounted /\ r.surfaces = view.mounted
  /\ \A f, g \in r.mounted \ view.mounted : f = g
  /\ r.mode /\ view.mode => \A f \in view.mounted : view.index[f]
  /\ r.mode /\ view.mounted = {} => view.enabled
  /\ view.mode \in BOOLEAN

Whole(r, w, view, dialogs) == InputInv(r, w, dialogs) /\ Dialogged(r, view, dialogs) /\ Mounted(r, view)

IInv == Whole(s, world, shown, modal)

Aside == {"pending", "seedNext", "steps", "marked", "prefixDown", "dirs", "dirLast", "attackDown",
          "owner", "uiOwner", "surfaces", "before", "handlers", "active", "showsPad", "status",
          "registered", "capturing", "mounted", "index", "face"}

SameAccounts(v, w) ==
  /\ DOMAIN v = WorldFields
  /\ \A f \in WorldFields \ {"stored", "plugged", "presses", "turns"} : v[f] = w[f]

LEMMA QuietKeeps ==
  ASSUME NEW r, NEW q, NEW v, NEW w, NEW dialogs, NEW after, InputInv(r, w, dialogs),
         Keeps(q, r, Aside), SameAccounts(v, w), after # {} => dialogs # {}
  PROVE  InputInv(q, v, after)
<1>1. /\ q.padRes = r.padRes /\ q.keyRes = r.keyRes /\ q.last = r.last /\ q.held = r.held
      /\ q.shortcut = r.shortcut /\ q.followDown = r.followDown /\ q.mode = r.mode /\ q.snap = r.snap
      /\ q.profile = r.profile /\ q.codes = r.codes /\ DOMAIN q = Fields
  BY DEF Keeps, Aside, Fields
<1>2. /\ v.pad = w.pad /\ v.keys = w.keys /\ v.known = w.known /\ v.forgotten = w.forgotten
      /\ v.reread = w.reread /\ v.again = w.again /\ DOMAIN v = WorldFields
  BY DEF SameAccounts, WorldFields
<1>3. Typed(q, v) /\ KeysRead(q)
  BY <1>1, <1>2 DEF InputInv, Typed, KeysRead
<1>4. Sync(q)
  BY <1>1 DEF InputInv, Sync, Last
<1>5. PadRead(q, v)
  BY <1>1, <1>2 DEF InputInv, PadRead, Means
<1>6. Kept(q, v)
  <2>1. \A b : Pressed(q, v, b) = Pressed(r, w, b)
    BY <1>1, <1>2 DEF Pressed
  <2>2. QED
    BY <2>1, <1>1, <1>2 DEF InputInv, Kept, Last
<1>7. QED
  BY <1>1, <1>2, <1>3, <1>4, <1>5, <1>6 DEF InputInv

LEMMA SameWorld == ASSUME NEW w, DOMAIN w = WorldFields PROVE SameAccounts(w, w)
BY DEF SameAccounts

LEMMA Turns == ASSUME NEW w, DOMAIN w = WorldFields PROVE SameAccounts(Turn(w), w)
BY DEF SameAccounts, Turn, WorldFields

LEMMA SampledKeeps ==
  ASSUME InputAssumption, NEW r, NEW w, Whole(r, w, shown, modal), Sample(r, w)
  PROVE  IInv'
<1>1. /\ Keeps(s', r, Observed) /\ TurnedOn(s', r) /\ UNCHANGED <<shown, modal>>
      /\ InputInv(s', world', modal)
  BY SampleStep DEF Whole, Mounted
<1>2. /\ s'.capturing = r.capturing /\ s'.registered = r.registered /\ s'.codes = r.codes
      /\ s'.padRes = r.padRes /\ s'.handlers = r.handlers /\ s'.surfaces = r.surfaces
      /\ s'.mounted = r.mounted
  BY <1>1 DEF Keeps, Observed, Mode, Window, Fields
<1>3. Dialogged(s', shown, modal)
  BY <1>2 DEF Whole, Dialogged
<1>4. Mounted(s', shown)
  BY <1>1, <1>2 DEF Whole, Mounted, TurnedOn, HasHandler
<1>5. QED
  BY <1>1, <1>3, <1>4 DEF IInv, Whole

\* Nothing but what no part of the invariant looks at.
Idle == Aside \ {"capturing", "registered", "surfaces", "handlers", "mounted"}

LEMMA IdleKeeps ==
  ASSUME NEW r, NEW q, NEW v, NEW w, Whole(r, w, shown, modal), Keeps(q, r, Idle), SameAccounts(v, w)
  PROVE  Whole(q, v, shown, modal)
<1>1. Keeps(q, r, Aside)
  BY DEF Keeps, Idle
<1>2. /\ q.capturing = r.capturing /\ q.registered = r.registered /\ q.surfaces = r.surfaces
      /\ q.handlers = r.handlers /\ q.mounted = r.mounted /\ q.codes = r.codes /\ q.padRes = r.padRes
      /\ q.mode = r.mode
  BY DEF Keeps, Idle, Aside, Fields
<1>3. InputInv(q, v, modal)
  BY <1>1, QuietKeeps DEF Whole
<1>4. QED
  BY <1>2, <1>3 DEF Whole, Dialogged, Mounted

\* One step of the devices: what is down changes, and with it what is known.
LEMMA PadTickKeeps ==
  ASSUME InputAssumption, IInv, NEW pad \in SUBSET PadInputs, PadTick(pad)
  PROVE  IInv'
<1> DEFINE pressed == pad \ world.pad
           w == [world EXCEPT !.pad = pad, !.presses = @ + Cardinality(pressed),
                         !.known = @ \ (world.pad \ pad), !.forgotten = @ \ (world.pad \ pad)]
           r == [s EXCEPT !.active = TRUE, !.status = "connected", !.snap = Some(pad),
                     !.showsPad = TRUE, !.padRes = PadReading(s, pad)]
           n == [s EXCEPT !.active = TRUE, !.status = "connected"]
<1>1. /\ shown.enabled
      /\ IF s.snap = Some(pad)
           THEN s' = n /\ world' = w /\ UNCHANGED <<shown, modal>>
           ELSE Sample(r, w)
  BY DEF PadTick
<1>2. /\ DOMAIN w = WorldFields /\ w.pad = pad /\ w.keys = world.keys /\ w.reread = world.reread
      /\ w.again = world.again /\ w.known = world.known \ (world.pad \ pad)
      /\ w.forgotten = world.forgotten \ (world.pad \ pad)
  BY DEF IInv, Whole, InputInv, Typed, WorldFields
<1>3. /\ Keeps(r, s, {"active", "status", "snap", "showsPad", "padRes"})
      /\ r.snap = Some(pad) /\ r.padRes = PadReading(s, pad)
  BY DEF IInv, Whole, InputInv, Typed, Keeps, Fields
<1>4. Keeps(n, s, {"active", "status"})
  BY DEF IInv, Whole, InputInv, Typed, Keeps, Fields
<1> HIDE DEF w, r, n
<1>5. /\ w.known \subseteq w.pad \cup w.keys
      /\ \A i \in w.known \cap pad : i \in world.known \cap world.pad
  BY <1>2 DEF IInv, Whole, InputInv, Typed, InputAssumption
<1>6. ASSUME NEW q, DOMAIN q = Fields, q.profile = s.profile, q.last = s.last PROVE Kept(q, w)
  <2>1. SUFFICES ASSUME NEW b \in Buttons, NEW i \in Pressed(q, w, b) \cap w.known
                 PROVE  i \in w.forgotten \/ (w.reread /\ i \in w.pad) \/ (q.last # None /\ b \in Last(q).buttons)
    BY DEF Kept
  <2>2. i \in Pressed(s, world, b) \cap world.known
    BY <1>2, <1>5, <1>6, <2>1 DEF Pressed
  <2>3. i \notin world.pad \ pad
    BY <2>1, <1>2
  <2>4. i \in world.forgotten \/ (world.reread /\ i \in world.pad) \/ (s.last # None /\ b \in Last(s).buttons)
    BY <2>2 DEF IInv, Whole, InputInv, Kept
  <2>5. QED
    BY <2>3, <2>4, <1>2, <1>6 DEF Last
<1>7. CASE s.snap = Some(pad)
  <2>1. s' = n /\ world' = w /\ UNCHANGED <<shown, modal>>
    BY <1>1, <1>7
  <2>2. /\ n.capturing = s.capturing /\ n.registered = s.registered /\ n.surfaces = s.surfaces
        /\ n.handlers = s.handlers /\ n.mounted = s.mounted /\ n.codes = s.codes /\ n.padRes = s.padRes
        /\ n.keyRes = s.keyRes /\ n.mode = s.mode /\ n.last = s.last /\ n.held = s.held
        /\ n.shortcut = s.shortcut /\ n.followDown = s.followDown /\ n.snap = s.snap
        /\ n.profile = s.profile /\ DOMAIN n = Fields
    BY <1>4 DEF Keeps, Fields
  <2>3. Typed(n, w)
    BY <2>2, <1>2, <1>5 DEF IInv, Whole, InputInv, Typed
  <2>4. Sync(n) /\ KeysRead(n)
    BY <2>2 DEF IInv, Whole, InputInv, Sync, KeysRead, Last
  <2>5. PadRead(n, w)
    <3>1. s.snap # None /\ s.snap[1] = pad
      BY <1>7 DEF Some, None
    <3>2. PadRead(s, world)
      BY DEF IInv, Whole, InputInv
    <3>3. QED
      BY <3>1, <3>2, <2>2, <1>2 DEF PadRead, Means
  <2>6. Kept(n, w)
    BY <2>2, <1>6
  <2>7. InputInv(n, w, modal)
    BY <2>2, <2>3, <2>4, <2>5, <2>6, <1>2 DEF IInv, Whole, InputInv
  <2>8. Dialogged(n, shown, modal) /\ Mounted(n, shown)
    BY <2>2 DEF IInv, Whole, Dialogged, Mounted
  <2>9. QED
    BY <2>1, <2>7, <2>8 DEF IInv, Whole
<1>8. CASE s.snap # Some(pad)
  <2>1. Sample(r, w)
    BY <1>1, <1>8
  <2>2. /\ r.capturing = s.capturing /\ r.registered = s.registered /\ r.surfaces = s.surfaces
        /\ r.handlers = s.handlers /\ r.mounted = s.mounted /\ r.codes = s.codes
        /\ r.keyRes = s.keyRes /\ r.mode = s.mode /\ r.last = s.last /\ r.held = s.held
        /\ r.shortcut = s.shortcut /\ r.followDown = s.followDown
        /\ r.profile = s.profile /\ DOMAIN r = Fields
    BY <1>3 DEF Keeps, Fields
  <2>3. r.padRes.buttons \subseteq Buttons
    BY <1>3 DEF PadReading, Reading, Unresolved, Buttons
  <2>4. Typed(r, w)
    BY <2>2, <2>3, <1>2, <1>5 DEF IInv, Whole, InputInv, Typed
  <2>5. Sync(r) /\ KeysRead(r)
    BY <2>2 DEF IInv, Whole, InputInv, Sync, KeysRead, Last
  <2>6. PadRead(r, w)
    <3>1. SUFFICES ASSUME r.padRes.ok, NEW b \in Buttons, NEW i, Means(r, i, b),
                          i \in w.pad \/ (r.snap # None /\ i \in r.snap[1])
                   PROVE  b \in r.padRes.buttons
      BY DEF PadRead
    <3>2. i \in pad
      BY <3>1, <1>2, <1>3 DEF Some
    <3>3. r.padRes = Reading({Target[s.profile][j] : j \in pad})
      BY <3>1, <1>3, <2>2 DEF PadReading, Means
    <3>4. b \in {Target[s.profile][j] : j \in pad}
      BY <3>1, <3>2, <2>2 DEF Means
    <3>5. QED
      BY <3>3, <3>4 DEF Reading, Buttons
  <2>7. Kept(r, w)
    BY <2>2, <1>6
  <2>8. InputInv(r, w, modal)
    BY <2>2, <2>4, <2>5, <2>6, <2>7, <1>2 DEF IInv, Whole, InputInv
  <2>9. Dialogged(r, shown, modal) /\ Mounted(r, shown)
    BY <2>2, <1>1 DEF IInv, Whole, Dialogged, Mounted
  <2>10. QED
    BY <2>1, <2>8, <2>9, SampledKeeps DEF Whole
<1>9. QED
  BY <1>7, <1>8

\* Where only `pad`, `known` and `forgotten` change, the accounts need these three facts.
LEMMA Released ==
  ASSUME NEW q, NEW v, IInv, Keeps(q, s, Idle \cup {"snap"}), DOMAIN v = WorldFields,
         v.keys \subseteq Keys, v.pad \subseteq PadInputs,
         v.known \subseteq (v.pad \cup v.keys), v.reread = world.reread, v.again = world.again,
         \A i \in v.known : /\ i \in world.known
                            /\ i \in world.forgotten => i \in v.forgotten
                            /\ i \in v.pad <=> i \in world.pad
                            /\ i \in v.keys => i \in world.keys,
         PadRead(q, v)
  PROVE  Whole(q, v, shown, modal)
<1>1. /\ q.capturing = s.capturing /\ q.registered = s.registered /\ q.surfaces = s.surfaces
      /\ q.handlers = s.handlers /\ q.mounted = s.mounted /\ q.codes = s.codes /\ q.padRes = s.padRes
      /\ q.keyRes = s.keyRes /\ q.mode = s.mode /\ q.last = s.last /\ q.held = s.held
      /\ q.shortcut = s.shortcut /\ q.followDown = s.followDown
      /\ q.profile = s.profile /\ DOMAIN q = Fields
  BY DEF Keeps, Idle, Aside, Fields
<1>2. Typed(q, v)
  BY <1>1 DEF IInv, Whole, InputInv, Typed
<1>3. Sync(q) /\ KeysRead(q)
  BY <1>1 DEF IInv, Whole, InputInv, Sync, KeysRead, Last
<1>4. Kept(q, v)
  <2>1. SUFFICES ASSUME NEW b \in Buttons, NEW i \in Pressed(q, v, b) \cap v.known
                 PROVE  i \in v.forgotten \/ (v.reread /\ i \in v.pad) \/ (q.last # None /\ b \in Last(q).buttons)
    BY DEF Kept
  <2>2. i \in Pressed(s, world, b) \cap world.known
    BY <1>1, <2>1 DEF Pressed
  <2>3. i \in world.forgotten \/ (world.reread /\ i \in world.pad) \/ (s.last # None /\ b \in Last(s).buttons)
    BY <2>2 DEF IInv, Whole, InputInv, Kept
  <2>4. QED
    BY <2>1, <2>3, <1>1 DEF Last
<1>5. InputInv(q, v, modal)
  BY <1>1, <1>2, <1>3, <1>4 DEF IInv, Whole, InputInv
<1>6. Dialogged(q, shown, modal) /\ Mounted(q, shown)
  BY <1>1 DEF IInv, Whole, Dialogged, Mounted
<1>7. QED
  BY <1>5, <1>6 DEF Whole

LEMMA PadUnreadKeeps ==
  ASSUME InputAssumption, IInv, NEW pad \in SUBSET PadInputs, PadUnread(pad)
  PROVE  IInv'
<1> DEFINE v == [world EXCEPT !.pad = pad, !.known = @ \cap (pad \cup Keys),
                              !.forgotten = @ \cap (pad \cup Keys),
                              !.presses = @ + Cardinality(pad \ world.pad)]
<1>1. /\ ~shown.enabled \/ pad = {}
      /\ world' = v /\ UNCHANGED <<s, shown, modal>>
  BY DEF PadUnread
<1>2. /\ DOMAIN v = WorldFields /\ v.pad = pad /\ v.keys = world.keys /\ v.reread = world.reread
      /\ v.again = world.again /\ v.known = world.known \cap (pad \cup Keys)
      /\ v.forgotten = world.forgotten \cap (pad \cup Keys)
  BY DEF IInv, Whole, InputInv, Typed, WorldFields
<1> HIDE DEF v
<1>3. /\ v.keys \subseteq Keys /\ v.known \subseteq (v.pad \cup v.keys)
      /\ \A i \in v.known : i \in v.pad <=> i \in world.pad
  BY <1>2 DEF IInv, Whole, InputInv, Typed, InputAssumption
<1>4. PadRead(s, v)
  BY <1>1, <1>2 DEF IInv, Whole, InputInv, Dialogged, PadRead
<1>5. Keeps(s, s, Idle \cup {"snap"})
  BY DEF IInv, Whole, InputInv, Typed, Keeps
<1>6. Whole(s, v, shown, modal)
  BY <1>2, <1>3, <1>4, <1>5, Released
<1>7. QED
  BY <1>1, <1>6 DEF IInv

LEMMA UnplugKeeps ==
  ASSUME InputAssumption, IInv, NEW byEvent \in BOOLEAN, Unplug(byEvent)
  PROVE  IInv'
<1> DEFINE v == [world EXCEPT !.plugged = FALSE, !.pad = {}, !.known = @ \cap Keys,
                              !.forgotten = @ \cap Keys]
           q == IF ~s.active \/ ~shown.enabled THEN s
                ELSE [s EXCEPT !.active = FALSE, !.showsPad = FALSE, !.status = "disconnected",
                               !.snap = IF byEvent THEN @ ELSE None]
<1>1. s' = q /\ world' = v /\ UNCHANGED <<shown, modal>>
  BY DEF Unplug
<1>2. /\ DOMAIN v = WorldFields /\ v.pad = {} /\ v.keys = world.keys /\ v.reread = world.reread
      /\ v.again = world.again /\ v.known = world.known \cap Keys
      /\ v.forgotten = world.forgotten \cap Keys
  BY DEF IInv, Whole, InputInv, Typed, WorldFields
<1>3. Keeps(q, s, {"active", "showsPad", "status", "snap"}) /\ (q.snap = s.snap \/ q.snap = None)
  BY DEF IInv, Whole, InputInv, Typed, Keeps, Fields
<1> HIDE DEF v, q
<1>4. /\ v.keys \subseteq Keys /\ v.known \subseteq (v.pad \cup v.keys)
      /\ \A i \in v.known : i \in v.pad <=> i \in world.pad
  BY <1>2 DEF IInv, Whole, InputInv, Typed, InputAssumption
<1>5. q.padRes = s.padRes /\ q.profile = s.profile
  BY <1>3 DEF Keeps, Fields
<1>6. PadRead(q, v)
  BY <1>2, <1>3, <1>5 DEF IInv, Whole, InputInv, PadRead, Means
<1>7. Keeps(q, s, Idle \cup {"snap"})
  BY <1>3 DEF Keeps, Idle, Aside
<1>8. Whole(q, v, shown, modal)
  BY <1>2, <1>4, <1>6, <1>7, Released
<1>9. QED
  BY <1>1, <1>8 DEF IInv

-----------------------------------------------------------------------------
(* The keyboard.                                                           *)

\* The keys that count as held change to `codes`, all of them down and none of an operation.
LEMMA KeySampleKeeps ==
  ASSUME InputAssumption, IInv, NEW codes, NEW w, codes \subseteq MoveKeys,
         shown.listening, shown.registered, DOMAIN w = WorldFields,
         w.pad = world.pad, w.keys \subseteq Keys, w.reread = world.reread, w.again = world.again,
         w.known \subseteq (w.pad \cup w.keys),
         \A i \in w.known : /\ i \in world.known
                            /\ i \in world.forgotten => i \in w.forgotten
                            /\ i \in w.keys => i \in world.keys,
         Sample([s EXCEPT !.codes = codes, !.keyRes = KeyReading(codes)], w)
  PROVE  IInv'
<1> DEFINE r == [s EXCEPT !.codes = codes, !.keyRes = KeyReading(codes)]
<1>1. Keeps(r, s, {"codes", "keyRes"}) /\ r.codes = codes /\ r.keyRes = Reading({KeyTarget[c] : c \in codes})
  BY DEF IInv, Whole, InputInv, Typed, Keeps, Fields, KeyReading
<1>2. Sample(r, w)
  OBVIOUS
<1> HIDE DEF r
<1>3. /\ r.capturing = s.capturing /\ r.registered = s.registered /\ r.surfaces = s.surfaces
      /\ r.handlers = s.handlers /\ r.mounted = s.mounted /\ r.padRes = s.padRes
      /\ r.mode = s.mode /\ r.last = s.last /\ r.held = s.held
      /\ r.shortcut = s.shortcut /\ r.followDown = s.followDown /\ r.snap = s.snap
      /\ r.profile = s.profile /\ DOMAIN r = Fields
  BY <1>1 DEF Keeps, Fields
<1>4. Typed(r, w)
  <2>1. r.keyRes.buttons \subseteq Buttons
    BY <1>1 DEF Reading, Buttons
  <2>2. QED
    BY <2>1, <1>3 DEF IInv, Whole, InputInv, Typed
<1>5. Sync(r)
  BY <1>3 DEF IInv, Whole, InputInv, Sync, Last
<1>6. KeysRead(r)
  <2>1. r.keyRes.ok /\ r.keyRes.buttons = {KeyTarget[c] : c \in codes} \cap Buttons
    BY <1>1 DEF Reading, Buttons
  <2>2. QED
    BY <2>1, <1>1 DEF KeysRead
<1>7. PadRead(r, w)
  BY <1>3 DEF IInv, Whole, InputInv, PadRead, Means
<1>8. Kept(r, w)
  <2>1. SUFFICES ASSUME NEW b \in Buttons, NEW i \in Pressed(r, w, b) \cap w.known
                 PROVE  i \in w.forgotten \/ (w.reread /\ i \in w.pad) \/ (r.last # None /\ b \in Last(r).buttons)
    BY DEF Kept
  <2>2. i \in Pressed(s, world, b) \cap world.known
    BY <1>3, <2>1 DEF Pressed
  <2>3. i \in world.forgotten \/ (world.reread /\ i \in world.pad) \/ (s.last # None /\ b \in Last(s).buttons)
    BY <2>2 DEF IInv, Whole, InputInv, Kept
  <2>4. QED
    BY <2>1, <2>3, <1>3 DEF Last
<1>9. InputInv(r, w, modal)
  BY <1>3, <1>4, <1>5, <1>6, <1>7, <1>8 DEF IInv, Whole, InputInv
<1>10. Dialogged(r, shown, modal) /\ Mounted(r, shown)
  BY <1>3 DEF IInv, Whole, Dialogged, Mounted
<1>11. QED
  BY <1>2, <1>9, <1>10, SampledKeeps DEF Whole

\* What an operation does to the record leaves the invariant.
LEMMA DispatchKeeps ==
  ASSUME IInv, NEW action \in Actions
  PROVE  Whole(DispatchAction(s, action), world, shown, modal)
<1> DEFINE q == DispatchAction(s, action)
<1>1. Turned(q, s) /\ (q = s \/ HasHandler(s)) /\ DOMAIN s = Fields
  BY Dispatches DEF IInv, Whole, InputInv, Typed
<1> HIDE DEF q
<1>2. /\ q.capturing = s.capturing /\ q.registered = s.registered /\ q.surfaces = s.surfaces
      /\ q.handlers = s.handlers /\ q.mounted = s.mounted /\ q.codes = s.codes /\ q.padRes = s.padRes
      /\ q.keyRes = s.keyRes /\ q.last = s.last
      /\ q.shortcut = s.shortcut /\ q.followDown = s.followDown /\ q.snap = s.snap
      /\ q.profile = s.profile /\ DOMAIN q = Fields
  BY <1>1 DEF Turned, Keeps, Mode, Window, Fields
<1>3. Sync(q)
  <2>1. /\ q.held = s.held \/ (s.last # None /\ q.held = Last(s).buttons)
        /\ q.mode = s.mode \/ q.mode = ~shown.mode
        /\ q.mode # s.mode /\ s.last # None => q.held = Last(s).buttons
    BY <1>1 DEF Turned
  <2>2. Last(q) = Last(s)
    BY <1>2 DEF Last
  <2>3. QED
    BY <2>1, <2>2, <1>2 DEF IInv, Whole, InputInv, Sync, Mounted
<1>4. Typed(q, world) /\ KeysRead(q) /\ PadRead(q, world)
  BY <1>2 DEF IInv, Whole, InputInv, Typed, KeysRead, PadRead, Means
<1>5. Kept(q, world)
  <2>1. \A b : Pressed(q, world, b) = Pressed(s, world, b)
    BY <1>2 DEF Pressed
  <2>2. QED
    BY <2>1, <1>2 DEF IInv, Whole, InputInv, Kept, Last
<1>6. InputInv(q, world, modal)
  BY <1>2, <1>3, <1>4, <1>5 DEF IInv, Whole, InputInv
<1>7. Mounted(q, shown)
  <2>1. q.mode = s.mode \/ (q.mode = ~shown.mode /\ s.owner \in s.handlers)
    BY <1>1 DEF Turned, HasHandler
  <2>2. QED
    BY <2>1, <1>2 DEF IInv, Whole, Mounted
<1>8. Dialogged(q, shown, modal)
  BY <1>2 DEF IInv, Whole, Dialogged
<1>9. QED
  BY <1>6, <1>7, <1>8 DEF Whole, q

\* A key that no one hears changes nothing that is known.
LEMMA UnheardKeeps ==
  ASSUME InputAssumption, NEW q, NEW k \in Keys, Whole(q, world, shown, modal), NEW v,
         \/ /\ k \notin world.known
            /\ v = [world EXCEPT !.keys = @ \cup {k}, !.presses = @ + 1]
         \/ v = [world EXCEPT !.keys = @ \ {k}, !.known = @ \ {k}, !.forgotten = @ \ {k}]
  PROVE  Whole(q, v, shown, modal)
<1>1. /\ DOMAIN v = WorldFields /\ v.pad = world.pad /\ v.again = world.again /\ v.reread = world.reread
      /\ \/ /\ v.keys = world.keys \cup {k} /\ v.known = world.known /\ v.forgotten = world.forgotten
            /\ k \notin world.known
         \/ v.keys = world.keys \ {k} /\ v.known = world.known \ {k} /\ v.forgotten = world.forgotten \ {k}
  BY DEF Whole, InputInv, Typed, WorldFields
<1>2. Typed(q, v)
  BY <1>1 DEF Whole, InputInv, Typed
<1>3. PadRead(q, v)
  BY <1>1 DEF Whole, InputInv, PadRead
<1>4. Kept(q, v)
  <2>1. SUFFICES ASSUME NEW b \in Buttons, NEW i \in Pressed(q, v, b) \cap v.known
                 PROVE  i \in v.forgotten \/ (v.reread /\ i \in v.pad) \/ (q.last # None /\ b \in Last(q).buttons)
    BY DEF Kept
  <2>2. i \in Pressed(q, world, b) \cap world.known
    BY <1>1, <2>1 DEF Pressed
  <2>3. i \in world.forgotten \/ (world.reread /\ i \in world.pad) \/ (q.last # None /\ b \in Last(q).buttons)
    BY <2>2 DEF Whole, InputInv, Kept
  <2>4. i \in world.forgotten => i \in v.forgotten
    BY <1>1, <2>1
  <2>5. QED
    BY <2>3, <2>4, <1>1
<1>5. QED
  BY <1>1, <1>2, <1>3, <1>4 DEF Whole, InputInv

\* A key that is up was not in a sample.
LEMMA UpIsUnknown ==
  ASSUME InputAssumption, IInv, NEW k \in Keys, k \notin world.keys
  PROVE  k \notin world.known
BY DEF IInv, Whole, InputInv, Typed, InputAssumption

LEMMA KeyDownKeeps ==
  ASSUME InputAssumption, IInv, NEW k \in Keys, KeyDown(k) PROVE IInv'
<1> DEFINE w == [world EXCEPT !.keys = @ \cup {k}, !.presses = @ + 1]
<1>1. k \notin world.keys /\ shown.listening /\ shown.registered
  BY DEF KeyDown
<1>2. k \notin world.known
  BY <1>1, UpIsUnknown
<1>3. CASE k \in ActionKeys
  <2>1. s' = DispatchAction(s, KeyTarget[k]) /\ world' = w /\ UNCHANGED <<shown, modal>>
    BY <1>3 DEF KeyDown
  <2>2. Whole(s', world, shown, modal)
    BY <2>1, <1>3, DispatchKeeps DEF ActionKeys
  <2>3. Whole(s', w, shown, modal)
    BY <2>2, <1>2, UnheardKeeps
  <2>4. QED
    BY <2>1, <2>3 DEF IInv
<1>4. CASE k \notin ActionKeys
  <2>1. Sample([s EXCEPT !.codes = s.codes \cup {k}, !.keyRes = KeyReading(s.codes \cup {k})], w)
    BY <1>4 DEF KeyDown
  <2>2. /\ DOMAIN w = WorldFields /\ w.pad = world.pad /\ w.keys = world.keys \cup {k}
        /\ w.reread = world.reread /\ w.again = world.again /\ w.known = world.known
        /\ w.forgotten = world.forgotten
    BY DEF IInv, Whole, InputInv, Typed, WorldFields
  <2> HIDE DEF w
  <2>3. w.known \subseteq (w.pad \cup w.keys) /\ w.keys \subseteq Keys
    BY <2>2 DEF IInv, Whole, InputInv, Typed
  <2>4. s.codes \cup {k} \subseteq MoveKeys
    BY <1>4 DEF IInv, Whole, InputInv, KeysRead, MoveKeys
  <2>5. QED
    BY <1>1, <1>2, <2>1, <2>2, <2>3, <2>4, KeySampleKeeps
<1>5. QED
  BY <1>3, <1>4

LEMMA KeyUnreadKeeps ==
  ASSUME InputAssumption, IInv, NEW k \in Keys, KeyUnread(k) PROVE IInv'
<1>1. /\ k \notin world.keys /\ UNCHANGED <<s, shown, modal>>
      /\ world' = [world EXCEPT !.keys = @ \cup {k}, !.presses = @ + 1]
  BY DEF KeyUnread
<1>2. k \notin world.known
  BY <1>1, UpIsUnknown
<1>3. Whole(s, world', shown, modal)
  BY <1>1, <1>2, UnheardKeeps DEF IInv
<1>4. QED
  BY <1>1, <1>3 DEF IInv

LEMMA KeyUpKeeps ==
  ASSUME InputAssumption, IInv, NEW k \in Keys, KeyUp(k) PROVE IInv'
<1> DEFINE w == [world EXCEPT !.keys = @ \ {k}, !.known = @ \ {k}, !.forgotten = @ \ {k}]
<1>1. CASE shown.listening /\ k \in s.codes
  <2>1. Sample([s EXCEPT !.codes = s.codes \ {k}, !.keyRes = KeyReading(s.codes \ {k})], w)
    BY <1>1 DEF KeyUp
  <2>2. /\ DOMAIN w = WorldFields /\ w.pad = world.pad /\ w.keys = world.keys \ {k}
        /\ w.reread = world.reread /\ w.again = world.again /\ w.known = world.known \ {k}
        /\ w.forgotten = world.forgotten \ {k}
    BY DEF IInv, Whole, InputInv, Typed, WorldFields
  <2> HIDE DEF w
  <2>3. w.known \subseteq (w.pad \cup w.keys) /\ w.keys \subseteq Keys
    BY <2>2 DEF IInv, Whole, InputInv, Typed
  <2>4. s.codes \ {k} \subseteq MoveKeys
    BY DEF IInv, Whole, InputInv, KeysRead
  <2>5. shown.registered
    BY <1>1 DEF IInv, Whole, Dialogged
  <2>6. QED
    BY <1>1, <2>1, <2>2, <2>3, <2>4, <2>5, KeySampleKeeps
<1>2. CASE ~(shown.listening /\ k \in s.codes)
  <2>1. world' = w /\ UNCHANGED <<s, shown, modal>>
    BY <1>2 DEF KeyUp
  <2>2. Whole(s, w, shown, modal)
    BY UnheardKeeps DEF IInv
  <2>3. QED
    BY <2>1, <2>2 DEF IInv
<1>3. QED
  BY <1>1, <1>2

LEMMA BlurKeeps == ASSUME InputAssumption, IInv, Blur PROVE IInv'
<1> DEFINE codes == {}
<1>1. /\ shown.listening /\ s.codes # {} /\ codes \subseteq MoveKeys
      /\ Sample([s EXCEPT !.codes = codes, !.keyRes = KeyReading(codes)], world)
  BY DEF Blur
<1> HIDE DEF codes
<1>2. shown.registered
  BY <1>1 DEF IInv, Whole, Dialogged
<1>3. /\ DOMAIN world = WorldFields /\ world.known \subseteq (world.pad \cup world.keys)
      /\ world.keys \subseteq Keys
  BY DEF IInv, Whole, InputInv, Typed
<1>4. QED
  BY <1>1, <1>2, <1>3, KeySampleKeeps

\* What has been seeded with the last reading, and without shortcut, is in sync.
Seeded(q, r) ==
  /\ Keeps(q, r, Window \cup {"shortcut", "followDown"})
  /\ q.shortcut = FALSE
  /\ q.held = r.held \/ (r.last # None /\ q.held = Last(r).buttons)
  /\ r.shortcut \/ q.held # r.held => r.last # None /\ q.held = Last(r).buttons

LEMMA SeededKeeps ==
  ASSUME NEW r, NEW q, NEW v, NEW w, NEW before, NEW after, InputInv(r, w, before), Seeded(q, r),
         SameAccounts(v, w)
  PROVE  InputInv(q, v, after)
<1>1. /\ q.padRes = r.padRes /\ q.keyRes = r.keyRes /\ q.last = r.last /\ q.mode = r.mode
      /\ q.snap = r.snap /\ q.profile = r.profile /\ q.codes = r.codes /\ DOMAIN q = Fields
  BY DEF Seeded, Keeps, Window, Fields
<1>2. /\ v.pad = w.pad /\ v.keys = w.keys /\ v.known = w.known /\ v.forgotten = w.forgotten
      /\ v.reread = w.reread /\ v.again = w.again /\ DOMAIN v = WorldFields
  BY DEF SameAccounts, WorldFields
<1>3. Typed(q, v) /\ KeysRead(q)
  BY <1>1, <1>2 DEF InputInv, Typed, KeysRead
<1>4. Sync(q)
  BY <1>1 DEF InputInv, Sync, Last, Seeded
<1>5. PadRead(q, v)
  BY <1>1, <1>2 DEF InputInv, PadRead, Means
<1>6. Kept(q, v)
  <2>1. \A b : Pressed(q, v, b) = Pressed(r, w, b)
    BY <1>1, <1>2 DEF Pressed
  <2>2. QED
    BY <2>1, <1>1, <1>2 DEF InputInv, Kept, Last
<1>7. QED
  BY <1>1, <1>2, <1>3, <1>4, <1>5, <1>6 DEF InputInv, Seeded

LEMMA LeavingSeeds ==
  ASSUME NEW r, DOMAIN r = Fields, Sync(r) PROVE Seeded(LeaveShortcut(r), r)
<1> DEFINE q == LeaveShortcut(r)
<1>1. /\ Keeps(q, r, Window \cup {"shortcut", "followDown"}) /\ q.shortcut = FALSE
      /\ q.held = IF r.shortcut /\ r.last # None THEN Last(r).buttons ELSE r.held
  BY Leaves DEF Sync
<1> HIDE DEF q
<1>2. r.shortcut => r.last # None
  BY DEF Sync
<1>3. QED
  BY <1>1, <1>2 DEF Seeded, q

\* What the dialogs and the mounted surfaces hold of a record that was only seeded.
LEMMA SeededRest ==
  ASSUME NEW r, NEW q, Seeded(q, r)
  PROVE  /\ q.capturing = r.capturing /\ q.registered = r.registered /\ q.surfaces = r.surfaces
         /\ q.handlers = r.handlers /\ q.mounted = r.mounted /\ q.codes = r.codes
         /\ q.padRes = r.padRes /\ q.mode = r.mode /\ q.owner = r.owner /\ DOMAIN q = Fields
BY DEF Seeded, Keeps, Window, Fields

LEMMA TimersKeep ==
  ASSUME IInv, FlushTimer \/ ShortcutTimeout PROVE IInv'
<1>1. SameAccounts(world, world) /\ DOMAIN s = Fields /\ Sync(s)
  BY SameWorld DEF IInv, Whole, InputInv, Typed
<1>2. CASE FlushTimer
  <2>1. s' = FlushWindow(s) /\ UNCHANGED <<shown, modal, world>>
    BY <1>2 DEF FlushTimer
  <2>2. Keeps(s', s, Idle)
    BY <1>1, <2>1, Flushes DEF Keeps, Idle, Aside
  <2>3. Whole(s', world, shown, modal)
    BY <1>1, <2>2, IdleKeeps DEF IInv
  <2>4. QED
    BY <2>1, <2>3 DEF IInv
<1>3. CASE ShortcutTimeout
  <2>1. s' = LeaveShortcut(s) /\ UNCHANGED <<shown, modal, world>>
    BY <1>3 DEF ShortcutTimeout
  <2>2. Seeded(s', s)
    BY <1>1, <2>1, LeavingSeeds
  <2>3. InputInv(s', world, modal)
    BY <1>1, <2>2, SeededKeeps DEF IInv, Whole
  <2>4. Dialogged(s', shown, modal) /\ Mounted(s', shown)
    BY <2>2, SeededRest DEF IInv, Whole, Dialogged, Mounted
  <2>5. QED
    BY <2>1, <2>3, <2>4 DEF IInv, Whole
<1>4. QED
  BY <1>2, <1>3

-----------------------------------------------------------------------------
(* Pages and dialogs.                                                      *)

\* A step that the devices, the dialogs and the render have no part in.
LEMMA IdleStep ==
  ASSUME IInv, Keeps(s', s, Idle), SameAccounts(world', world), UNCHANGED <<shown, modal>>
  PROVE  IInv'
<1>1. Whole(s', world', shown, modal)
  BY IdleKeeps DEF IInv
<1>2. QED
  BY <1>1 DEF IInv

LEMMA Known == ASSUME IInv PROVE DOMAIN s = Fields /\ DOMAIN world = WorldFields /\ Keeps(s, s, Idle)
BY DEF IInv, Whole, InputInv, Typed, Keeps

LEMMA PagesKeep ==
  ASSUME IInv, NEW f \in Surfaces, Claim(f) \/ ChangeCharacter(f) \/ ToggleRush(f) \/ SaveSettles(f)
  PROVE  IInv'
<1>1. \/ s' = [s EXCEPT !.uiOwner = f] \/ s' = [s EXCEPT !.index[f] = ~@]
      \/ s' = [s EXCEPT !.face[f].rush = ~@] \/ s' = [s EXCEPT !.face[f].saving = FALSE]
  BY DEF Claim, ChangeCharacter, ToggleRush, SaveSettles, Page
<1>2. (world' = Turn(world) \/ world' = world) /\ UNCHANGED <<shown, modal>>
  BY DEF Claim, ChangeCharacter, ToggleRush, SaveSettles, Page
<1>3. Keeps(s', s, {"uiOwner", "index", "face"})
  BY <1>1, Known DEF Keeps, Fields
<1>4. Keeps(s', s, Idle)
  BY <1>3 DEF Keeps, Idle, Aside
<1>5. SameAccounts(world', world)
  BY <1>2, Known, Turns, SameWorld
<1>6. QED
  BY <1>2, <1>4, <1>5, IdleStep

LEMMA PlugKeeps == ASSUME IInv, Plug PROVE IInv'
<1>1. world' = [Turn(world) EXCEPT !.plugged = TRUE] /\ UNCHANGED <<s, shown, modal>>
  BY DEF Plug
<1>2. SameAccounts(world', world)
  BY <1>1, Known DEF SameAccounts, Turn, WorldFields
<1>3. Keeps(s', s, Idle)
  BY <1>1, Known
<1>4. QED
  BY <1>1, <1>2, <1>3, IdleStep

LEMMA StoreProfileKeeps == ASSUME IInv, NEW p, StoreProfile(p) PROVE IInv'
<1>1. world' = [Turn(world) EXCEPT !.stored = p] /\ UNCHANGED <<s, shown, modal>>
  BY DEF StoreProfile
<1>2. SameAccounts(world', world)
  BY <1>1, Known DEF SameAccounts, Turn, WorldFields
<1>3. Keeps(s', s, Idle)
  BY <1>1, Known
<1>4. QED
  BY <1>1, <1>2, <1>3, IdleStep

LEMMA MountsKeep ==
  ASSUME IInv, NEW f \in Surfaces, Mount(f) \/ Unmount(f) PROVE IInv'
<1>1. /\ \/ s' = [s EXCEPT !.mounted = @ \cup {f}] /\ s.mounted = shown.mounted
         \/ s' = [s EXCEPT !.mounted = @ \ {f}]
      /\ world' = Turn(world) /\ UNCHANGED <<shown, modal>>
  BY DEF Mount, Unmount, Page
<1>2. /\ Keeps(s', s, {"mounted"})
      /\ \/ s'.mounted = s.mounted \cup {f} /\ s.mounted = shown.mounted
         \/ s'.mounted = s.mounted \ {f}
  BY <1>1, Known DEF Keeps, Fields
<1>3. Keeps(s', s, Aside)
  BY <1>2 DEF Keeps, Aside
<1>4. SameAccounts(world', world)
  BY <1>1, Known, Turns
<1>5. InputInv(s', world', modal)
  BY <1>3, <1>4, QuietKeeps DEF IInv, Whole
<1>6. /\ s'.capturing = s.capturing /\ s'.registered = s.registered /\ s'.surfaces = s.surfaces
      /\ s'.handlers = s.handlers /\ s'.codes = s.codes /\ s'.padRes = s.padRes /\ s'.mode = s.mode
  BY <1>2 DEF Keeps, Fields
<1>7. \A g, h \in s'.mounted \ shown.mounted : g = h
  BY <1>2 DEF IInv, Whole, Mounted
<1>8. Dialogged(s', shown, modal) /\ Mounted(s', shown)
  BY <1>6, <1>7 DEF IInv, Whole, Dialogged, Mounted
<1>9. QED
  BY <1>1, <1>5, <1>8 DEF IInv, Whole

LEMMA StoreKeysKeeps == ASSUME IInv, NEW on, StoreKeys(on) PROVE IInv'
<1>1. /\ "binding" \in modal /\ s' = [s EXCEPT !.registered = on]
      /\ world' = Turn(world) /\ UNCHANGED <<shown, modal>>
  BY DEF StoreKeys, Page
<1>2. Keeps(s', s, {"registered"})
  BY <1>1, Known DEF Keeps, Fields
<1>3. Keeps(s', s, Aside)
  BY <1>2 DEF Keeps, Aside
<1>4. SameAccounts(world', world)
  BY <1>1, Known, Turns
<1>5. InputInv(s', world', modal)
  BY <1>3, <1>4, QuietKeeps DEF IInv, Whole
<1>6. /\ s'.capturing = s.capturing /\ s'.mounted = s.mounted /\ s'.surfaces = s.surfaces
      /\ s'.handlers = s.handlers /\ s'.codes = s.codes /\ s'.padRes = s.padRes /\ s'.mode = s.mode
  BY <1>2 DEF Keeps, Fields
<1>7. Dialogged(s', shown, modal) /\ Mounted(s', shown)
  BY <1>1, <1>6 DEF IInv, Whole, Dialogged, Mounted
<1>8. QED
  BY <1>1, <1>5, <1>7 DEF IInv, Whole

LEMMA CloseDialogKeeps == ASSUME IInv, NEW d \in Dialogs, CloseDialog(d) PROVE IInv'
<1> DEFINE open == modal \ {d}
           q    == IF d = "binding" THEN [s EXCEPT !.capturing = FALSE] ELSE s
<1>1. /\ d \in modal /\ s.registered = shown.registered
      /\ modal' = open /\ s' = q /\ UNCHANGED <<shown, world>>
  BY DEF CloseDialog
<1>2. /\ Keeps(q, s, {"capturing"}) /\ q.capturing = IF d = "binding" THEN FALSE ELSE s.capturing
  BY Known DEF Keeps, Fields
<1> HIDE DEF q
<1>3. Keeps(q, s, Aside)
  BY <1>2 DEF Keeps, Aside
<1>4. open # {} => modal # {}
  OBVIOUS
<1>5. InputInv(q, world, open)
  BY <1>3, <1>4, Known, SameWorld, QuietKeeps DEF IInv, Whole
<1>6. /\ q.registered = s.registered /\ q.mounted = s.mounted /\ q.surfaces = s.surfaces
      /\ q.handlers = s.handlers /\ q.codes = s.codes /\ q.padRes = s.padRes /\ q.mode = s.mode
  BY <1>2 DEF Keeps, Fields
<1>7. Mounted(q, shown)
  BY <1>6 DEF IInv, Whole, Mounted
<1>8. Dialogged(q, shown, open)
  BY <1>1, <1>2, <1>6 DEF IInv, Whole, Dialogged
<1>9. QED
  BY <1>1, <1>5, <1>7, <1>8 DEF IInv, Whole

LEMMA OpenDialogKeeps == ASSUME IInv, NEW d \in Dialogs, OpenDialog(d) PROVE IInv'
<1> DEFINE open == modal \cup {d}
           r  == LeaveShortcut(s)
           r1 == IF modal = {} THEN (IF r.last # None THEN SeedNow(r, Last(r)) ELSE r) ELSE s
           q  == IF d = "binding" THEN [r1 EXCEPT !.capturing = TRUE] ELSE r1
<1>1. /\ d \notin modal /\ modal' = open /\ s' = q /\ world' = Turn(world) /\ UNCHANGED shown
  BY DEF OpenDialog
<1>2. DOMAIN s = Fields /\ Sync(s) /\ SameAccounts(world', world)
  BY <1>1, Known, Turns DEF IInv, Whole, InputInv
<1>3. Seeded(r, s)
  BY <1>2, LeavingSeeds
<1> HIDE DEF r
<1>4. Seeded(r1, s)
  <2>1. CASE modal = {} /\ r.last # None
    <3>1. DOMAIN r = Fields /\ r.last = s.last /\ r.shortcut = FALSE
      BY <1>3 DEF Seeded, Keeps, Window, Fields
    <3>2. Keeps(r1, r, Window) /\ r1.held = Last(r).buttons
      BY <2>1, <3>1, Seeds
    <3>3. Last(r) = Last(s)
      BY <3>1 DEF Last
    <3>4. r1.shortcut = FALSE
      BY <3>1, <3>2 DEF Keeps, Window, Fields
    <3> HIDE DEF r1
    <3>5. Keeps(r1, s, Window \cup {"shortcut", "followDown"})
      BY <1>3, <3>2 DEF Seeded, Keeps
    <3>6. QED
      BY <2>1, <3>1, <3>2, <3>3, <3>4, <3>5 DEF Seeded
  <2>2. CASE modal = {} /\ r.last = None
    BY <1>3, <2>2
  <2>3. CASE modal # {}
    <3>1. ~s.shortcut /\ s.shortcut \in BOOLEAN
      BY <2>3 DEF IInv, Whole, InputInv, Sync
    <3>2. QED
      BY <1>2, <2>3, <3>1 DEF Seeded, Keeps
  <2>4. QED
    BY <2>1, <2>2, <2>3
<1> HIDE DEF r1
<1>5. InputInv(r1, world', open)
  BY <1>2, <1>4, SeededKeeps DEF IInv, Whole
<1>6. /\ Keeps(q, r1, {"capturing"}) /\ q.capturing = IF d = "binding" THEN TRUE ELSE r1.capturing
  BY <1>4, SeededRest DEF Keeps, Fields
<1> HIDE DEF q
<1>7. Keeps(q, r1, Aside)
  BY <1>6 DEF Keeps, Aside
<1>8. DOMAIN world' = WorldFields
  BY <1>2 DEF SameAccounts
<1>9. InputInv(q, world', open)
  BY <1>5, <1>7, <1>8, SameWorld, QuietKeeps
<1>10. /\ q.registered = s.registered /\ q.mounted = s.mounted /\ q.surfaces = s.surfaces
       /\ q.handlers = s.handlers /\ q.codes = s.codes /\ q.padRes = s.padRes /\ q.mode = s.mode
       /\ r1.capturing = s.capturing
  BY <1>4, <1>6, SeededRest DEF Keeps, Fields
<1>11. Mounted(q, shown)
  BY <1>10 DEF IInv, Whole, Mounted
<1>12. Dialogged(q, shown, open)
  BY <1>1, <1>6, <1>10 DEF IInv, Whole, Dialogged
<1>13. QED
  BY <1>1, <1>9, <1>11, <1>12 DEF IInv, Whole

LEMMA Folds ==
  ASSUME NEW r, DOMAIN r = Fields, Sync(r)
  PROVE  LET q == SetCommandMode(r, FALSE)
         IN  Keeps(q, r, Mode) /\ q.mode = FALSE /\ Sync(q)
<1> DEFINE q == SetCommandMode(r, FALSE)
<1>1. /\ Keeps(q, r, Mode) /\ q.mode = FALSE
      /\ q.held = IF r.mode # FALSE /\ r.last # None THEN Last(r).buttons ELSE r.held
  BY Modes
<1> HIDE DEF q
<1>2. q.last = r.last /\ q.shortcut = r.shortcut /\ q.followDown = r.followDown /\ Last(q) = Last(r)
  BY <1>1 DEF Keeps, Mode, Window, Fields, Last
<1>3. Sync(q)
  BY <1>1, <1>2 DEF Sync
<1>4. QED
  BY <1>1, <1>3 DEF q

Fronts == {"surfaces", "handlers", "before", "uiOwner", "face"}

LEMMA CleansUp ==
  ASSUME NEW r, NEW now, DOMAIN r = Fields
  PROVE  LET q    == CleanUp(r, now)
             gone == shown.mounted \ now.mounted
         IN  /\ Keeps(q, r, Fronts \cup {"codes", "active", "snap"})
             /\ q.surfaces = r.surfaces \ gone /\ q.handlers = r.handlers \ gone
             /\ q.codes = (IF shown.listening /\ ~now.listening THEN {} ELSE r.codes)
             /\ q.snap = r.snap \/ q.snap = None
<1> DEFINE gone == shown.mounted \ now.mounted
           r1 == Unregister(r, gone)
           r2 == IF shown.listening /\ ~now.listening THEN [r1 EXCEPT !.codes = {}] ELSE r1
           q  == CleanUp(r, now)
<1>1. q = IF shown.enabled /\ ~now.enabled THEN [r2 EXCEPT !.active = FALSE, !.snap = None] ELSE r2
  BY DEF CleanUp
<1> HIDE DEF gone
<1>2. Keeps(r1, r, Fronts) /\ r1.surfaces = r.surfaces \ gone /\ r1.handlers = r.handlers \ gone
  BY DEF Unregister, Keeps, Fronts, Fields
<1> HIDE DEF r1
<1>3. r1.codes = r.codes /\ r1.snap = r.snap
  BY <1>2 DEF Keeps, Fronts, Fields
<1>4. /\ Keeps(r2, r1, {"codes"})
      /\ r2.codes = (IF shown.listening /\ ~now.listening THEN {} ELSE r1.codes)
  BY <1>2 DEF Keeps, Fields
<1> HIDE DEF r2, q
<1>5. Keeps(q, r2, {"active", "snap"}) /\ (q.snap = r2.snap \/ q.snap = None)
  BY <1>1, <1>4 DEF Keeps, Fields
<1>6. /\ q.surfaces = r1.surfaces /\ q.handlers = r1.handlers /\ q.codes = r2.codes /\ r2.snap = r1.snap
  BY <1>4, <1>5 DEF Keeps, Fields
<1>7. Keeps(q, r, Fronts \cup {"codes", "active", "snap"})
  BY <1>2, <1>4, <1>5 DEF Keeps
<1>8. QED
  BY <1>2, <1>3, <1>4, <1>5, <1>6, <1>7 DEF q, gone

\* The new surface is registered, and a mode without a table is folded.
LEMMA SurfacesTakeEffect ==
  ASSUME NEW r, NEW now, DOMAIN r = Fields, Sync(r),
         \A f, g \in now.mounted \ shown.mounted : f = g
  PROVE  LET q   == SurfaceEffects(r, now)
             new == now.mounted \ shown.mounted
         IN  /\ Keeps(q, r, Fronts \cup Mode) /\ Sync(q)
             /\ q.surfaces = r.surfaces \cup new /\ q.handlers = r.handlers \cup new
             /\ q.mode => r.mode /\ ~(now.mode /\ \E f \in now.mounted : ~now.index[f])
<1> DEFINE new  == now.mounted \ shown.mounted
           r1   == Register(r, new)
           fold == now.mode /\ \E f \in now.mounted : ~now.index[f]
           r2   == IF fold THEN SetCommandMode(r1, FALSE) ELSE r1
           q    == SurfaceEffects(r, now)
<1>1. \E faces : q = [r2 EXCEPT !.face = faces]
  BY DEF SurfaceEffects
<1>2. Keeps(r1, r, Fronts) /\ r1.surfaces = r.surfaces \cup new /\ r1.handlers = r.handlers \cup new
  <2>1. CASE new = {}
    BY <2>1 DEF Register, Keeps
  <2>2. CASE new # {}
    <3> DEFINE f == CHOOSE x \in new : TRUE
               q1 == [r EXCEPT !.surfaces = @ \cup {f}, !.handlers = @ \cup {f},
                               !.before = @ \cup (r.surfaces \X {f}),
                               !.uiOwner = IF @ = NoSurface THEN f ELSE @]
    <3>1. r1 = q1
      BY <2>2 DEF Register
    <3>2. f \in new
      BY <2>2
    <3>3. new = {f}
      BY <3>2
    <3> HIDE DEF f, new
    <3>4. Keeps(q1, r, Fronts) /\ q1.surfaces = r.surfaces \cup {f} /\ q1.handlers = r.handlers \cup {f}
      BY DEF Keeps, Fronts, Fields
    <3>5. QED
      BY <3>1, <3>3, <3>4
  <2>3. QED
    BY <2>1, <2>2
<1> HIDE DEF r1, new, fold
<1>3. /\ r1.last = r.last /\ r1.shortcut = r.shortcut /\ r1.mode = r.mode /\ r1.held = r.held
      /\ r1.followDown = r.followDown /\ DOMAIN r1 = Fields
  BY <1>2 DEF Keeps, Fronts, Fields
<1>4. Sync(r1)
  BY <1>3 DEF Sync, Last
<1>5. Keeps(r2, r1, Mode) /\ Sync(r2) /\ (r2.mode => r1.mode /\ ~fold)
  <2>1. CASE fold
    BY <2>1, <1>3, <1>4, Folds
  <2>2. CASE ~fold
    BY <2>2, <1>3, <1>4 DEF Keeps
  <2>3. QED
    BY <2>1, <2>2
<1> HIDE DEF r2, q
<1>6. Keeps(q, r2, {"face"})
  BY <1>1, <1>5 DEF Keeps, Fields
<1>7. /\ q.last = r2.last /\ q.shortcut = r2.shortcut /\ q.mode = r2.mode /\ q.held = r2.held
      /\ q.followDown = r2.followDown
  BY <1>6 DEF Keeps, Fields
<1>8. Sync(q)
  BY <1>5, <1>7 DEF Sync, Last
<1>9. q.surfaces = r1.surfaces /\ q.handlers = r1.handlers
  BY <1>5, <1>6 DEF Keeps, Mode, Window, Fields
<1>10. Keeps(q, r, Fronts \cup Mode)
  BY <1>2, <1>5, <1>6 DEF Keeps, Fronts
<1>11. QED
  BY <1>2, <1>3, <1>5, <1>7, <1>8, <1>9, <1>10 DEF q, new, fold

Observation == Mode \cup {"padRes", "steps", "marked", "prefixDown", "last", "shortcut", "followDown"}

\* A reset forgets the reading, the shortcut and the mode together.
LEMMA Resets ==
  ASSUME NEW r, DOMAIN r = Fields, Sync(r)
  PROVE  LET q == Reset(r)
         IN  /\ Keeps(q, r, Observation) /\ Sync(q) /\ q.mode = FALSE /\ q.shortcut = FALSE
             /\ q.padRes = Unresolved
<1> DEFINE r1 == [r EXCEPT !.padRes = Unresolved, !.held = {}, !.pending = None, !.seedNext = FALSE,
              !.steps = << >>, !.marked = FALSE, !.prefixDown = FALSE, !.last = None]
           r2 == LeaveShortcut(r1)
           q  == Reset(r)
<1>1. q = SetCommandMode(r2, FALSE)
  BY DEF Reset
<1>2. /\ Keeps(r1, r, Window \cup {"padRes", "steps", "marked", "prefixDown", "last"})
      /\ r1.last = None /\ r1.held = {} /\ r1.padRes = Unresolved
  BY DEF Keeps, Window, Fields
<1> HIDE DEF r1
<1>3. r1.shortcut = r.shortcut /\ r1.mode = r.mode
  BY <1>2 DEF Keeps, Window, Fields
<1>4. /\ Keeps(r2, r1, Window \cup {"shortcut", "followDown"}) /\ r2.shortcut = FALSE /\ r2.held = {}
  BY <1>2, <1>3, Leaves DEF Sync, Keeps
<1> HIDE DEF r2
<1>5. r2.last = None /\ r2.mode = r.mode /\ r2.padRes = Unresolved
  BY <1>2, <1>3, <1>4 DEF Keeps, Window, Fields
<1>6. Sync(r2)
  BY <1>4, <1>5 DEF Sync
<1>7. Keeps(q, r2, Mode) /\ q.mode = FALSE /\ Sync(q)
  BY <1>1, <1>4, <1>6, Folds DEF Keeps
<1> HIDE DEF q
<1>8. q.shortcut = FALSE /\ q.padRes = Unresolved
  BY <1>4, <1>5, <1>7 DEF Keeps, Mode, Window, Fields
<1>9. Keeps(q, r, Observation)
  BY <1>2, <1>4, <1>7 DEF Keeps, Observation, Mode
<1>10. QED
  BY <1>7, <1>8, <1>9 DEF q

LEMMA ProviderTakesEffect ==
  ASSUME NEW r, NEW now, DOMAIN r = Fields, Sync(r)
  PROVE  LET q == ProviderEffects(r, now)
         IN  /\ Keeps(q, r, Observation \cup {"profile", "keyRes", "owner"}) /\ Sync(q)
             /\ q.profile = IF now.profile = shown.profile THEN r.profile ELSE now.profile
             /\ q.mode => r.mode
             /\ q.shortcut => r.shortcut
             /\ LostPad(now) => q.padRes = Unresolved /\ q.mode = FALSE
             /\ ~LostPad(now) => q.padRes = r.padRes /\ q.last = r.last
             /\ \/ q.keyRes = r.keyRes
                \/ q.keyRes = Unresolved /\ (~now.enabled \/ (shown.registered /\ ~now.registered))
<1> DEFINE r1 == ProfileEffect(r, now)
           r2 == DisconnectEffect(r1, now)
           r3 == RegisteredEffect(r2, now)
           r4 == [r3 EXCEPT !.owner = s.uiOwner]
           q  == ProviderEffects(r, now)
<1>1. q = DeliverEffect(r4, s.steps)
  BY DEF ProviderEffects
<1>2. /\ Keeps(r1, r, {"seedNext", "profile"})
      /\ r1.profile = IF now.profile = shown.profile THEN r.profile ELSE now.profile
  BY DEF ProfileEffect, Keeps, Fields
<1> HIDE DEF r1
<1>3. /\ r1.last = r.last /\ r1.shortcut = r.shortcut /\ r1.mode = r.mode /\ r1.held = r.held
      /\ r1.followDown = r.followDown /\ r1.padRes = r.padRes /\ r1.keyRes = r.keyRes
  BY <1>2 DEF Keeps, Fields
<1>4. Sync(r1)
  BY <1>3 DEF Sync, Last
<1>5. /\ Keeps(r2, r1, Observation \cup {"keyRes"}) /\ Sync(r2)
      /\ (r2.mode => r1.mode) /\ (r2.shortcut => r1.shortcut)
      /\ LostPad(now) => r2.padRes = Unresolved /\ r2.mode = FALSE
      /\ ~LostPad(now) => r2.padRes = r1.padRes /\ r2.last = r1.last
      /\ r2.keyRes = r1.keyRes \/ (r2.keyRes = Unresolved /\ ~now.enabled)
  <2>1. CASE LostPad(now)
    <3> DEFINE p == [r1 EXCEPT !.keyRes = IF now.enabled THEN @ ELSE Unresolved]
    <3>1. r2 = Reset(p)
      BY <2>1 DEF DisconnectEffect
    <3>2. /\ Keeps(p, r1, {"keyRes"})
          /\ p.keyRes = r1.keyRes \/ (p.keyRes = Unresolved /\ ~now.enabled)
      BY <1>2 DEF Keeps, Fields
    <3> HIDE DEF p, r2
    <3>3. /\ p.last = r1.last /\ p.shortcut = r1.shortcut /\ p.mode = r1.mode /\ p.held = r1.held
          /\ p.followDown = r1.followDown
      BY <3>2 DEF Keeps, Fields
    <3>4. Sync(p)
      BY <3>3, <1>4 DEF Sync, Last
    <3>5. /\ Keeps(r2, p, Observation) /\ Sync(r2) /\ r2.mode = FALSE /\ r2.shortcut = FALSE
          /\ r2.padRes = Unresolved
      BY <3>1, <3>2, <3>4, Resets DEF Keeps
    <3>6. r2.keyRes = p.keyRes
      BY <3>5 DEF Keeps, Observation, Mode, Window, Fields
    <3>7. Keeps(r2, r1, Observation \cup {"keyRes"})
      BY <3>2, <3>5 DEF Keeps
    <3>8. QED
      BY <2>1, <3>2, <3>5, <3>6, <3>7
  <2>2. CASE ~LostPad(now)
    BY <2>2, <1>2, <1>4 DEF DisconnectEffect, Keeps
  <2>3. QED
    BY <2>1, <2>2
<1> HIDE DEF r2
<1>6. /\ Keeps(r3, r2, {"keyRes"})
      /\ r3.keyRes = r2.keyRes \/ (r3.keyRes = Unresolved /\ shown.registered /\ ~now.registered)
  BY <1>5 DEF RegisteredEffect, Keeps, Fields
<1> HIDE DEF r3
<1>7. Keeps(r4, r3, {"owner"})
  BY <1>6 DEF Keeps, Fields
<1> HIDE DEF r4
<1>8. Keeps(q, r4, {"marked", "steps", "face"})
  <2> DEFINE marked == [r4 EXCEPT !.marked = s.steps # << >>,
                           !.steps = [i \in DOMAIN @ |-> [@[i] EXCEPT !.new = FALSE]]]
  <2>1. \/ q = r4 \/ q = marked
        \/ \E n, read : q = [marked EXCEPT !.face[r4.owner].steps = n, !.face[r4.owner].read = read]
    <3> DEFINE fresh   == Fresh(s.steps, r4.marked)
               result  == [i \in DOMAIN fresh |-> ResolveStep(fresh[i].step, Moves, shown.face[r4.owner].rush)]
               added   == IF \E i \in DOMAIN fresh : result[i] = "added" THEN 1 ELSE 0
               changed == (\E i \in DOMAIN s.steps : s.steps[i].new) \/ (s.steps = << >> /\ shown.steps)
               r5 == [marked EXCEPT !.face[r4.owner].steps = IF @ + added <= MaxSteps THEN @ + added ELSE MaxSteps,
                      !.face[r4.owner].read = result[1]]
    <3>1. q = IF ~changed THEN r4
              ELSE IF fresh = << >> \/ ~HasHandler(r4) THEN marked ELSE r5
      BY <1>1 DEF DeliverEffect
    <3> HIDE DEF changed, fresh, result, added, marked
    <3>2. \E n, read : r5 = [marked EXCEPT !.face[r4.owner].steps = n, !.face[r4.owner].read = read]
      OBVIOUS
    <3> HIDE DEF r5, q
    <3>3. q = r4 \/ q = marked \/ q = r5
      BY <3>1
    <3>4. QED
      BY <3>2, <3>3
  <2>2. Keeps(marked, r4, {"marked", "steps"})
    BY <1>7 DEF Keeps, Fields
  <2> HIDE DEF marked, q
  <2>3. CASE q = r4 \/ q = marked
    BY <2>2, <2>3, <1>7 DEF Keeps
  <2>4. CASE \E n, read : q = [marked EXCEPT !.face[r4.owner].steps = n, !.face[r4.owner].read = read]
    <3>1. Keeps(q, marked, {"face"})
      BY <2>2, <2>4 DEF Keeps, Fields
    <3>2. QED
      BY <2>2, <3>1 DEF Keeps
  <2>5. QED
    BY <2>1, <2>3, <2>4
<1> HIDE DEF q
<1>9. Keeps(q, r2, {"keyRes", "owner", "marked", "steps", "face"}) /\ q.keyRes = r3.keyRes
  <2>1. Keeps(q, r2, {"keyRes", "owner", "marked", "steps", "face"})
    BY <1>6, <1>7, <1>8 DEF Keeps
  <2>2. q.keyRes = r3.keyRes
    BY <1>7, <1>8 DEF Keeps, Fields
  <2>3. QED
    BY <2>1, <2>2
<1>10. /\ q.last = r2.last /\ q.shortcut = r2.shortcut /\ q.mode = r2.mode /\ q.held = r2.held
       /\ q.followDown = r2.followDown /\ q.padRes = r2.padRes /\ q.profile = r2.profile
  BY <1>9 DEF Keeps, Fields
<1>11. Sync(q)
  BY <1>5, <1>10 DEF Sync, Last
<1>12. Keeps(q, r, Observation \cup {"profile", "keyRes", "owner"})
  BY <1>2, <1>5, <1>9 DEF Keeps, Observation, Mode, Window
<1>13. r2.profile = r1.profile
  BY <1>5 DEF Keeps, Observation, Mode, Window, Fields
<1>14. \/ q.keyRes = r.keyRes
       \/ q.keyRes = Unresolved /\ (~now.enabled \/ (shown.registered /\ ~now.registered))
  BY <1>3, <1>5, <1>6, <1>9
<1>15. QED
  BY <1>2, <1>3, <1>5, <1>10, <1>11, <1>12, <1>13, <1>14 DEF q

LEMMA CommitKeeps == ASSUME IInv, Commit PROVE IInv'
<1> DEFINE now == Rendered(s)
           r1  == CleanUp(s, now)
           r2  == SurfaceEffects(r1, now)
           q   == ProviderEffects(r2, now)
           v   == [world EXCEPT !.forgotten = IF LostPad(now) THEN @ \cup world.known ELSE @,
                                !.reread = @ \/ now.profile # shown.profile]
           gone == shown.mounted \ now.mounted
           new  == now.mounted \ shown.mounted
<1>1. s' = q /\ shown' = now /\ world' = v /\ UNCHANGED modal
  BY DEF Commit
<1>2. /\ now.mounted = s.mounted /\ now.mode = s.mode /\ now.registered = s.registered
      /\ now.index = s.index /\ now.enabled = (s.surfaces # {})
      /\ now.listening = (s.surfaces # {} /\ ~s.capturing)
  BY DEF Rendered
<1> HIDE DEF now
<1>3. DOMAIN s = Fields /\ Sync(s) /\ (\A f, g \in new : f = g)
  BY <1>2 DEF IInv, Whole, InputInv, Typed, Mounted
<1>4. /\ Keeps(r1, s, Fronts \cup {"codes", "active", "snap"})
      /\ r1.surfaces = s.surfaces \ gone /\ r1.handlers = s.handlers \ gone
      /\ r1.codes = (IF shown.listening /\ ~now.listening THEN {} ELSE s.codes)
      /\ r1.snap = s.snap \/ r1.snap = None
  BY <1>3, CleansUp
<1> HIDE DEF r1
<1>5. /\ r1.last = s.last /\ r1.shortcut = s.shortcut /\ r1.mode = s.mode /\ r1.held = s.held
      /\ r1.followDown = s.followDown /\ r1.padRes = s.padRes /\ r1.keyRes = s.keyRes
      /\ r1.profile = s.profile /\ r1.registered = s.registered /\ r1.capturing = s.capturing
      /\ r1.mounted = s.mounted /\ DOMAIN r1 = Fields
  BY <1>4 DEF Keeps, Fronts, Fields
<1>6. Sync(r1)
  BY <1>3, <1>5 DEF Sync, Last
<1>7. /\ Keeps(r2, r1, Fronts \cup Mode) /\ Sync(r2)
      /\ r2.surfaces = r1.surfaces \cup new /\ r2.handlers = r1.handlers \cup new
      /\ r2.mode => r1.mode /\ ~(now.mode /\ \E f \in now.mounted : ~now.index[f])
  BY <1>3, <1>5, <1>6, SurfacesTakeEffect
<1> HIDE DEF r2
<1>8. /\ r2.last = r1.last /\ r2.shortcut = r1.shortcut /\ r2.padRes = r1.padRes
      /\ r2.keyRes = r1.keyRes /\ r2.profile = r1.profile /\ r2.codes = r1.codes /\ r2.snap = r1.snap
      /\ r2.registered = r1.registered /\ r2.capturing = r1.capturing /\ r2.mounted = r1.mounted
      /\ DOMAIN r2 = Fields
  BY <1>7 DEF Keeps, Fronts, Mode, Window, Fields
<1>9. /\ Keeps(q, r2, Observation \cup {"profile", "keyRes", "owner"}) /\ Sync(q)
      /\ q.profile = IF now.profile = shown.profile THEN r2.profile ELSE now.profile
      /\ q.mode => r2.mode
      /\ q.shortcut => r2.shortcut
      /\ LostPad(now) => q.padRes = Unresolved /\ q.mode = FALSE
      /\ ~LostPad(now) => q.padRes = r2.padRes /\ q.last = r2.last
      /\ \/ q.keyRes = r2.keyRes
         \/ q.keyRes = Unresolved /\ (~now.enabled \/ (shown.registered /\ ~now.registered))
  BY <1>7, <1>8, ProviderTakesEffect
<1> HIDE DEF q
<1>10. /\ q.codes = r1.codes /\ q.snap = r1.snap /\ q.surfaces = r2.surfaces
       /\ q.handlers = r2.handlers /\ q.registered = s.registered /\ q.capturing = s.capturing
       /\ q.mounted = s.mounted /\ DOMAIN q = Fields
  BY <1>5, <1>8, <1>9 DEF Keeps, Observation, Mode, Window, Fields
<1>11. /\ DOMAIN v = WorldFields /\ v.pad = world.pad /\ v.keys = world.keys /\ v.known = world.known
       /\ v.again = world.again /\ v.reread = (world.reread \/ now.profile # shown.profile)
       /\ v.forgotten = IF LostPad(now) THEN world.forgotten \cup world.known ELSE world.forgotten
  BY DEF IInv, Whole, InputInv, Typed, WorldFields
<1> HIDE DEF v
<1>12. /\ ("binding" \in modal) <=> s.capturing
       /\ s.registered # shown.registered => s.capturing
       /\ ~shown.listening \/ ~shown.registered => s.codes = {}
       /\ ~shown.enabled => ~s.padRes.ok
  BY DEF IInv, Whole, Dialogged
<1>13. ~now.listening \/ ~now.registered => q.codes = {}
  BY <1>2, <1>4, <1>10, <1>12
<1>14. Typed(q, v)
  <2>1. q.padRes = s.padRes \/ q.padRes = Unresolved
    BY <1>5, <1>8, <1>9
  <2>2. q.keyRes = s.keyRes \/ q.keyRes = Unresolved
    BY <1>5, <1>8, <1>9
  <2>3. s.padRes.buttons \subseteq Buttons /\ s.keyRes.buttons \subseteq Buttons /\ Unresolved.buttons = {}
    BY DEF IInv, Whole, InputInv, Typed, Unresolved
  <2>4. q.padRes.buttons \subseteq Buttons /\ q.keyRes.buttons \subseteq Buttons
    BY <2>1, <2>2, <2>3
  <2>5. v.reread \in BOOLEAN
    BY <1>11 DEF IInv, Whole, InputInv, Typed
  <2>6. QED
    BY <2>4, <2>5, <1>10, <1>11 DEF IInv, Whole, InputInv, Typed
<1>15. PadRead(q, v)
  <2>1. ~Unresolved.ok
    BY DEF Unresolved
  <2>2. CASE ~LostPad(now) /\ now.profile = shown.profile
    <3>1. q.padRes = s.padRes /\ q.profile = s.profile /\ (q.snap = s.snap \/ q.snap = None)
      BY <2>2, <1>4, <1>5, <1>8, <1>9, <1>10
    <3>2. PadRead(s, world)
      BY DEF IInv, Whole, InputInv
    <3>3. v.reread = world.reread /\ v.pad = world.pad
      BY <2>2, <1>11 DEF IInv, Whole, InputInv, Typed
    <3>4. QED
      BY <3>1, <3>2, <3>3 DEF PadRead, Means
  <2>3. CASE LostPad(now)
    BY <2>1, <2>3, <1>9 DEF PadRead
  <2>4. CASE now.profile # shown.profile
    BY <2>4, <1>11 DEF PadRead
  <2>5. QED
    BY <2>2, <2>3, <2>4
<1>16. KeysRead(q)
  <2>1. CASE q.codes = {}
    BY <2>1 DEF KeysRead
  <2>2. CASE q.codes # {}
    <3>1. now.listening /\ now.registered
      BY <2>2, <1>13
    <3>2. q.keyRes = s.keyRes /\ q.codes = s.codes
      BY <3>1, <2>2, <1>2, <1>4, <1>5, <1>8, <1>9, <1>10
    <3>3. QED
      BY <3>2 DEF IInv, Whole, InputInv, KeysRead
  <2>3. QED
    BY <2>1, <2>2
<1>17. Kept(q, v)
  <2>1. SUFFICES ASSUME NEW b \in Buttons, NEW i \in Pressed(q, v, b) \cap v.known,
                        i \notin v.forgotten, ~(v.reread /\ i \in v.pad)
                 PROVE  q.last # None /\ b \in Last(q).buttons
    BY DEF Kept
  <2>2. ~LostPad(now) /\ i \notin world.forgotten /\ i \in world.known
    BY <2>1, <1>11
  <2>3. q.last = s.last
    BY <2>2, <1>5, <1>8, <1>9
  <2>4. i \in Pressed(s, world, b)
    <3>1. CASE i \in world.keys \cap MoveKeys /\ KeyTarget[i] = b
      BY <3>1 DEF Pressed
    <3>2. CASE ~(i \in world.keys \cap MoveKeys /\ KeyTarget[i] = b)
      <4>1. i \in v.pad /\ q.profile # NoProfile /\ Target[q.profile][i] = b
        BY <2>1, <3>2, <1>11 DEF Pressed
      <4>2. q.profile = s.profile
        BY <2>1, <4>1, <1>5, <1>8, <1>9, <1>11
      <4>3. QED
        BY <4>1, <4>2, <1>11 DEF Pressed
    <3>3. QED
      BY <3>1, <3>2
  <2>5. world.reread => v.reread
    BY <1>11
  <2>6. s.last # None /\ b \in Last(s).buttons
    BY <2>1, <2>2, <2>4, <2>5, <1>11 DEF IInv, Whole, InputInv, Kept
  <2>7. QED
    BY <2>3, <2>6 DEF Last
<1>18. modal # {} => ~q.shortcut
  BY <1>5, <1>8, <1>9 DEF IInv, Whole, InputInv
<1>19. InputInv(q, v, modal)
  <2>1. {"step", "operation"} \cap v.again = {}
    BY <1>11 DEF IInv, Whole, InputInv
  <2>2. QED
    BY <2>1, <1>9, <1>14, <1>15, <1>16, <1>17, <1>18 DEF InputInv
<1>20. Dialogged(q, now, modal)
  <2>1. ~now.enabled => ~q.padRes.ok
    <3>1. ASSUME ~now.enabled PROVE ~q.padRes.ok
      <4>1. CASE LostPad(now)
        BY <4>1, <1>9 DEF Unresolved
      <4>2. CASE ~LostPad(now)
        <5>1. ~shown.enabled
          BY <3>1, <4>2 DEF LostPad
        <5>2. q.padRes = s.padRes
          BY <4>2, <1>5, <1>8, <1>9
        <5>3. QED
          BY <5>1, <5>2, <1>12
      <4>3. QED
        BY <4>1, <4>2
    <3>2. QED
      BY <3>1
  <2>2. QED
    BY <2>1, <1>2, <1>10, <1>12, <1>13 DEF Dialogged
<1>21. Mounted(q, now)
  <2>1. s.handlers = shown.mounted /\ s.surfaces = shown.mounted
    BY DEF IInv, Whole, Mounted
  <2>2. q.handlers = s.mounted /\ q.surfaces = s.mounted
    BY <2>1, <1>2, <1>4, <1>7, <1>10
  <2>3. q.mode /\ now.mode => \A f \in now.mounted : now.index[f]
    BY <1>7, <1>9
  <2>4. q.mode /\ now.mounted = {} => now.enabled
    <3>1. SUFFICES ASSUME q.mode, s.mounted = {}, ~now.enabled PROVE FALSE
      BY <1>2
    <3>2. s.mode /\ ~LostPad(now)
      BY <3>1, <1>5, <1>7, <1>9
    <3>3. shown.mounted = {}
      BY <3>1, <2>1, <1>2
    <3>4. shown.enabled
      BY <3>2, <3>3 DEF IInv, Whole, Mounted
    <3>5. QED
      BY <3>1, <3>2, <3>4 DEF LostPad
  <2>5. now.mode \in BOOLEAN
    BY <1>2, <1>3 DEF Sync
  <2>6. QED
    BY <2>2, <2>3, <2>4, <2>5, <1>2, <1>10 DEF Mounted
<1>22. QED
  BY <1>1, <1>19, <1>20, <1>21 DEF IInv, Whole

-----------------------------------------------------------------------------
LEMMA InitHolds == ASSUME Init PROVE IInv
<1>1. /\ DOMAIN s = Fields /\ s.padRes = Unresolved /\ s.keyRes = Unresolved /\ s.last = None
      /\ s.held = {} /\ s.shortcut = FALSE /\ s.mode = FALSE /\ s.surfaces = {} /\ s.handlers = {}
      /\ s.profile = NoProfile /\ s.snap = None /\ s.codes = {} /\ s.registered = TRUE
      /\ s.capturing = FALSE /\ s.mounted = {}
  <2>1. DOMAIN s = Fields
    BY DEF Init, Fields
  <2>2. /\ s.padRes = Unresolved /\ s.keyRes = Unresolved /\ s.last = None
        /\ s.held = {} /\ s.shortcut = FALSE /\ s.mode = FALSE /\ s.surfaces = {} /\ s.handlers = {}
        /\ s.profile = NoProfile /\ s.snap = None /\ s.codes = {} /\ s.registered = TRUE
        /\ s.capturing = FALSE /\ s.mounted = {}
    BY DEF Init
  <2>3. QED
    BY <2>1, <2>2
<1>2. /\ DOMAIN world = WorldFields /\ world.pad = {} /\ world.keys = {} /\ world.known = {}
      /\ world.reread = FALSE /\ world.again = {}
  BY DEF Init, WorldFields
<1>3. shown = Rendered(s) /\ modal = {}
  BY DEF Init
<1>4. /\ shown.mounted = {} /\ shown.mode = FALSE /\ shown.registered = TRUE
      /\ shown.enabled = FALSE /\ shown.listening = FALSE
  BY <1>1, <1>3 DEF Rendered
<1>5. Typed(s, world) /\ Sync(s) /\ PadRead(s, world) /\ KeysRead(s) /\ Kept(s, world)
  <2>1. Typed(s, world)
    <3>1. Unresolved.buttons = {}
      BY DEF Unresolved
    <3>2. s.padRes.buttons \subseteq Buttons /\ s.keyRes.buttons \subseteq Buttons
      BY <1>1, <3>1
    <3>3. world.reread \in BOOLEAN
      BY <1>2
    <3>4. QED
      BY <1>1, <1>2, <3>2, <3>3 DEF Typed
  <2>2. Sync(s) /\ KeysRead(s)
    BY <1>1 DEF Sync, KeysRead
  <2>3. PadRead(s, world)
    BY <1>1 DEF PadRead, Means
  <2>4. Kept(s, world)
    BY <1>2 DEF Kept
  <2>5. QED
    BY <2>1, <2>2, <2>3, <2>4
<1>6. InputInv(s, world, modal)
  BY <1>1, <1>2, <1>5 DEF InputInv
<1>7. Dialogged(s, shown, modal)
  <2>1. ~s.padRes.ok
    BY <1>1 DEF Unresolved
  <2>2. s.capturing = FALSE /\ s.codes = {} /\ s.registered = shown.registered /\ modal = {}
    BY <1>1, <1>3, <1>4
  <2>3. QED
    BY <2>1, <2>2 DEF Dialogged
<1>8. Mounted(s, shown)
  BY <1>1, <1>4 DEF Mounted
<1>9. QED
  BY <1>6, <1>7, <1>8 DEF IInv, Whole

LEMMA StutterKeeps == ASSUME IInv, UNCHANGED vars PROVE IInv'
<1>1. s' = s /\ world' = world /\ shown' = shown /\ modal' = modal
  BY DEF vars
<1>2. QED
  BY <1>1 DEF IInv

LEMMA StepKeeps == ASSUME InputAssumption, IInv, [Next]_vars PROVE IInv'
<1>1. ASSUME NEW pad \in SUBSET PadInputs, PadTick(pad) \/ PadUnread(pad) PROVE IInv'
  BY <1>1, PadTickKeeps, PadUnreadKeeps
<1>2. CASE Plug \/ \E byEvent \in BOOLEAN : Unplug(byEvent)
  BY <1>2, PlugKeeps, UnplugKeeps
<1>3. ASSUME NEW k \in Keys, KeyDown(k) \/ KeyUnread(k) \/ KeyUp(k) PROVE IInv'
  BY <1>3, KeyDownKeeps, KeyUnreadKeeps, KeyUpKeeps
<1>4. CASE Blur \/ FlushTimer \/ ShortcutTimeout \/ Commit
  BY <1>4, BlurKeeps, TimersKeep, CommitKeeps
<1>5. ASSUME NEW f \in Surfaces,
             \/ Mount(f) \/ Unmount(f) \/ Claim(f)
             \/ ChangeCharacter(f) \/ ToggleRush(f) \/ SaveSettles(f)
      PROVE  IInv'
  BY <1>5, MountsKeep, PagesKeep
<1>6. ASSUME NEW d \in Dialogs, OpenDialog(d) \/ CloseDialog(d) PROVE IInv'
  BY <1>6, OpenDialogKeeps, CloseDialogKeeps
<1>7. ASSUME NEW p, StoreProfile(p) PROVE IInv'
  BY <1>7, StoreProfileKeeps
<1>8. ASSUME NEW on, StoreKeys(on) PROVE IInv'
  BY <1>8, StoreKeysKeeps
<1>9. CASE UNCHANGED vars
  BY <1>9, StutterKeeps
<1>10. QED
  BY <1>1, <1>2, <1>3, <1>4, <1>5, <1>6, <1>7, <1>8, <1>9 DEF Next

LEMMA Invariance == ASSUME InputAssumption PROVE Spec => []IInv
<1>1. IInv /\ [Next]_vars => IInv'
  BY StepKeeps
<1>2. Init => IInv
  BY InitHolds
<1>3. QED
  BY <1>1, <1>2, PTL DEF Spec

\* A press that a sample has seen is taken once, as a step or as an operation, but for the
\* presses that PressTakenOnce excuses (PhysicalInputProvider, useStepDetection).
THEOREM TakenOnce == ASSUME InputAssumption PROVE Spec => []PressTakenOnce
<1>1. IInv => PressTakenOnce
  BY DEF IInv, Whole, InputInv, PressTakenOnce
<1>2. QED
  BY <1>1, Invariance, PTL

\* What counts as held is what was read last, and the command mode stands only where it has a
\* table of commands (SetCommandMode, LeaveShortcut, Reset and the effects of a render).
THEOREM StaysInSync == ASSUME InputAssumption PROVE Spec => []InputInSync
<1>1. ASSUME IInv PROVE HeldInSync
  BY <1>1 DEF IInv, Whole, InputInv, Sync, HeldInSync
<1>2. ASSUME IInv PROVE ModeHasTable
  <2>1. SUFFICES ASSUME Settled, s.mode
                 PROVE  shown.mounted # {} /\ \A f \in shown.mounted : shown.index[f]
    BY DEF ModeHasTable
  <2>2. Rendered(s) = shown
    BY <2>1 DEF Settled
  <2>3. shown.mode = s.mode /\ shown.enabled = (s.surfaces # {})
    BY <2>2 DEF Rendered
  <2>4. QED
    BY <1>2, <2>1, <2>3 DEF IInv, Whole, Mounted
<1>3. IInv => InputInSync
  BY <1>1, <1>2 DEF InputInSync
<1>4. QED
  BY <1>3, Invariance, PTL
=============================================================================
