----------------------- MODULE InputRegistrationProofs -----------------------
(***************************************************************************)
(* That no input ever has two targets, and that one press fills one        *)
(* target, for any targets, inputs, keys and orders.                       *)
(*                                                                         *)
(* Neither rests on the order that is walked through: a target outside of  *)
(* the profile would change nothing.  So nothing is said of cursors.       *)
(***************************************************************************)
EXTENDS InputRegistration, TLAPS

-----------------------------------------------------------------------------
(* Sessions of registration, for pads and keys alike.                      *)

ProfilesOf(Targets, Bindings) ==
  {p \in [Targets -> Bindings \cup {Unbound}] : Distinct(p, Bindings)}

\* The question that is open is about an input that `existing` has and `target` is to get.
Question(k, profile, Bindings) ==
  /\ k.existing # k.target
  /\ k.existing \in DOMAIN profile
  /\ profile[k.existing] = k.input
  /\ k.input \in Bindings

\* A session: its profile gives distinct bindings, and a question it asks fits the profile.
HasParts(c, p, Bindings) ==
  \E order, cursor, k, mode, retaken, refused :
    /\ c = [profile |-> p, order |-> order, cursor |-> cursor, conflict |-> k,
            mode |-> mode, retaken |-> retaken, refused |-> refused]
    /\ k = None \/ Question(The(k), p, Bindings)

Session(c, Targets, Bindings) ==
  \E p \in ProfilesOf(Targets, Bindings) : HasParts(c, p, Bindings)

\* The same, for a record whose fields are known.
LEMMA IsSession ==
  ASSUME NEW T, NEW B, NEW p \in ProfilesOf(T, B), NEW o, NEW n, NEW k, NEW m, NEW a, NEW x,
         k = None \/ Question(The(k), p, B)
  PROVE  Session([profile |-> p, order |-> o, cursor |-> n, conflict |-> k,
                  mode |-> m, retaken |-> a, refused |-> x], T, B)
BY DEF Session, HasParts

\* What the parts of a session are.
LEMMA PartsOfSession ==
  ASSUME NEW T, NEW B, NEW c, Session(c, T, B)
  PROVE  /\ c.profile \in ProfilesOf(T, B)
         /\ c.conflict = None \/ Question(The(c.conflict), c.profile, B)
BY DEF Session, HasParts

\* A session starts with any profile that is distinct, and with no question.
LEMMA StartIsSession ==
  ASSUME NEW T, NEW B, NEW p \in ProfilesOf(T, B), NEW order, NEW first, NEW mode
  PROVE  /\ Session(Start(p, order, first, mode), T, B)
         /\ Start(p, order, first, mode).conflict = None
BY IsSession DEF Start

\* The profile in which nothing is bound is distinct.
LEMMA EmptyIsDistinct ==
  ASSUME NEW T, NEW B, Unbound \notin B
  PROVE  EmptyProfile(T) \in ProfilesOf(T, B)
BY DEF EmptyProfile, ProfilesOf, Distinct

\* An input that nobody else uses may be bound.
LEMMA BindUnused ==
  ASSUME NEW T, NEW B, NEW p \in ProfilesOf(T, B), NEW t, NEW i \in B,
         \A u \in DOMAIN p \ {t} : p[u] # i
  PROVE  [p EXCEPT ![t] = i] \in ProfilesOf(T, B)
BY DEF ProfilesOf, Distinct

\* Recording keeps a session: what is in use is asked about.
LEMMA RecordKeepsSession ==
  ASSUME NEW T, NEW B, NEW c, Session(c, T, B), NEW i \in B
  PROVE  Session(Record(c, i), T, B)
<1>0. PICK p \in ProfilesOf(T, B) : HasParts(c, p, B)
  BY DEF Session
<1>1. PICK o, n, q, m, a, x :
        /\ c = [profile |-> p, order |-> o, cursor |-> n, conflict |-> q,
                mode |-> m, retaken |-> a, refused |-> x]
        /\ q = None \/ Question(The(q), p, B)
  BY <1>0 DEF HasParts
<1> DEFINE t == CurrentTarget(c)
           next == c.cursor + 1
<1>2. CASE Finished(c) \/ c.conflict # None
  BY <1>2 DEF Record
<1>3. CASE ~(Finished(c) \/ c.conflict # None) /\ UserOf(c, i) # {}
  <2> DEFINE u == CHOOSE y \in UserOf(c, i) : TRUE
             k == [target |-> t, input |-> i, existing |-> u]
  <2>1. u \in UserOf(c, i)
    BY <1>3
  <2>2. u # t /\ u \in DOMAIN p /\ p[u] = i
    BY <1>1, <2>1 DEF UserOf
  <2>3. Record(c, i) = [c EXCEPT !.refused = None, !.conflict = Some(k)]
    BY <1>3 DEF Record
  <2> HIDE DEF t, u
  <2>4. Question(k, p, B)
    BY <2>2 DEF Question
  <2> HIDE DEF k
  <2>5. Record(c, i) = [profile |-> p, order |-> o, cursor |-> n, conflict |-> Some(k),
                        mode |-> m, retaken |-> a, refused |-> None]
    BY <1>1, <2>3
  <2>6. Question(The(Some(k)), p, B)
    BY <2>4 DEF The, Some
  <2> QED
    BY <2>5, <2>6, IsSession
<1>4. CASE ~(Finished(c) \/ c.conflict # None) /\ UserOf(c, i) = {}
  <2>1. \A u \in DOMAIN p \ {t} : p[u] # i
    BY <1>1, <1>4 DEF UserOf
  <2>2. Record(c, i) = [c EXCEPT !.profile[t] = i, !.cursor = next,
                                 !.refused = None, !.retaken = None]
    BY <1>4 DEF Record
  <2> DEFINE bound == [p EXCEPT ![t] = i]
  <2> HIDE DEF t, next
  <2>3. bound \in ProfilesOf(T, B)
    BY <2>1, BindUnused
  <2>4. Record(c, i) = [profile |-> bound, order |-> o, cursor |-> next, conflict |-> q,
                        mode |-> m, retaken |-> None, refused |-> None]
    BY <1>1, <2>2
  <2>5. q = None
    BY <1>1, <1>4
  <2> HIDE DEF bound
  <2> QED
    BY <2>3, <2>4, <2>5, IsSession
<1> QED
  BY <1>2, <1>3, <1>4

\* Overwriting takes the input away from the only target that had it.
LEMMA OverwriteKeepsSession ==
  ASSUME NEW T, NEW B, Unbound \notin B, NEW c, Session(c, T, B), c.conflict # None
  PROVE  Session(Overwrite(c), T, B) /\ Overwrite(c).conflict = None
<1>0. PICK p \in ProfilesOf(T, B) : HasParts(c, p, B)
  BY DEF Session
<1>1. PICK o, n, q, m, a, x :
        /\ c = [profile |-> p, order |-> o, cursor |-> n, conflict |-> q,
                mode |-> m, retaken |-> a, refused |-> x]
        /\ q = None \/ Question(The(q), p, B)
  BY <1>0 DEF HasParts
<1> DEFINE k == The(q)
           free == [p EXCEPT ![k.existing] = Unbound]
           new == [free EXCEPT ![k.target] = k.input]
           next == c.cursor + 1
<1>2. Question(k, p, B)
  BY <1>1
<1>3. Overwrite(c) = [c EXCEPT !.profile = [@ EXCEPT ![k.existing] = Unbound, ![k.target] = k.input],
                               !.cursor = next, !.conflict = None, !.refused = None, !.retaken = None]
  BY <1>1 DEF Overwrite
<1> HIDE DEF k, next
<1>4. free \in ProfilesOf(T, B)
  BY DEF ProfilesOf, Distinct
<1>5. \A u \in DOMAIN free \ {k.target} : free[u] # k.input
  BY <1>2 DEF ProfilesOf, Distinct, Question
<1>6. Overwrite(c) = [profile |-> new, order |-> o, cursor |-> next, conflict |-> None,
                      mode |-> m, retaken |-> None, refused |-> None]
  BY <1>1, <1>3
<1>7. new \in ProfilesOf(T, B)
  <2> HIDE DEF free
  <2> QED BY <1>2, <1>4, <1>5, BindUnused DEF Question
<1> HIDE DEF new
<1> QED
  BY <1>6, <1>7, IsSession

\* What is neither bound nor asked about does not matter to a session.
LEMMA DismissKeepsSession ==
  ASSUME NEW T, NEW B, NEW c, Session(c, T, B)
  PROVE  /\ Session([c EXCEPT !.conflict = None], T, B)
         /\ Session(Skip(c), T, B) /\ Skip(c).conflict = None
         /\ \A v : Session([c EXCEPT !.retaken = v], T, B)
         /\ \A v : Session([c EXCEPT !.refused = v], T, B)
<1>0. PICK p \in ProfilesOf(T, B) : HasParts(c, p, B)
  BY DEF Session
<1>1. PICK o, n, q, m, a, x :
        /\ c = [profile |-> p, order |-> o, cursor |-> n, conflict |-> q,
                mode |-> m, retaken |-> a, refused |-> x]
        /\ q = None \/ Question(The(q), p, B)
  BY <1>0 DEF HasParts
<1>2. Session([c EXCEPT !.conflict = None], T, B)
  <2>1. [c EXCEPT !.conflict = None] =
          [profile |-> p, order |-> o, cursor |-> n, conflict |-> None,
           mode |-> m, retaken |-> a, refused |-> x]
    BY <1>1
  <2> QED BY <2>1, IsSession
<1>3. Session(Skip(c), T, B) /\ Skip(c).conflict = None
  <2> DEFINE next == c.cursor + 1
  <2>1. Skip(c) = [c EXCEPT !.cursor = next, !.conflict = None, !.refused = None]
    BY DEF Skip
  <2> HIDE DEF next
  <2>2. Skip(c) = [profile |-> p, order |-> o, cursor |-> next, conflict |-> None,
                   mode |-> m, retaken |-> a, refused |-> None]
    BY <1>1, <2>1
  <2> QED BY <2>2, IsSession
<1>4. ASSUME NEW v PROVE Session([c EXCEPT !.retaken = v], T, B)
  <2>1. [c EXCEPT !.retaken = v] =
          [profile |-> p, order |-> o, cursor |-> n, conflict |-> q,
           mode |-> m, retaken |-> v, refused |-> x]
    BY <1>1
  <2> QED BY <1>1, <2>1, IsSession
<1>5. ASSUME NEW v PROVE Session([c EXCEPT !.refused = v], T, B)
  <2>1. [c EXCEPT !.refused = v] =
          [profile |-> p, order |-> o, cursor |-> n, conflict |-> q,
           mode |-> m, retaken |-> a, refused |-> v]
    BY <1>1
  <2> QED BY <1>1, <2>1, IsSession
<1> QED
  BY <1>2, <1>3, <1>4, <1>5

-----------------------------------------------------------------------------
(* The calibration of the pad.                                             *)

PadSession(c) == Session(c, PadTargets, Inputs)
KeySession(c) == Session(c, KeyTargets, Codes)

\* Going on with the open targets keeps the profile.
LEMMA ResumeKeepsSession ==
  ASSUME NEW c, PadSession(c), NEW a
  PROVE  PadSession(ResumeAfterRetake(c, a))
<1> DEFINE s == Start(c.profile, PadOrder, FirstUnassigned(c.profile, PadOrder), "sequential")
<1>1. PadSession(s)
  BY PartsOfSession, StartIsSession DEF PadSession
<1>2. ResumeAfterRetake(c, a) \in {c, [s EXCEPT !.retaken = a], [c EXCEPT !.retaken = a]}
  BY DEF ResumeAfterRetake
<1> HIDE DEF s
<1>3. PadSession([s EXCEPT !.retaken = a]) /\ PadSession([c EXCEPT !.retaken = a])
  BY <1>1, DismissKeepsSession DEF PadSession
<1> QED
  BY <1>2, <1>3

\* Each click and each press keeps a session.
LEMMA CalibrationKeepsSession ==
  ASSUME NEW c, PadSession(c)
  PROVE  /\ \A i \in Inputs : PadSession(RecordBinding(c, i))
         /\ PadSession(SkipCurrent(c))
         /\ PadSession([c EXCEPT !.conflict = None])
<1>1. ASSUME NEW i \in Inputs PROVE PadSession(RecordBinding(c, i))
  <2>1. PadSession(Record(c, i))
    BY RecordKeepsSession DEF PadSession
  <2>2. RecordBinding(c, i) \in {Record(c, i), ResumeAfterRetake(Record(c, i), Some(CurrentTarget(c)))}
    BY DEF RecordBinding
  <2> QED
    BY <2>1, <2>2, ResumeKeepsSession
<1>2. PadSession(SkipCurrent(c))
  <2>1. PadSession([Skip(c) EXCEPT !.retaken = None])
    BY DismissKeepsSession DEF PadSession
  <2> QED
    BY <2>1, ResumeKeepsSession DEF SkipCurrent
<1>3. PadSession([c EXCEPT !.conflict = None])
  BY DismissKeepsSession DEF PadSession
<1> QED
  BY <1>1, <1>2, <1>3

\* A decided question keeps a session.
LEMMA ConfirmKeepsSession ==
  ASSUME Unbound \notin Inputs, NEW c, PadSession(c), c.conflict # None
  PROVE  PadSession(ConfirmOverwrite(c))
<1>1. PadSession(Overwrite(c))
  BY OverwriteKeepsSession DEF PadSession
<1> QED
  BY <1>1, ResumeKeepsSession DEF ConfirmOverwrite

-----------------------------------------------------------------------------
(* The invariant.                                                          *)

Registered ==
  /\ saved = None \/ \E p \in ProfilesOf(PadTargets, Inputs) : saved = Some(p)
  /\ cal = None \/ \E c : cal = Some(c) /\ PadSession(c)
  /\ savedKeys \in ProfilesOf(KeyTargets, Codes)
  /\ reg = None \/ \E c : reg = Some(c) /\ KeySession(c)
  /\ held \subseteq Inputs

\* The effect that watches the pad keeps a calibration a session.
LEMMA WatchKeepsSession ==
  ASSUME NEW c, c = None \/ \E d : c = Some(d) /\ PadSession(d),
         NEW wait, NEW down \in SUBSET Inputs, NEW seen \in Watch(c, wait, down)
  PROVE  seen[1] = None \/ \E d : seen[1] = Some(d) /\ PadSession(d)
<1>1. CASE c = None
  BY <1>1 DEF Watch
<1>2. CASE c # None
  <2>1. PICK d : c = Some(d) /\ PadSession(d)
    BY <1>2
  <2>2. The(c) = d
    BY <2>1 DEF The, Some
  <2>3. seen[1] = c \/ \E i \in Inputs : seen[1] = Some(RecordBinding(d, i))
    <3> DEFINE recorded == {<<Some(RecordBinding(The(c), i)), TRUE>> : i \in down}
    <3>1. \/ Watch(c, wait, down) = recorded
          \/ \E w : Watch(c, wait, down) = {<<c, w>>}
      BY <1>2 DEF Watch
    <3>2. CASE Watch(c, wait, down) = recorded
      <4>1. PICK i \in down : seen = <<Some(RecordBinding(The(c), i)), TRUE>>
        BY <3>2
      <4> QED BY <4>1, <2>2
    <3>3. ASSUME NEW w, Watch(c, wait, down) = {<<c, w>>} PROVE seen[1] = c
      BY <3>3
    <3> QED BY <3>1, <3>2, <3>3
  <2> QED
    BY <2>1, <2>3, CalibrationKeepsSession
<1> QED
  BY <1>1, <1>2

\* The profile in use is distinct, and so is what the dialog opens with.
LEMMA OpenIsSession ==
  ASSUME RegistrationAssumption, Registered
  PROVE  PadSession(OpenCalibration)
<1>1. Standard \in ProfilesOf(PadTargets, Inputs)
  BY DEF RegistrationAssumption, ProfilesOf
<1>2. ProfileInUse \in ProfilesOf(PadTargets, Inputs)
  <2>1. CASE saved # None
    <3>1. PICK p \in ProfilesOf(PadTargets, Inputs) : saved = Some(p)
      BY <2>1 DEF Registered
    <3>2. The(saved) = p
      BY <3>1 DEF The, Some
    <3> QED BY <2>1, <3>2 DEF ProfileInUse
  <2>2. CASE saved = None
    BY <2>2, <1>1, EmptyIsDistinct DEF ProfileInUse, RegistrationAssumption
  <2> QED BY <2>1, <2>2
<1> QED
  BY <1>1, <1>2, StartIsSession DEF OpenCalibration, PadSession

\* Every step keeps the profiles distinct: one step per action.
LEMMA RegisteredInductive ==
  ASSUME RegistrationAssumption, Registered, [RegistrationNext]_registrationVars
  PROVE  Registered'
<1> DEFINE Pad(c) == c = None \/ \E d : c = Some(d) /\ PadSession(d)
           Key(c) == c = None \/ \E d : c = Some(d) /\ KeySession(d)
<1>0. /\ \A c : The(Some(c)) = c /\ Some(c) # None
      /\ Unbound \notin Inputs /\ Unbound \notin Codes
  BY DEF The, Some, None, RegistrationAssumption
<1>1. Pad(cal) /\ Key(reg) /\ PadSession(OpenCalibration)
  BY OpenIsSession DEF Registered
<1>2. \A c : PadSession(c) => c.profile \in ProfilesOf(PadTargets, Inputs)
  BY PartsOfSession DEF PadSession
<1>3. \A c : KeySession(c) => c.profile \in ProfilesOf(KeyTargets, Codes)
  BY PartsOfSession DEF KeySession
<1>4. ASSUME NEW c, Pad(c), NEW wait, NEW down \in SUBSET Inputs, NEW old, Observe(c, wait, down, old)
      PROVE  Pad(cal')
  BY <1>4, WatchKeepsSession DEF Observe
<1>5. ASSUME NEW c, PadSession(c), NEW wait, Click(c, wait)
      PROVE  Registered'
  <2>1. Pad(cal')
    <3>1. Pad(Some(c))
      BY <1>5
    <3>2. CASE connected
      BY <3>1, <3>2, <1>4, <1>5 DEF Click, Registered
    <3>3. CASE ~connected
      BY <3>1, <3>3, <1>5 DEF Click
    <3> QED BY <3>2, <3>3
  <2> QED
    BY <2>1, <1>5 DEF Click, Registered, keyVars
<1>6. ASSUME NEW c, KeySession(c), Keyed(c)
      PROVE  Registered'
  BY <1>6 DEF Keyed, Registered, padVars
<1>7. CASE OpenPad
  BY <1>7, <1>1 DEF OpenPad, Registered, keyVars
<1>8. CASE ClosePad
  BY <1>8 DEF ClosePad, Registered, keyVars
<1>9. CASE Disconnect
  BY <1>9 DEF Disconnect, Registered, keyVars
<1>10. ASSUME NEW i \in Inputs, Connect(i) PROVE Registered'
  BY <1>10, <1>1 DEF Connect, Registered, keyVars
<1>11. ASSUME NEW i \in Inputs, Press(i) PROVE Registered'
  <2>1. Pad(cal')
    BY <1>11, <1>1, <1>4 DEF Press, Registered
  <2> QED
    BY <2>1, <1>11 DEF Press, Registered, keyVars
<1>12. ASSUME NEW i \in Inputs, Release(i) PROVE Registered'
  <2>1. Pad(cal')
    BY <1>12, <1>1, <1>4 DEF Release, Registered
  <2> QED
    BY <2>1, <1>12 DEF Release, Registered, keyVars
<1>13. ASSUME cal # None PROVE PadSession(The(cal)) /\ cal = Some(The(cal))
  BY <1>13, <1>0, <1>1
<1>14. CASE ConfirmPad
  BY <1>14, <1>0, <1>5, <1>13, ConfirmKeepsSession DEF ConfirmPad
<1>15. CASE CancelPad
  BY <1>15, <1>5, <1>13, CalibrationKeepsSession DEF CancelPad
<1>16. CASE SkipPad
  BY <1>16, <1>5, <1>13, CalibrationKeepsSession DEF SkipPad
<1>17. ASSUME NEW t \in PadTargets, RetakePad(t) PROVE Registered'
  <2>1. PadSession(Start(The(cal).profile, <<t>>, 1, "single"))
    BY <1>2, <1>13, <1>17, StartIsSession DEF RetakePad, PadSession
  <2> QED BY <1>5, <1>17, <2>1 DEF RetakePad
<1>18. CASE RecalibrateAll
  <2>1. PadSession(Start(The(cal).profile, PadOrder, 1, "sequential"))
    BY <1>2, <1>13, <1>18, StartIsSession DEF RecalibrateAll, PadSession
  <2> QED BY <1>5, <1>18, <2>1 DEF RecalibrateAll
<1>19. ASSUME NEW stored \in BOOLEAN, SavePad(stored) PROVE Registered'
  <2>1. The(cal).profile \in ProfilesOf(PadTargets, Inputs)
    BY <1>2, <1>13, <1>19 DEF SavePad
  <2> QED BY <1>19, <2>1 DEF SavePad, Registered, keyVars
<1>20. CASE RemovePad
  BY <1>20 DEF RemovePad, Registered, keyVars
<1>21. CASE OpenKeys
  <2>1. KeySession(Start(savedKeys, KeyOrder, FirstUnassigned(savedKeys, KeyOrder), "sequential"))
    BY StartIsSession DEF KeySession, Registered
  <2> QED BY <1>6, <1>21, <2>1 DEF OpenKeys
<1>22. ASSUME reg # None PROVE KeySession(The(reg))
  BY <1>22, <1>0, <1>1
<1>23. ASSUME NEW code \in Codes, RecordKey(code) PROVE Registered'
  <2> DEFINE c == The(reg)
             n == Record(c, code)
             r == IF Refuses(code) THEN [c EXCEPT !.refused = Some(code)]
                  ELSE IF n.conflict = None /\ c.mode = "single"
                         THEN [n EXCEPT !.retaken = Some(CurrentTarget(c))] ELSE n
  <2>1. reg # None /\ Keyed(r)
    BY <1>23 DEF RecordKey
  <2>2. KeySession(c)
    BY <1>22, <2>1
  <2> HIDE DEF c
  <2>3. KeySession(n)
    BY <2>2, RecordKeepsSession DEF KeySession
  <2> HIDE DEF n
  <2>4. KeySession([c EXCEPT !.refused = Some(code)]) /\ KeySession([n EXCEPT !.retaken = Some(CurrentTarget(c))])
    BY <2>2, <2>3, DismissKeepsSession DEF KeySession
  <2>5. KeySession(r)
    BY <2>3, <2>4
  <2> QED BY <1>6, <2>1, <2>5
<1>24. CASE ConfirmKey
  <2> DEFINE c == The(reg)
             v == IF c.mode = "single" THEN Some(The(c.conflict).target) ELSE None
  <2>1. reg # None /\ c.conflict # None /\ Keyed([Overwrite(c) EXCEPT !.retaken = v])
    BY <1>24 DEF ConfirmKey
  <2>2. KeySession(c)
    BY <1>22, <2>1
  <2> HIDE DEF c, v
  <2>3. KeySession(Overwrite(c))
    BY <1>0, <2>1, <2>2, OverwriteKeepsSession DEF KeySession
  <2>4. KeySession([Overwrite(c) EXCEPT !.retaken = v])
    BY <2>3, DismissKeepsSession DEF KeySession
  <2> QED BY <1>6, <2>1, <2>4
<1>25. CASE CancelKey
  <2>1. KeySession([The(reg) EXCEPT !.conflict = None])
    BY <1>22, <1>25, DismissKeepsSession DEF CancelKey, KeySession
  <2> QED BY <1>6, <1>25, <2>1 DEF CancelKey
<1>26. CASE DismissKey
  <2>1. KeySession([The(reg) EXCEPT !.refused = None])
    BY <1>22, <1>26, DismissKeepsSession DEF DismissKey, KeySession
  <2> QED BY <1>6, <1>26, <2>1 DEF DismissKey
<1>27. CASE SkipKey
  <2>1. KeySession(Skip(The(reg)))
    BY <1>22, <1>27, DismissKeepsSession DEF SkipKey, KeySession
  <2> QED BY <1>6, <1>27, <2>1 DEF SkipKey
<1>28. ASSUME NEW t \in KeyTargets, RetakeKey(t) PROVE Registered'
  <2>1. KeySession(Start(The(reg).profile, <<t>>, 1, "single"))
    BY <1>3, <1>22, <1>28, StartIsSession DEF RetakeKey, KeySession
  <2> QED BY <1>6, <1>28, <2>1 DEF RetakeKey
<1>29. ASSUME NEW stored \in BOOLEAN, SaveKeys(stored) PROVE Registered'
  <2>1. The(reg).profile \in ProfilesOf(KeyTargets, Codes)
    BY <1>3, <1>22, <1>29 DEF SaveKeys
  <2> QED BY <1>29, <2>1 DEF SaveKeys, Registered, padVars
<1>30. CASE ClearKeys
  BY <1>0, <1>30, EmptyIsDistinct DEF ClearKeys, Registered, padVars
<1>31. CASE CloseKeys
  BY <1>31 DEF CloseKeys, Registered, padVars
<1>32. CASE UNCHANGED registrationVars
  BY <1>32 DEF registrationVars, Registered
<1> QED
  BY <1>7, <1>8, <1>9, <1>10, <1>11, <1>12, <1>14, <1>15, <1>16, <1>17, <1>18, <1>19, <1>20, <1>21,
     <1>23, <1>24, <1>25, <1>26, <1>27, <1>28, <1>29, <1>30, <1>31, <1>32 DEF RegistrationNext

\* No input ever has two targets, in what is stored, calibrated or bound
\* (calibration.ts:196-237, keyboardRegistration.ts:92-166).
THEOREM BindingsDistinct ==
  ASSUME RegistrationAssumption
  PROVE  RegistrationSpec => []NoSharedBinding
<1>1. RegistrationInit => Registered
  <2> SUFFICES ASSUME RegistrationInit PROVE Registered
    OBVIOUS
  <2>1. EmptyProfile(KeyTargets) \in ProfilesOf(KeyTargets, Codes)
    BY EmptyIsDistinct DEF RegistrationAssumption
  <2> QED
    BY <2>1 DEF RegistrationInit, Registered
<1>2. Registered /\ [RegistrationNext]_registrationVars => Registered'
  BY RegisteredInductive
<1>3. Registered => NoSharedBinding
  <2> SUFFICES ASSUME Registered PROVE NoSharedBinding
    OBVIOUS
  <2>1. saved # None => Distinct(The(saved), Inputs)
    BY DEF Registered, ProfilesOf, The, Some
  <2>2. cal # None => Distinct(The(cal).profile, Inputs)
    <3> SUFFICES ASSUME cal # None PROVE Distinct(The(cal).profile, Inputs)
      OBVIOUS
    <3>1. PICK c : cal = Some(c) /\ PadSession(c)
      BY DEF Registered
    <3>2. The(cal) = c
      BY <3>1 DEF The, Some
    <3> QED BY <3>1, <3>2, PartsOfSession DEF PadSession, ProfilesOf
  <2>3. Distinct(savedKeys, Codes)
    BY DEF Registered, ProfilesOf
  <2>4. reg # None => Distinct(The(reg).profile, Codes)
    <3> SUFFICES ASSUME reg # None PROVE Distinct(The(reg).profile, Codes)
      OBVIOUS
    <3>1. PICK c : reg = Some(c) /\ KeySession(c)
      BY DEF Registered
    <3>2. The(reg) = c
      BY <3>1 DEF The, Some
    <3> QED BY <3>1, <3>2, PartsOfSession DEF KeySession, ProfilesOf
  <2> QED
    BY <2>1, <2>2, <2>3, <2>4 DEF NoSharedBinding
<1> QED
  BY <1>1, <1>2, <1>3, PTL DEF RegistrationSpec

-----------------------------------------------------------------------------
(* One press, one target.                                                  *)

\* A target is being asked for: without a question, and before the end.
Asking(c) == c # None /\ The(c).conflict = None /\ ~Finished(The(c))

\* While an input that is older than the present target is down, nothing is recorded.
Guarded ==
  /\ padOpen \in BOOLEAN /\ connected \in BOOLEAN /\ awaiting \in BOOLEAN
  /\ cal # None => padOpen
  /\ ~connected => held = {} /\ stale = {}
  /\ Asking(cal) /\ stale # {} => awaiting

\* The effect leaves a guarded state, whatever it sees.
LEMMA ObserveGuards ==
  ASSUME NEW c, NEW wait \in BOOLEAN, NEW down, NEW old, Observe(c, wait, down, old)
  PROVE  /\ awaiting' \in BOOLEAN
         /\ Asking(cal') /\ stale' # {} => awaiting'
<1>1. PICK seen \in Watch(c, wait, down) :
        /\ cal' = seen[1] /\ awaiting' = seen[2]
        /\ stale' = IF seen[1] # c THEN down ELSE old \cap down
  BY DEF Observe
<1>2. CASE ~Asking(c)
  <2>1. Watch(c, wait, down) = {<<c, wait>>}
    BY <1>2 DEF Watch, Asking
  <2>2. cal' = c /\ awaiting' = wait
    BY <1>1, <2>1
  <2> QED BY <1>2, <2>2
<1>3. CASE Asking(c) /\ down = {}
  <2>1. Watch(c, wait, down) = {<<c, FALSE>>}
    BY <1>3 DEF Watch, Asking
  <2>2. seen = <<c, FALSE>>
    BY <2>1
  <2>3. stale' = {} /\ awaiting' = FALSE
    BY <1>1, <1>3, <2>2
  <2> QED BY <2>3
<1>4. CASE Asking(c) /\ down # {} /\ wait
  <2>1. Watch(c, wait, down) = {<<c, TRUE>>}
    BY <1>4 DEF Watch, Asking
  <2>2. seen = <<c, TRUE>>
    BY <2>1
  <2>3. awaiting' = TRUE
    BY <1>1, <2>2
  <2> QED BY <2>3
<1>5. CASE Asking(c) /\ down # {} /\ ~wait
  <2>1. Watch(c, wait, down) = {<<Some(RecordBinding(The(c), i)), TRUE>> : i \in down}
    BY <1>5 DEF Watch, Asking
  <2>2. \E x : seen = <<x, TRUE>>
    BY <1>1, <2>1
  <2>3. awaiting' = TRUE
    BY <1>1, <2>2
  <2> QED BY <2>3
<1> QED
  BY <1>2, <1>3, <1>4, <1>5

\* Nothing is recorded while the effect waits.
LEMMA WaitingRecordsNothing ==
  ASSUME NEW c, NEW wait \in BOOLEAN, NEW down, NEW old, Observe(c, wait, down, old),
         ~Asking(c) \/ wait = TRUE
  PROVE  cal' = c
<1>1. PICK seen \in Watch(c, wait, down) : cal' = seen[1]
  BY DEF Observe
<1>2. Watch(c, wait, down) \in {{<<c, TRUE>>}, {<<c, FALSE>>}, {<<c, wait>>}}
  <2>1. CASE ~Asking(c)
    BY <2>1 DEF Watch, Asking
  <2>2. CASE wait = TRUE
    BY <2>2 DEF Watch, Asking
  <2> QED BY <2>1, <2>2
<1>3. seen \in {<<c, TRUE>>, <<c, FALSE>>, <<c, wait>>}
  BY <1>2
<1>4. <<c, TRUE>>[1] = c /\ <<c, FALSE>>[1] = c /\ <<c, wait>>[1] = c
  OBVIOUS
<1>5. seen[1] = c
  BY <1>3, <1>4
<1> QED
  BY <1>1, <1>5

\* Every step leaves a guarded state.
LEMMA GuardedInductive ==
  ASSUME Guarded, [RegistrationNext]_registrationVars
  PROVE  Guarded'
<1>1. ASSUME cal # None, NEW c, NEW wait \in BOOLEAN, Click(c, wait)
      PROVE  Guarded'
  <2>1. CASE connected
    <3>1. Observe(Some(c), wait, held, held)
      BY <1>1, <2>1 DEF Click
    <3>2. awaiting' \in BOOLEAN /\ (Asking(cal') /\ stale' # {} => awaiting')
      BY <3>1, ObserveGuards
    <3> QED
      BY <1>1, <2>1, <3>2 DEF Click, Guarded
  <2>2. CASE ~connected
    BY <1>1, <2>2 DEF Click, Guarded
  <2> QED BY <2>1, <2>2 DEF Guarded
<1>2. ASSUME UNCHANGED padVars PROVE Guarded'
  BY <1>2 DEF padVars, Guarded, Asking
<1>3. CASE OpenPad
  BY <1>3 DEF OpenPad, Guarded, Asking
<1>4. CASE ClosePad
  BY <1>4 DEF ClosePad, Guarded, Asking
<1>5. CASE Disconnect
  BY <1>5 DEF Disconnect, Guarded, Asking
<1>6. ASSUME NEW i \in Inputs, Connect(i) PROVE Guarded'
  BY <1>6 DEF Connect, Guarded, Asking
<1>7. ASSUME NEW i \in Inputs, Press(i) \/ Release(i) PROVE Guarded'
  <2>1. /\ Observe(cal, awaiting, held', stale) /\ connected
        /\ UNCHANGED <<padOpen, connected>>
    BY <1>7 DEF Press, Release, Guarded
  <2>2. awaiting' \in BOOLEAN /\ (Asking(cal') /\ stale' # {} => awaiting')
    BY <2>1, ObserveGuards DEF Guarded
  <2>3. cal = None => cal' = None
    BY <2>1, WaitingRecordsNothing DEF Asking, Guarded
  <2> QED
    BY <2>1, <2>2, <2>3 DEF Guarded
<1>8. CASE ConfirmPad
  BY <1>1, <1>8 DEF ConfirmPad, Guarded
<1>9. CASE CancelPad
  BY <1>1, <1>9 DEF CancelPad, Guarded
<1>10. CASE SkipPad
  BY <1>1, <1>10 DEF SkipPad
<1>11. ASSUME NEW t \in PadTargets, RetakePad(t) PROVE Guarded'
  BY <1>1, <1>11 DEF RetakePad
<1>12. CASE RecalibrateAll
  BY <1>1, <1>12 DEF RecalibrateAll
<1>13. ASSUME NEW stored \in BOOLEAN, SavePad(stored) PROVE Guarded'
  BY <1>13 DEF SavePad, Guarded, Asking
<1>14. CASE RemovePad
  BY <1>14 DEF RemovePad, Guarded, Asking
<1>15. ASSUME NEW stored \in BOOLEAN, SaveKeys(stored) PROVE Guarded'
  BY <1>2, <1>15 DEF SaveKeys
<1>16. ASSUME NEW code \in Codes, RecordKey(code) PROVE Guarded'
  BY <1>2, <1>16 DEF RecordKey, Keyed
<1>17. ASSUME NEW t \in KeyTargets, RetakeKey(t) PROVE Guarded'
  BY <1>2, <1>17 DEF RetakeKey, Keyed
<1>18. ASSUME OpenKeys \/ ConfirmKey \/ CancelKey \/ DismissKey \/ SkipKey \/ ClearKeys \/ CloseKeys
       PROVE  Guarded'
  BY <1>2, <1>18 DEF OpenKeys, ConfirmKey, CancelKey, DismissKey, SkipKey, ClearKeys, CloseKeys, Keyed
<1>19. CASE UNCHANGED registrationVars
  BY <1>2, <1>19 DEF registrationVars, padVars
<1> QED
  BY <1>3, <1>4, <1>5, <1>6, <1>7, <1>8, <1>9, <1>10, <1>11, <1>12, <1>13, <1>14, <1>15, <1>16, <1>17,
     <1>18, <1>19 DEF RegistrationNext

\* Skipping and resuming bind nothing.
LEMMA SkippingBindsNothing ==
  ASSUME NEW c, PadSession(c)
  PROVE  SkipCurrent(c).profile = c.profile
<1>1. PICK p, o, n, q, m, a, x :
        c = [profile |-> p, order |-> o, cursor |-> n, conflict |-> q,
             mode |-> m, retaken |-> a, refused |-> x]
  BY DEF PadSession, Session, HasParts
<1> DEFINE next == c.cursor + 1
           d == [Skip(c) EXCEPT !.retaken = None]
           s == Start(d.profile, PadOrder, FirstUnassigned(d.profile, PadOrder), "sequential")
<1>2. d.profile = c.profile
  <2>1. Skip(c) = [c EXCEPT !.cursor = next, !.conflict = None, !.refused = None]
    BY DEF Skip
  <2> HIDE DEF next
  <2>2. Skip(c) = [profile |-> p, order |-> o, cursor |-> next, conflict |-> None,
                   mode |-> m, retaken |-> a, refused |-> None]
    BY <1>1, <2>1
  <2>3. d.profile = p
    BY <2>2
  <2> QED BY <1>1, <2>3
<1> HIDE DEF d
<1>3. s.profile = d.profile /\ [s EXCEPT !.retaken = None].profile = d.profile
  BY DEF Start
<1>4. SkipCurrent(c) = ResumeAfterRetake(d, None)
  BY DEF SkipCurrent, d
<1>5. ResumeAfterRetake(d, None) \in {d, [s EXCEPT !.retaken = None]}
  BY DEF ResumeAfterRetake
<1> HIDE DEF s
<1> QED
  BY <1>2, <1>3, <1>4, <1>5

\* One press fills one target: an input that is down since before the present target was asked for
\* is not taken for it, unless the user decides a question (GamepadCalibrationDialog.tsx:118-138).
THEOREM PressesDistinct ==
  ASSUME RegistrationAssumption
  PROVE  RegistrationSpec => OnePressOneTarget
<1> DEFINE Inv == Registered /\ Guarded
           Step == \A t \in PadTargets, i \in stale :
                     cal # None /\ cal' # None /\ The(cal).profile[t] # i /\ The(cal').profile[t] = i
                       => The(cal).conflict # None
<1>1. RegistrationInit => Inv
  <2> SUFFICES ASSUME RegistrationInit PROVE Inv
    OBVIOUS
  <2>1. EmptyProfile(KeyTargets) \in ProfilesOf(KeyTargets, Codes)
    BY EmptyIsDistinct DEF RegistrationAssumption
  <2> QED
    BY <2>1 DEF RegistrationInit, Registered, Guarded, Asking
<1>2. Inv /\ [RegistrationNext]_registrationVars => Inv'
  BY RegisteredInductive, GuardedInductive
<1>3. Inv /\ [RegistrationNext]_registrationVars => [Step]_registrationVars
  <2> SUFFICES ASSUME Inv, RegistrationNext, NEW i \in stale,
                      cal # None, cal' # None, The(cal).conflict = None
               PROVE  The(cal').profile = The(cal).profile
    BY DEF registrationVars
  <2> DEFINE c == The(cal)
  <2>1. connected /\ padOpen /\ (Asking(cal) => awaiting = TRUE)
    BY DEF Guarded
  <2>2. PadSession(c)
    <3>1. PICK d : cal = Some(d) /\ PadSession(d)
      BY DEF Registered
    <3> QED BY <3>1 DEF The, Some
  <2>3. ASSUME NEW d, d.profile = c.profile, Click(d, TRUE) PROVE The(cal').profile = c.profile
    <3>1. Observe(Some(d), TRUE, held, held)
      BY <2>1, <2>3 DEF Click
    <3>2. cal' = Some(d)
      BY <3>1, WaitingRecordsNothing
    <3> QED BY <2>3, <3>2 DEF The, Some
  <2>4. ASSUME NEW j \in Inputs, Press(j) \/ Release(j) PROVE cal' = cal
    BY <2>1, <2>4, WaitingRecordsNothing DEF Press, Release, Guarded
  <2>5. ASSUME NEW j \in Inputs, Connect(j) PROVE FALSE
    BY <2>1, <2>5 DEF Connect
  <2>6. CASE SkipPad
    BY <2>2, <2>3, <2>6, SkippingBindsNothing DEF SkipPad
  <2>7. ASSUME NEW t \in PadTargets, RetakePad(t) PROVE The(cal').profile = c.profile
    <3> DEFINE d == Start(c.profile, <<t>>, 1, "single")
    <3>1. d.profile = c.profile /\ Click(d, TRUE)
      BY <2>7 DEF RetakePad, Start
    <3> QED BY <2>3, <3>1
  <2>8. CASE RecalibrateAll
    <3> DEFINE d == Start(c.profile, PadOrder, 1, "sequential")
    <3>1. d.profile = c.profile /\ Click(d, TRUE)
      BY <2>8 DEF RecalibrateAll, Start
    <3> QED BY <2>3, <3>1
  <2>9. ASSUME OpenPad \/ ClosePad \/ RemovePad \/ ConfirmPad \/ CancelPad PROVE FALSE
    BY <2>1, <2>9 DEF OpenPad, ClosePad, RemovePad, ConfirmPad, CancelPad
  <2>10. ASSUME Disconnect \/ \E stored \in BOOLEAN : SavePad(stored) PROVE cal' = cal
    BY <2>10 DEF Disconnect, SavePad
  <2>11. ASSUME \/ OpenKeys \/ ConfirmKey \/ CancelKey \/ DismissKey \/ SkipKey \/ ClearKeys \/ CloseKeys
                \/ \E code \in Codes : RecordKey(code)
                \/ \E t \in KeyTargets : RetakeKey(t)
                \/ \E stored \in BOOLEAN : SaveKeys(stored)
         PROVE  cal' = cal
    BY <2>11 DEF OpenKeys, ConfirmKey, CancelKey, DismissKey, SkipKey, ClearKeys, CloseKeys, RecordKey,
                 RetakeKey, SaveKeys, Keyed, padVars
  <2> QED
    BY <2>4, <2>5, <2>6, <2>7, <2>8, <2>9, <2>10, <2>11 DEF RegistrationNext
<1> QED
  BY <1>1, <1>2, <1>3, PTL DEF RegistrationSpec, OnePressOneTarget
=============================================================================
