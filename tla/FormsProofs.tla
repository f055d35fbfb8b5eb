---------------------------- MODULE FormsProofs ----------------------------
(***************************************************************************)
(* Proofs about the forms, for any keys, moves, cells and bounds.  Every   *)
(* screen has an inductive invariant `XInv`: while the screen is shown,    *)
(* its shape and the parts named after it hold.  An action is first        *)
(* reduced to what it does to the fields, and each part is then proved     *)
(* from these equations.                                                   *)
(***************************************************************************)
EXTENDS Forms, Integers, TLAPS

-----------------------------------------------------------------------------
(* Leaving an edited form.                                                 *)
Entry == [url : NG!Urls, mark : Nat]

GuardShape ==
  /\ DOMAIN ui = {"page", "view", "form", "armed", "token", "seq", "leaving", "skip", "pending", "agreed"}
  /\ ui.armed \in BOOLEAN /\ ui.skip \in BOOLEAN /\ ui.seq \in Nat
  /\ ui.pending = None \/ The(ui.pending) \in {"back", "list", "detail"}
  /\ DOMAIN srv = {"hist", "pos", "go"}
  /\ srv.hist \in Seq(Entry) /\ srv.pos \in 1 .. Len(srv.hist)

\* A sentinel lies on an entry of its own route that is none, and entries of the form are apart.
Chained(hist) ==
  \A k \in 1 .. Len(hist) :
    /\ hist[k].mark # 0 => k > 1 /\ hist[k - 1].mark = 0 /\ hist[k - 1].url = hist[k].url
    /\ hist[k].mark = 0 /\ hist[k].url = "edit" => k > 1 /\ hist[k - 1].url # "edit"

Chain == Chained(srv.hist)

HereEntry == srv.hist[srv.pos]

ViewIsHere == ui.view = HereEntry.url

\* A blocked form whose guard is up is on the sentinel, until it has been made up for.
Sealed ==
  /\ ~ui.armed => ui.token = 0
  /\ ui.armed /\ NG!Blocked => HereEntry.mark # 0 /\ (srv.go = <<-2>> \/ ui.token = HereEntry.mark)

\* One traversal at a time, and what it is for.
UnderWay ==
  \/ srv.go = << >> /\ ~ui.skip
  \/ /\ ui.armed <=> NG!Blocked
     /\ \/ srv.go = <<-1>> /\ ~ui.skip
        \/ srv.go = <<1>> /\ ~ui.skip /\ (NG!Blocked => ui.agreed = "forward")
        \/ srv.go = <<-2>> /\ ui.skip /\ NG!Blocked /\ ui.agreed = "back"

\* Whoever agreed to go back is under way or gone.
AgreedBack ==
  ui.agreed = "back" => ui.token = 0 /\ (srv.go = <<-2>> \/ (srv.go = << >> /\ ui.view # "edit"))

GuardParts == GuardShape /\ Chain /\ ViewIsHere /\ Sealed /\ UnderWay /\ AgreedBack

GuardInv == ui.page = "guard" => GuardParts

LEMMA HistoryPushed ==
  ASSUME NEW h, NEW url \in NG!Urls, NEW mark \in Nat,
         DOMAIN h = {"hist", "pos", "go"}, h.hist \in Seq(Entry), h.pos \in 1 .. Len(h.hist)
  PROVE  LET p == NG!Pushed(h, url, mark)
         IN  /\ DOMAIN p = DOMAIN h /\ p.go = h.go /\ p.pos = h.pos + 1
             /\ p.hist \in Seq(Entry) /\ Len(p.hist) = h.pos + 1
             /\ p.hist[h.pos + 1] = [url |-> url, mark |-> mark]
             /\ \A k \in 1 .. h.pos : p.hist[k] = h.hist[k]
<1> DEFINE s == SubSeq(h.hist, 1, h.pos)
           e == [url |-> url, mark |-> mark]
           p == NG!Pushed(h, url, mark)
<1>1. s \in Seq(Entry) /\ Len(s) = h.pos /\ \A k \in 1 .. h.pos : s[k] = h.hist[k]
  OBVIOUS
<1>2. e \in Entry
  BY DEF Entry
<1>3. p.hist = Append(s, e) /\ p.pos = h.pos + 1 /\ p.go = h.go /\ DOMAIN p = DOMAIN h
  BY DEF NG!Pushed, NG!Upto
<1> HIDE DEF s, e, p
<1>4. /\ Append(s, e) \in Seq(Entry) /\ Len(Append(s, e)) = h.pos + 1
      /\ Append(s, e)[h.pos + 1] = e /\ \A k \in 1 .. h.pos : Append(s, e)[k] = s[k]
  BY <1>1, <1>2
<1>5. QED
  BY <1>1, <1>3, <1>4 DEF e, p

LEMMA ChainPushed ==
  ASSUME NEW h, NEW url \in NG!Urls, NEW mark \in Nat,
         DOMAIN h = {"hist", "pos", "go"}, h.hist \in Seq(Entry), h.pos \in 1 .. Len(h.hist),
         Chained(h.hist),
         IF mark = 0 THEN url = "edit" => h.hist[h.pos].url # "edit"
         ELSE h.hist[h.pos].mark = 0 /\ h.hist[h.pos].url = url
  PROVE  Chained(NG!Pushed(h, url, mark).hist)
<1> DEFINE p == NG!Pushed(h, url, mark).hist
           n == h.pos
<1>1. /\ Len(p) = n + 1 /\ p[n + 1] = [url |-> url, mark |-> mark]
      /\ \A k \in 1 .. n : p[k] = h.hist[k]
  BY HistoryPushed
<1> HIDE DEF p
<1> SUFFICES ASSUME NEW k \in 1 .. n + 1
             PROVE  /\ p[k].mark # 0 => k > 1 /\ p[k - 1].mark = 0 /\ p[k - 1].url = p[k].url
                    /\ p[k].mark = 0 /\ p[k].url = "edit" => k > 1 /\ p[k - 1].url # "edit"
  BY <1>1 DEF Chained, p
<1>2. CASE k = n + 1
  BY <1>1, <1>2
<1>3. CASE k \in 1 .. n
  <2>1. k > 1 => k - 1 \in 1 .. n
    BY <1>3
  <2>2. p[k] = h.hist[k] /\ (k > 1 => p[k - 1] = h.hist[k - 1])
    BY <1>1, <1>3, <2>1
  <2>3. QED
    BY <2>2, <1>3 DEF Chained
<1>4. QED
  BY <1>2, <1>3

LEMMA ChainReplaced ==
  ASSUME GuardShape, Chain, HereEntry.mark # 0, NEW url \in NG!Urls \ {"edit"}
  PROVE  LET r == NG!Replaced(srv, url)
         IN  /\ DOMAIN r = DOMAIN srv /\ r.go = srv.go /\ r.pos = srv.pos
             /\ r.hist \in Seq(Entry) /\ Len(r.hist) = Len(srv.hist)
             /\ r.hist[srv.pos] = [url |-> url, mark |-> 0]
             /\ Chained(r.hist)
<1> DEFINE r == NG!Replaced(srv, url)
           e == [url |-> url, mark |-> 0]
           n == srv.pos
<1>1. e \in Entry /\ e.url = url /\ e.mark = 0
  BY DEF Entry
<1>2. /\ r.hist = [srv.hist EXCEPT ![n] = e] /\ DOMAIN r = DOMAIN srv /\ r.go = srv.go /\ r.pos = n
  BY DEF NG!Replaced, GuardShape
<1> HIDE DEF r, e
<1>3. /\ r.hist \in Seq(Entry) /\ Len(r.hist) = Len(srv.hist) /\ r.hist[n] = e
      /\ \A k \in 1 .. Len(srv.hist) : k # n => r.hist[k] = srv.hist[k]
  BY <1>1, <1>2 DEF GuardShape
<1>4. ASSUME NEW k \in 1 .. Len(r.hist)
      PROVE  /\ r.hist[k].mark # 0 => k > 1 /\ r.hist[k - 1].mark = 0 /\ r.hist[k - 1].url = r.hist[k].url
             /\ r.hist[k].mark = 0 /\ r.hist[k].url = "edit" => k > 1 /\ r.hist[k - 1].url # "edit"
  <2>0. n \in 1 .. Len(srv.hist) /\ srv.hist[n].mark # 0
    BY DEF GuardShape, HereEntry
  <2>1. CASE k = n
    BY <2>1, <1>1, <1>3
  <2>2. CASE k = n + 1
    <3>1. srv.hist[k].mark = 0 /\ r.hist[k] = srv.hist[k] /\ r.hist[k - 1] = e
      BY <1>3, <2>0, <2>2 DEF Chain, Chained
    <3>2. QED
      BY <3>1, <2>0, <2>2, <1>1
  <2>3. CASE k # n /\ k # n + 1
    <3>1. r.hist[k] = srv.hist[k] /\ (k > 1 => r.hist[k - 1] = srv.hist[k - 1])
      BY <1>3, <2>0, <2>3
    <3>2. QED
      BY <3>1, <1>3 DEF Chain, Chained
  <2>4. QED
    BY <2>1, <2>2, <2>3
<1>5. QED
  BY <1>2, <1>3, <1>4 DEF Chained, e, r

LEMMA Traversals == << >> # <<-2>> /\ << >> # <<-1>> /\ << >> # <<1>> /\ <<1>> # <<-1>> /\ <<-1>> # <<-2>> /\ <<1>> # <<-2>>
OBVIOUS

\* What is so when the user acts.
LEMMA GuardAtRest ==
  ASSUME GuardParts, NG!AtRest
  PROVE  /\ srv.go = << >> /\ ui.skip = FALSE
         /\ ui.armed <=> NG!Blocked
         /\ NG!OnSentinelEntry <=> NG!Blocked
         /\ NG!Blocked => HereEntry.mark # 0
         /\ ~NG!Blocked => ui.token = 0
<1>1. srv.go = << >> /\ (ui.armed <=> NG!Blocked)
  BY DEF NG!AtRest
<1>2. ui.skip = FALSE
  BY <1>1 DEF GuardParts, UnderWay, GuardShape
<1>3. NG!Blocked => HereEntry.mark # 0 /\ ui.token = HereEntry.mark
  BY <1>1 DEF GuardParts, Sealed
<1>4. ~NG!Blocked => ui.token = 0
  BY <1>1 DEF GuardParts, Sealed
<1>5. QED
  BY <1>1, <1>2, <1>3, <1>4 DEF NG!OnSentinelEntry, NG!Here, HereEntry

\* An action that concerns neither the history nor what seals it.
GuardStill ==
  /\ srv' = srv /\ DOMAIN ui' = DOMAIN ui
  /\ ui'.view = ui.view /\ ui'.form = ui.form /\ ui'.armed = ui.armed /\ ui'.token = ui.token
  /\ ui'.seq = ui.seq /\ ui'.skip = ui.skip /\ ui'.agreed = ui.agreed
  /\ ui'.pending = None \/ The(ui'.pending) \in {"back", "list", "detail"}

LEMMA GuardStillKeeps == ASSUME GuardParts, GuardStill PROVE GuardParts'
<1>1. NG!Blocked' <=> NG!Blocked
  BY DEF GuardStill, NG!Blocked
<1>2. HereEntry' = HereEntry
  BY DEF GuardStill, HereEntry
<1>3. GuardShape' /\ Chain' /\ ViewIsHere'
  BY <1>2 DEF GuardStill, GuardParts, GuardShape, Chain, ViewIsHere
<1>4. Sealed' /\ UnderWay' /\ AgreedBack'
  BY <1>1, <1>2 DEF GuardStill, GuardParts, Sealed, UnderWay, AgreedBack
<1>5. QED
  BY <1>3, <1>4 DEF GuardParts

GuardIdle ==
  \/ NG!LeavingTimer \/ NG!Stay
  \/ NG!Blocked /\ (NG!RequestLeaveBack \/ \E url \in NG!Urls, kind \in NG!Clicks : NG!FollowLink(url, kind))

LEMMA GuardIdles == ASSUME GuardParts, GuardIdle PROVE GuardParts'
<1> USE DEF GuardStill, GuardShape, NG!Sets
<1>0. GuardShape
  BY DEF GuardParts
<1>1. CASE NG!LeavingTimer
  BY <1>0, <1>1, GuardStillKeeps DEF NG!LeavingTimer
<1>2. CASE NG!Stay
  <2>1. ui' = [ui EXCEPT !.pending = << >>] /\ srv' = srv
    BY <1>2 DEF NG!Stay, NG!None
  <2>2. GuardStill
    BY <1>0, <2>1 DEF None
  <2>3. QED
    BY <2>2, GuardStillKeeps
<1>3. ASSUME NG!Blocked, NEW target \in {"back", "list", "detail"},
             ui' = [ui EXCEPT !.pending = <<target>>], srv' = srv
      PROVE  GuardParts'
  <2>1. GuardStill
    BY <1>0, <1>3 DEF The
  <2>2. QED
    BY <2>1, GuardStillKeeps
<1>4. CASE NG!Blocked /\ NG!RequestLeaveBack
  BY <1>3, <1>4 DEF NG!RequestLeaveBack, NG!Some
<1>5. ASSUME NEW url \in NG!Urls, NEW kind \in NG!Clicks, NG!Blocked, NG!FollowLink(url, kind)
      PROVE  GuardParts'
  <2>1. url # "edit"
    BY <1>5 DEF NG!FollowLink, NG!Intercepts, NG!Blocked
  <2>2. ui' = [ui EXCEPT !.pending = <<url>>] /\ srv' = srv
    BY <1>5 DEF NG!FollowLink, NG!Some
  <2>3. QED
    BY <1>3, <1>5, <2>1, <2>2 DEF NG!Urls
<1>6. QED
  BY <1>1, <1>2, <1>4, <1>5 DEF GuardIdle

LEMMA GuardTypes == ASSUME GuardParts, NEW value \in NG!Values, NG!Type(value) PROVE GuardParts'
<1>1. /\ NG!AtRest /\ ui.view = "edit" /\ srv' = srv
      /\ DOMAIN ui' = DOMAIN ui /\ ui'.view = ui.view /\ ui'.armed = ui.armed /\ ui'.token = ui.token
      /\ ui'.seq = ui.seq /\ ui'.skip = ui.skip /\ ui'.pending = ui.pending /\ ui'.agreed = "no"
  BY DEF NG!Type, NG!Sets, GuardParts, GuardShape
<1>2. HereEntry' = HereEntry /\ srv.go = << >> /\ ui.skip = FALSE
  BY <1>1, GuardAtRest DEF HereEntry
<1>3. GuardShape' /\ Chain' /\ ViewIsHere'
  BY <1>1, <1>2 DEF GuardParts, GuardShape, Chain, ViewIsHere
<1>4. Sealed'
  <2>1. ~ui.armed => ui.token = 0
    BY DEF GuardParts, Sealed
  <2>2. ui.armed => HereEntry.mark # 0 /\ ui.token = HereEntry.mark
    <3>1. ui.armed <=> NG!Blocked
      BY <1>1, GuardAtRest
    <3>2. QED
      BY <3>1, <1>2 DEF GuardParts, Sealed
  <2>3. QED
    BY <2>1, <2>2, <1>1, <1>2 DEF Sealed
<1>5. UnderWay' /\ AgreedBack'
  BY <1>1, <1>2 DEF UnderWay, AgreedBack
<1>6. QED
  BY <1>3, <1>4, <1>5 DEF GuardParts

\* The browser's own traversals and the ones of the code while nothing is blocked.
LEMMA GuardTraverses == ASSUME GuardParts, NEW d \in {-1, 1}, NG!Traverse(d) PROVE GuardParts'
<1>1. /\ NG!AtRest /\ srv' = [srv EXCEPT !.go = <<d>>]
      /\ ui' = [ui EXCEPT !.agreed = IF d = 1 THEN "forward" ELSE "no"]
  BY DEF NG!Traverse
<1>2. /\ DOMAIN ui' = DOMAIN ui /\ ui'.view = ui.view /\ ui'.form = ui.form /\ ui'.armed = ui.armed
      /\ ui'.token = ui.token /\ ui'.seq = ui.seq /\ ui'.skip = ui.skip /\ ui'.pending = ui.pending
      /\ ui'.agreed = IF d = 1 THEN "forward" ELSE "no"
      /\ DOMAIN srv' = DOMAIN srv /\ srv'.hist = srv.hist /\ srv'.pos = srv.pos /\ srv'.go = <<d>>
  BY <1>1 DEF GuardParts, GuardShape
<1>3. /\ HereEntry' = HereEntry /\ (NG!Blocked' <=> NG!Blocked)
      /\ srv.go = << >> /\ ui.skip = FALSE /\ (ui.armed <=> NG!Blocked)
  BY <1>1, <1>2, GuardAtRest DEF HereEntry, NG!Blocked
<1>4. GuardShape' /\ Chain' /\ ViewIsHere'
  BY <1>2, <1>3 DEF GuardParts, GuardShape, Chain, ViewIsHere
<1>5. Sealed'
  BY <1>2, <1>3 DEF GuardParts, Sealed
<1>6. UnderWay' /\ AgreedBack'
  <2>1. CASE d = 1
    BY <2>1, <1>2, <1>3 DEF UnderWay, AgreedBack
  <2>2. CASE d = -1
    BY <2>2, <1>2, <1>3 DEF UnderWay, AgreedBack
  <2>3. QED
    BY <2>1, <2>2
<1>7. QED
  BY <1>4, <1>5, <1>6 DEF GuardParts

\* The effect: a guard that goes up is on its sentinel.
LEMMA GuardArms == ASSUME GuardParts, NG!Arm PROVE GuardParts'
<1>1. NG!Blocked /\ ui.armed = FALSE /\ ui.view = "edit" /\ ui.token = 0
  BY DEF NG!Arm, NG!Blocked, GuardParts, GuardShape, Sealed
<1>2. srv.go = << >> /\ ui.skip = FALSE
  BY <1>1 DEF GuardParts, UnderWay, GuardShape
<1>3. ui.agreed # "back"
  BY <1>1, <1>2, Traversals DEF GuardParts, AgreedBack
<1>0. HereEntry.mark \in Nat /\ HereEntry.url = "edit"
  <2>1. HereEntry \in Entry /\ HereEntry.url = ui.view
    BY DEF GuardParts, GuardShape, HereEntry, ViewIsHere
  <2>2. QED
    BY <1>1, <2>1 DEF Entry
<1>4. CASE HereEntry.mark # 0
  <2>1. ui' = [ui EXCEPT !.armed = TRUE, !.token = HereEntry.mark] /\ srv' = srv
    BY <1>4 DEF NG!Arm, NG!Sets, NG!Here, HereEntry
  <2>2. /\ DOMAIN ui' = DOMAIN ui /\ ui'.view = ui.view /\ ui'.form = ui.form /\ ui'.armed = TRUE
        /\ ui'.token = HereEntry.mark /\ ui'.seq = ui.seq /\ ui'.skip = ui.skip
        /\ ui'.pending = ui.pending /\ ui'.agreed = ui.agreed /\ HereEntry' = HereEntry
    BY <2>1 DEF GuardParts, GuardShape, HereEntry
  <2>3. GuardShape' /\ Chain' /\ ViewIsHere'
    BY <2>1, <2>2 DEF GuardParts, GuardShape, Chain, ViewIsHere
  <2>4. Sealed' /\ UnderWay' /\ AgreedBack'
    BY <2>1, <2>2, <1>2, <1>3, <1>4 DEF Sealed, UnderWay, AgreedBack
  <2>5. QED
    BY <2>3, <2>4 DEF GuardParts
<1>5. CASE HereEntry.mark = 0
  <2> DEFINE n == ui.seq + 1
             p == NG!Pushed(srv, "edit", n)
  <2>0. n \in Nat /\ n # 0
    BY DEF GuardParts, GuardShape
  <2>1. ui' = [ui EXCEPT !.armed = TRUE, !.seq = n, !.token = n] /\ srv' = p
    BY <1>0, <1>5 DEF NG!Arm, NG!Becomes, NG!PushSentinel, NG!Here, HereEntry, GuardParts, GuardShape
  <2>2. /\ DOMAIN ui' = DOMAIN ui /\ ui'.view = ui.view /\ ui'.form = ui.form /\ ui'.armed = TRUE
        /\ ui'.token = n /\ ui'.seq = n /\ ui'.skip = ui.skip
        /\ ui'.pending = ui.pending /\ ui'.agreed = ui.agreed
    BY <2>1 DEF GuardParts, GuardShape
  <2>3. /\ DOMAIN p = DOMAIN srv /\ p.go = srv.go /\ p.pos = srv.pos + 1 /\ p.hist \in Seq(Entry)
        /\ Len(p.hist) = srv.pos + 1 /\ p.hist[srv.pos + 1] = [url |-> "edit", mark |-> n]
    BY <2>0, HistoryPushed DEF GuardParts, GuardShape, NG!Urls
  <2>4. Chained(p.hist)
    BY <2>0, <1>0, <1>5, ChainPushed DEF GuardParts, GuardShape, Chain, HereEntry, NG!Urls
  <2> HIDE DEF p, n
  <2>5. HereEntry' = [url |-> "edit", mark |-> n]
    BY <2>1, <2>3 DEF HereEntry
  <2>6. GuardShape'
    BY <2>0, <2>1, <2>2, <2>3 DEF GuardParts, GuardShape
  <2>7. Chain' /\ ViewIsHere'
    BY <2>1, <2>2, <2>4, <2>5, <1>1 DEF Chain, ViewIsHere
  <2>8. Sealed' /\ UnderWay' /\ AgreedBack'
    BY <2>0, <2>1, <2>2, <2>3, <2>5, <1>2, <1>3 DEF Sealed, UnderWay, AgreedBack
  <2>9. QED
    BY <2>6, <2>7, <2>8 DEF GuardParts
<1>6. QED
  BY <1>4, <1>5

\* The clean-up of the effect.
LEMMA GuardDisarms == ASSUME GuardParts, NG!Disarm PROVE GuardParts'
<1>1. /\ ~NG!Blocked /\ ui.armed = TRUE
      /\ ui' = [ui EXCEPT !.armed = FALSE, !.token = 0]
      /\ \/ srv' = srv
         \/ NG!OnSentinelEntry /\ srv' = [srv EXCEPT !.go = Append(@, -1)]
  BY DEF NG!Disarm, GuardParts, GuardShape
<1>2. srv.go = << >> /\ ui.skip = FALSE
  BY <1>1 DEF GuardParts, UnderWay, GuardShape
<1>3. /\ DOMAIN ui' = DOMAIN ui /\ ui'.view = ui.view /\ ui'.form = ui.form /\ ui'.armed = FALSE
      /\ ui'.token = 0 /\ ui'.seq = ui.seq /\ ui'.skip = ui.skip
      /\ ui'.pending = ui.pending /\ ui'.agreed = ui.agreed
      /\ DOMAIN srv' = DOMAIN srv /\ srv'.hist = srv.hist /\ srv'.pos = srv.pos
      /\ srv'.go = << >> \/ (srv'.go = Append(srv.go, -1) /\ NG!OnSentinelEntry)
  BY <1>1, <1>2 DEF GuardParts, GuardShape
<1>4. Append(<< >>, -1) = <<-1>>
  OBVIOUS
<1>5. srv'.go = << >> \/ (srv'.go = <<-1>> /\ ui.token # 0)
  BY <1>2, <1>3, <1>4 DEF NG!OnSentinelEntry
<1>6. HereEntry' = HereEntry /\ (NG!Blocked' <=> NG!Blocked)
  BY <1>3 DEF HereEntry, NG!Blocked
<1>7. GuardShape' /\ Chain' /\ ViewIsHere'
  BY <1>3, <1>6 DEF GuardParts, GuardShape, Chain, ViewIsHere
<1>8. Sealed' /\ UnderWay'
  BY <1>1, <1>2, <1>3, <1>5, <1>6 DEF Sealed, UnderWay
<1>9. AgreedBack'
  BY <1>2, <1>3, <1>5 DEF GuardParts, AgreedBack
<1>10. QED
  BY <1>7, <1>8, <1>9 DEF GuardParts

\* A new load of the page, which keeps the history only.
LEMMA GuardReloads == ASSUME GuardParts, NG!Reload PROVE GuardParts'
<1>1. /\ DOMAIN ui' = DOMAIN ui /\ ui'.view = HereEntry.url /\ ui'.form = "null" /\ ui'.armed = FALSE
      /\ ui'.token = 0 /\ ui'.seq = 0 /\ ui'.skip = FALSE /\ ui'.pending = None /\ ui'.agreed = "no"
  BY DEF NG!Reload, NG!Fresh, NG!None, None, NG!Here, HereEntry, GuardParts, GuardShape
<1>2. /\ DOMAIN srv' = DOMAIN srv /\ srv'.hist = srv.hist /\ srv'.pos = srv.pos
      /\ srv'.go = << >> \/ srv'.go = <<-1>>
  BY DEF NG!Reload, GuardParts, GuardShape
<1>3. HereEntry' = HereEntry /\ ~NG!Blocked'
  BY <1>1, <1>2 DEF HereEntry, NG!Blocked, NG!ChangedFromInitial, NG!Normalized
<1>4. /\ DOMAIN ui' = DOMAIN ui /\ ui'.seq = 0 /\ ui'.pending = None
      /\ ui'.armed \in BOOLEAN /\ ui'.skip \in BOOLEAN
  <2>1. DOMAIN ui' = DOMAIN ui /\ ui'.seq = 0 /\ ui'.pending = None
    BY <1>1
  <2>2. ui'.armed \in BOOLEAN /\ ui'.skip \in BOOLEAN
    BY <1>1
  <2>3. QED
    BY <2>1, <2>2
<1>5. GuardShape'
  <2>1. DOMAIN srv' = DOMAIN srv /\ srv'.hist = srv.hist /\ srv'.pos = srv.pos
    BY <1>2
  <2>2. QED
    BY <2>1, <1>4 DEF GuardParts, GuardShape
<1>6. Chain' /\ ViewIsHere'
  BY <1>1, <1>2, <1>3 DEF GuardParts, Chain, ViewIsHere
<1>7. Sealed' /\ UnderWay' /\ AgreedBack'
  BY <1>1, <1>2, <1>3 DEF Sealed, UnderWay, AgreedBack
<1>8. QED
  BY <1>5, <1>6, <1>7 DEF GuardParts

\* Leaving as agreed: back over both entries, or the target in the place of the sentinel.
LEMMA GuardLeavesBack ==
  ASSUME GuardParts, NG!AtRest, NEW u, DOMAIN u = DOMAIN ui, u.pending = None,
         u.view = ui.view, u.form = ui.form, u.armed = ui.armed, u.seq = ui.seq, u.skip = ui.skip,
         IF NG!Blocked THEN u.agreed = "back" ELSE u.agreed # "back",
         NG!Becomes(NG!PerformLeave(u, "back"))
  PROVE  GuardParts'
<1> DEFINE had == NG!OnSentinelEntry
<1>1. /\ ui' = [u EXCEPT !.leaving = TRUE, !.token = 0, !.skip = had]
      /\ srv' = [srv EXCEPT !.go = Append(@, IF had THEN -2 ELSE -1)]
  BY DEF NG!Becomes, NG!PerformLeave
<1>2. /\ srv.go = << >> /\ ui.skip = FALSE /\ (ui.armed <=> NG!Blocked) /\ (had <=> NG!Blocked)
      /\ (NG!Blocked => HereEntry.mark # 0)
  BY GuardAtRest
<1>3. Append(<< >>, -1) = <<-1>> /\ Append(<< >>, -2) = <<-2>>
  OBVIOUS
<1>4. had \in BOOLEAN
  BY DEF NG!OnSentinelEntry
<1> HIDE DEF had
<1>5. /\ DOMAIN ui' = DOMAIN ui /\ ui'.view = ui.view /\ ui'.form = ui.form /\ ui'.armed = ui.armed
      /\ ui'.token = 0 /\ ui'.seq = ui.seq /\ ui'.pending = None /\ ui'.agreed = u.agreed
      /\ ui'.skip = had
  BY <1>1 DEF GuardParts, GuardShape
<1>6. DOMAIN srv' = DOMAIN srv /\ srv'.hist = srv.hist /\ srv'.pos = srv.pos
  BY <1>1 DEF GuardParts, GuardShape
<1>7. IF had THEN srv'.go = <<-2>> ELSE srv'.go = <<-1>>
  BY <1>1, <1>2, <1>3 DEF GuardParts, GuardShape
<1>8. HereEntry' = HereEntry /\ (NG!Blocked' <=> NG!Blocked)
  BY <1>5, <1>6 DEF HereEntry, NG!Blocked
<1>9. GuardShape'
  BY <1>4, <1>5, <1>6 DEF GuardParts, GuardShape
<1>10. Chain' /\ ViewIsHere'
  BY <1>5, <1>6, <1>8 DEF GuardParts, Chain, ViewIsHere
<1>11. Sealed' /\ UnderWay' /\ AgreedBack'
  BY <1>2, <1>5, <1>7, <1>8 DEF Sealed, UnderWay, AgreedBack
<1>12. QED
  BY <1>9, <1>10, <1>11 DEF GuardParts

\* Going to another route on top of the history; what was blocked is not any more.
LEMMA GuardNavigates ==
  ASSUME GuardParts, NG!AtRest, NEW u, DOMAIN u = DOMAIN ui, u.pending = None \/ u.pending = ui.pending,
         u.view = ui.view, u.armed = ui.armed, u.seq = ui.seq, u.skip = ui.skip,
         u.token = ui.token \/ u.token = 0, u.agreed # "back",
         NEW url \in NG!Urls, url = "edit" => ui.view # "edit", NG!Blocked => url # "edit",
         NG!Becomes(NG!Navigate(u, srv, url))
  PROVE  GuardParts'
<1> DEFINE p == NG!Pushed(srv, url, 0)
<1>1. ui' = NG!Showing(u, url) /\ srv' = p
  BY DEF NG!Becomes, NG!Navigate
<1>2. /\ DOMAIN ui' = DOMAIN ui /\ ui'.view = url /\ ui'.armed = ui.armed /\ ui'.token = u.token
      /\ ui'.seq = ui.seq /\ ui'.pending = u.pending /\ ui'.agreed = u.agreed /\ ui'.skip = ui.skip
  BY <1>1 DEF NG!Showing, GuardParts, GuardShape
<1>3. /\ DOMAIN p = DOMAIN srv /\ p.go = srv.go /\ p.pos = srv.pos + 1 /\ p.hist \in Seq(Entry)
      /\ Len(p.hist) = srv.pos + 1 /\ p.hist[srv.pos + 1] = [url |-> url, mark |-> 0]
  BY HistoryPushed DEF GuardParts, GuardShape
<1>4. Chained(p.hist)
  BY ChainPushed DEF GuardParts, GuardShape, Chain, HereEntry, ViewIsHere
<1>5. srv.go = << >> /\ ui.skip = FALSE /\ (ui.armed <=> NG!Blocked)
  BY GuardAtRest
<1> HIDE DEF p
<1>6. HereEntry' = [url |-> url, mark |-> 0]
  BY <1>1, <1>3 DEF HereEntry
<1>7. GuardShape'
  BY <1>1, <1>2, <1>3 DEF GuardParts, GuardShape
<1>8. Chain' /\ ViewIsHere'
  BY <1>1, <1>2, <1>4, <1>6 DEF Chain, ViewIsHere
<1>9. Sealed'
  <2>1. ui'.armed => ~NG!Blocked'
    BY <1>2, <1>5 DEF NG!Blocked
  <2>2. QED
    BY <2>1, <1>2 DEF GuardParts, Sealed
<1>10. UnderWay' /\ AgreedBack'
  BY <1>1, <1>2, <1>3, <1>5 DEF UnderWay, AgreedBack
<1>11. QED
  BY <1>7, <1>8, <1>9, <1>10 DEF GuardParts

\* The target takes the place of the sentinel.
LEMMA GuardReplaces ==
  ASSUME GuardParts, NG!AtRest, NG!Blocked, NEW u, DOMAIN u = DOMAIN ui, u.pending = None \/ u.pending = ui.pending,
         u.view = ui.view, u.armed = ui.armed, u.seq = ui.seq, u.skip = ui.skip,
         u.token = 0, u.agreed # "back", NEW url \in NG!Urls \ {"edit"},
         ui' = NG!Showing(u, url), srv' = NG!Replaced(srv, url)
  PROVE  GuardParts'
<1>1. /\ srv.go = << >> /\ ui.skip = FALSE /\ HereEntry.mark # 0
  BY GuardAtRest
<1>2. /\ DOMAIN ui' = DOMAIN ui /\ ui'.view = url /\ ui'.armed = ui.armed /\ ui'.token = 0
      /\ ui'.seq = ui.seq /\ ui'.pending = u.pending /\ ui'.agreed = u.agreed /\ ui'.skip = ui.skip
  BY DEF NG!Showing, GuardParts, GuardShape
<1>3. /\ DOMAIN srv' = DOMAIN srv /\ srv'.go = srv.go /\ srv'.pos = srv.pos
      /\ srv'.hist \in Seq(Entry) /\ Len(srv'.hist) = Len(srv.hist)
      /\ srv'.hist[srv.pos] = [url |-> url, mark |-> 0]
      /\ Chained(srv'.hist)
  BY <1>1, ChainReplaced DEF GuardParts
<1>4. HereEntry' = [url |-> url, mark |-> 0]
  BY <1>3 DEF HereEntry
<1>5. GuardShape'
  BY <1>2, <1>3 DEF GuardParts, GuardShape
<1>6. Chain' /\ ViewIsHere'
  BY <1>2, <1>3, <1>4 DEF Chain, ViewIsHere
<1>7. ~NG!Blocked'
  BY <1>2 DEF NG!Blocked
<1>8. Sealed' /\ UnderWay' /\ AgreedBack'
  BY <1>1, <1>2, <1>3, <1>7 DEF Sealed, UnderWay, AgreedBack
<1>9. QED
  BY <1>5, <1>6, <1>8 DEF GuardParts

\* Leaving for a route: in the place of the sentinel when there is one, on top otherwise.
LEMMA GuardLeavesFor ==
  ASSUME GuardParts, NG!AtRest, NEW u, DOMAIN u = DOMAIN ui, u.pending = None \/ u.pending = ui.pending,
         u.view = ui.view, u.armed = ui.armed, u.seq = ui.seq, u.skip = ui.skip, u.agreed # "back",
         NEW url \in NG!Urls \ {"edit"},
         NG!Becomes(NG!PerformLeave(u, url))
  PROVE  GuardParts'
<1> DEFINE out == [u EXCEPT !.leaving = TRUE, !.token = 0]
<1>1. /\ DOMAIN out = DOMAIN ui /\ out.pending = u.pending /\ out.view = ui.view /\ out.armed = ui.armed
      /\ out.seq = ui.seq /\ out.skip = ui.skip /\ out.token = 0 /\ out.agreed = u.agreed
  BY DEF GuardParts, GuardShape
<1>2. NG!OnSentinelEntry <=> NG!Blocked
  BY GuardAtRest
<1>3. CASE NG!Blocked
  <2>1. url # "back"
    BY DEF NG!Urls
  <2>2. ui' = NG!Showing(out, url) /\ srv' = NG!Replaced(srv, url)
    BY <1>2, <1>3, <2>1 DEF NG!Becomes, NG!PerformLeave
  <2> HIDE DEF out
  <2>3. QED
    BY <1>1, <1>3, <2>2, GuardReplaces
<1>4. CASE ~NG!Blocked
  <2>1. url # "back"
    BY DEF NG!Urls
  <2>2. NG!Becomes(NG!Navigate(out, srv, url))
    BY <1>2, <1>4, <2>1 DEF NG!PerformLeave
  <2> HIDE DEF out
  <2>3. QED
    BY <1>1, <1>4, <2>2, GuardNavigates
<1>5. QED
  BY <1>3, <1>4

\* The dialog's answer, a finished save, and what goes past the guard.
GuardLeaving ==
  \/ NG!Leave \/ NG!SaveAnswered \/ NG!BareNavigate
  \/ ~NG!Blocked /\ (NG!RequestLeaveBack \/ \E url \in NG!Urls, kind \in NG!Clicks : NG!FollowLink(url, kind))

LEMMA GuardLeaves == ASSUME GuardParts, GuardLeaving PROVE GuardParts'
<1>0. GuardShape
  BY DEF GuardParts
<1>1. CASE NG!Leave
  <2> DEFINE agreed == IF NG!Blocked THEN The(ui.pending) ELSE "too_late"
             u == [ui EXCEPT !.pending = None, !.agreed = agreed]
  <2>1. NG!AtRest /\ ui.pending # None /\ NG!Becomes(NG!PerformLeave(u, The(ui.pending)))
    BY <1>1 DEF NG!Leave, NG!None, None, NG!The, The
  <2>2. The(ui.pending) \in {"back", "list", "detail"}
    BY <1>0, <2>1 DEF GuardShape
  <2>3. /\ DOMAIN u = DOMAIN ui /\ u.pending = None /\ u.view = ui.view /\ u.form = ui.form
        /\ u.armed = ui.armed /\ u.seq = ui.seq /\ u.skip = ui.skip /\ u.agreed = agreed
    BY <1>0 DEF GuardShape
  <2>4. IF NG!Blocked THEN u.agreed = The(ui.pending) ELSE u.agreed = "too_late"
    BY <2>3
  <2> HIDE DEF u, agreed
  <2>5. CASE The(ui.pending) = "back"
    BY <2>1, <2>3, <2>4, <2>5, GuardLeavesBack
  <2>6. CASE The(ui.pending) \in {"list", "detail"}
    <3>1. The(ui.pending) \in NG!Urls \ {"edit"} /\ u.agreed # "back"
      BY <2>4, <2>6 DEF NG!Urls
    <3>2. QED
      BY <2>1, <2>3, <3>1, GuardLeavesFor
  <2>7. QED
    BY <2>2, <2>5, <2>6
<1>2. CASE NG!SaveAnswered \/ NG!BareNavigate
  <2> DEFINE u == [ui EXCEPT !.agreed = "saved"]
  <2>1. /\ NG!AtRest /\ ui.view = "edit"
        /\ NG!Becomes(NG!PerformLeave(u, "detail")) \/ NG!Becomes(NG!Navigate(u, srv, "detail"))
    BY <1>2 DEF NG!SaveAnswered, NG!BareNavigate
  <2>2. /\ DOMAIN u = DOMAIN ui /\ u.pending = ui.pending /\ u.view = ui.view /\ u.token = ui.token
        /\ u.armed = ui.armed /\ u.seq = ui.seq /\ u.skip = ui.skip /\ u.agreed = "saved"
    BY <1>0 DEF GuardShape
  <2> HIDE DEF u
  <2>3. "detail" \in NG!Urls \ {"edit"}
    BY DEF NG!Urls
  <2>4. QED
    BY <2>1, <2>2, <2>3, GuardLeavesFor, GuardNavigates
<1>3. CASE ~NG!Blocked /\ NG!RequestLeaveBack
  BY <1>3, GuardTraverses DEF NG!RequestLeaveBack
<1>4. ASSUME ~NG!Blocked, NEW url \in NG!Urls, NEW kind \in NG!Clicks, NG!FollowLink(url, kind)
      PROVE  GuardParts'
  <2> DEFINE u == [ui EXCEPT !.agreed = "no"]
  <2>1. NG!AtRest /\ url # ui.view /\ NG!Becomes(NG!Navigate(u, srv, url))
    BY <1>4 DEF NG!FollowLink, NG!Intercepts
  <2>2. /\ DOMAIN u = DOMAIN ui /\ u.pending = ui.pending /\ u.view = ui.view /\ u.token = ui.token
        /\ u.armed = ui.armed /\ u.seq = ui.seq /\ u.skip = ui.skip /\ u.agreed = "no"
    BY <1>0 DEF GuardShape
  <2> HIDE DEF u
  <2>3. QED
    BY <1>4, <2>1, <2>2, GuardNavigates
<1>5. QED
  BY <1>1, <1>2, <1>3, <1>4 DEF GuardLeaving

\* Where a traversal from a blocked form ends up: the entry of the form under the sentinel, or one
\* that is no sentinel.
LEMMA BeneathSentinel ==
  ASSUME GuardShape, Chain, HereEntry.mark # 0, HereEntry.url = "edit"
  PROVE  /\ srv.pos - 2 \in DOMAIN srv.hist /\ srv.pos - 1 \in DOMAIN srv.hist
         /\ srv.hist[srv.pos - 1].mark = 0 /\ srv.hist[srv.pos - 1].url = "edit"
         /\ srv.hist[srv.pos - 2].url # "edit"
         /\ srv.pos + 1 \in DOMAIN srv.hist => srv.hist[srv.pos + 1].mark = 0
<1> DEFINE n == srv.pos
<1>1. n \in 1 .. Len(srv.hist) /\ Len(srv.hist) \in Nat /\ DOMAIN srv.hist = 1 .. Len(srv.hist)
  BY DEF GuardShape
<1>2. n > 1 /\ srv.hist[n - 1].mark = 0 /\ srv.hist[n - 1].url = "edit"
  BY <1>1 DEF Chain, Chained, HereEntry
<1>3. n - 1 \in 1 .. Len(srv.hist) /\ n - 1 > 1 /\ srv.hist[(n - 1) - 1].url # "edit"
  BY <1>1, <1>2 DEF Chain, Chained
<1>4. (n - 1) - 1 = n - 2
  BY <1>1
<1>5. n + 1 \in DOMAIN srv.hist => srv.hist[n + 1].mark = 0
  <2>1. (n + 1) - 1 = n
    BY <1>1
  <2>2. HAVE n + 1 \in DOMAIN srv.hist
  <2>3. srv.hist[n + 1].mark # 0 => srv.hist[(n + 1) - 1].mark = 0
    BY <1>1, <2>2 DEF Chain, Chained
  <2>4. QED
    BY <2>1, <2>3 DEF HereEntry
<1>6. QED
  BY <1>1, <1>2, <1>3, <1>4, <1>5

\* A traversal is carried out.
GuardLanding(d) ==
  /\ d \in {-1, 1, -2} /\ srv.go = <<d>> /\ (d = -2 <=> ui.skip) /\ (ui.armed <=> NG!Blocked)
  /\ ui.agreed = "back" <=> d = -2
  /\ d = -2 => NG!Blocked
  /\ NG!Blocked => ui.token = HereEntry.mark \/ d = -2
  /\ NG!Blocked /\ d = 1 => ui.agreed = "forward"
  /\ NG!Blocked => HereEntry.mark # 0 /\ HereEntry.url = "edit"

LEMMA GuardLandsFrom == ASSUME GuardParts, srv.go # << >> PROVE \E d \in {-1, 1, -2} : GuardLanding(d)
<1>1. /\ ui.armed <=> NG!Blocked
      /\ \/ srv.go = <<-1>> /\ ~ui.skip
         \/ srv.go = <<1>> /\ ~ui.skip /\ (NG!Blocked => ui.agreed = "forward")
         \/ srv.go = <<-2>> /\ ui.skip /\ NG!Blocked /\ ui.agreed = "back"
  BY DEF GuardParts, UnderWay
<1>2. /\ ui.agreed = "back" => srv.go = <<-2>>
      /\ NG!Blocked => HereEntry.mark # 0 /\ (srv.go = <<-2>> \/ ui.token = HereEntry.mark)
  BY <1>1 DEF GuardParts, AgreedBack, Sealed
<1>3. NG!Blocked => HereEntry.url = "edit"
  BY DEF GuardParts, ViewIsHere, NG!Blocked
<1>4. CASE srv.go = <<-1>>
  BY <1>1, <1>2, <1>3, <1>4, Traversals DEF GuardLanding
<1>5. CASE srv.go = <<1>>
  BY <1>1, <1>2, <1>3, <1>5, Traversals DEF GuardLanding
<1>6. CASE srv.go = <<-2>>
  BY <1>1, <1>2, <1>3, <1>6, Traversals DEF GuardLanding
<1>7. QED
  BY <1>1, <1>4, <1>5, <1>6

\* What carrying it out does.
Landed(d) ==
  LET e == srv.hist[srv.pos + d]
  IN  \/ /\ srv.pos + d \notin DOMAIN srv.hist
         /\ ui' = ui /\ DOMAIN srv' = DOMAIN srv /\ srv'.hist = srv.hist /\ srv'.pos = srv.pos /\ srv'.go = << >>
      \/ /\ srv.pos + d \in DOMAIN srv.hist /\ DOMAIN ui' = DOMAIN ui
         /\ ui'.view = e.url /\ ui'.armed = ui.armed /\ ui'.agreed = ui.agreed
         /\ \/ /\ ~ui.armed \/ ui.skip
               /\ ui'.skip = FALSE /\ ui'.token = 0 /\ ui'.seq = ui.seq /\ ui'.pending = ui.pending
               /\ DOMAIN srv' = DOMAIN srv /\ srv'.hist = srv.hist /\ srv'.pos = srv.pos + d /\ srv'.go = << >>
            \/ /\ ui.armed /\ ~ui.skip
               /\ ui'.skip = FALSE /\ ui'.seq = ui.seq + 1 /\ ui'.token = ui.seq + 1
               /\ ui'.pending = <<"back">>
               /\ srv' = NG!Pushed([srv EXCEPT !.go = << >>, !.pos = @ + d], e.url, ui.seq + 1)

LEMMA GuardLanded == ASSUME GuardParts, NG!Land, NEW d \in {-1, 1, -2}, GuardLanding(d) PROVE Landed(d)
<1> DEFINE h     == [srv EXCEPT !.go = Tail(@), !.pos = @ + Head(srv.go)]
           e     == srv.hist[srv.pos + d]
           shown == NG!Showing(ui, e.url)
<1>1. Head(srv.go) = d /\ Tail(srv.go) = << >>
  BY DEF GuardLanding
<1>2. h = [srv EXCEPT !.go = << >>, !.pos = @ + d]
  BY <1>1
<1>3. /\ DOMAIN h = DOMAIN srv /\ h.hist = srv.hist /\ h.pos = srv.pos + d /\ h.go = << >>
  BY <1>2 DEF GuardParts, GuardShape
<1>4. IF srv.pos + d \notin DOMAIN srv.hist THEN srv' = [srv EXCEPT !.go = << >>] /\ ui' = ui
      ELSE IF ui.armed THEN NG!Becomes(NG!OnPopState(shown, h)) ELSE ui' = shown /\ srv' = h
  BY <1>1, <1>3 DEF NG!Land, NG!Serves, NG!Here
<1>5. /\ DOMAIN shown = DOMAIN ui /\ shown.view = e.url /\ shown.armed = ui.armed /\ shown.agreed = ui.agreed
      /\ shown.skip = ui.skip /\ shown.token = ui.token /\ shown.seq = ui.seq /\ shown.pending = ui.pending
  BY DEF NG!Showing, GuardParts, GuardShape
<1>6. ~ui.armed => ui.token = 0 /\ ui.skip = FALSE
  BY DEF GuardLanding, GuardParts, GuardShape, Sealed
<1>7. ui.skip \in BOOLEAN /\ ui.armed \in BOOLEAN
  BY DEF GuardParts, GuardShape
<1> HIDE DEF shown
<1>8. CASE srv.pos + d \notin DOMAIN srv.hist
  BY <1>4, <1>8 DEF Landed, GuardParts, GuardShape
<1>9. CASE srv.pos + d \in DOMAIN srv.hist /\ ~ui.armed
  BY <1>3, <1>4, <1>5, <1>6, <1>9 DEF Landed
<1>10. CASE srv.pos + d \in DOMAIN srv.hist /\ ui.armed /\ ui.skip
  <2>1. ui' = [shown EXCEPT !.skip = FALSE, !.token = 0] /\ srv' = h
    BY <1>4, <1>5, <1>10 DEF NG!Becomes, NG!OnPopState
  <2>2. /\ DOMAIN ui' = DOMAIN ui /\ ui'.view = e.url /\ ui'.armed = ui.armed /\ ui'.agreed = ui.agreed
        /\ ui'.skip = FALSE /\ ui'.token = 0 /\ ui'.seq = ui.seq /\ ui'.pending = ui.pending
    BY <2>1, <1>5 DEF GuardParts, GuardShape
  <2>3. QED
    BY <2>1, <2>2, <1>3, <1>10 DEF Landed
<1>11. CASE srv.pos + d \in DOMAIN srv.hist /\ ui.armed /\ ~ui.skip
  <2>1. NG!Here(h) = e
    BY <1>3 DEF NG!Here
  <2>2. NG!Becomes(NG!PushSentinel([shown EXCEPT !.pending = <<"back">>], h))
    BY <1>4, <1>5, <1>11 DEF NG!OnPopState, NG!Some
  <2> DEFINE v == [shown EXCEPT !.pending = <<"back">>]
  <2>3. /\ DOMAIN v = DOMAIN ui /\ v.view = e.url /\ v.armed = ui.armed /\ v.agreed = ui.agreed
        /\ v.skip = ui.skip /\ v.seq = ui.seq /\ v.pending = <<"back">>
    BY <1>5 DEF GuardParts, GuardShape
  <2> HIDE DEF v
  <2>4. /\ ui' = [v EXCEPT !.seq = @ + 1, !.token = v.seq + 1]
        /\ srv' = NG!Pushed(h, e.url, v.seq + 1)
    BY <2>1, <2>2 DEF NG!Becomes, NG!PushSentinel, v
  <2>5. /\ DOMAIN ui' = DOMAIN ui /\ ui'.view = e.url /\ ui'.armed = ui.armed /\ ui'.agreed = ui.agreed
        /\ ui'.skip = ui.skip /\ ui'.seq = ui.seq + 1 /\ ui'.token = ui.seq + 1 /\ ui'.pending = <<"back">>
    BY <2>3, <2>4 DEF GuardParts, GuardShape
  <2>6. ui'.skip = FALSE
    BY <2>5, <1>7, <1>11
  <2>7. QED
    BY <2>3, <2>4, <2>5, <2>6, <1>2, <1>11 DEF Landed
<1>12. QED
  BY <1>7, <1>8, <1>9, <1>10, <1>11

LEMMA GuardLands == ASSUME GuardParts, NG!Land PROVE GuardParts'
<1>0. PICK d \in {-1, 1, -2} : GuardLanding(d)
  BY GuardLandsFrom DEF NG!Land
<1>1. Landed(d)
  BY <1>0, GuardLanded
<1>2. srv.go # <<-2>> <=> d # -2
  BY <1>0, Traversals DEF GuardLanding
<1>3. CASE srv.pos + d \notin DOMAIN srv.hist
  <2>1. /\ ui' = ui /\ DOMAIN srv' = DOMAIN srv /\ srv'.hist = srv.hist /\ srv'.pos = srv.pos /\ srv'.go = << >>
    BY <1>1, <1>3 DEF Landed
  <2>2. d # -2
    BY <1>0, <1>3, BeneathSentinel DEF GuardLanding, GuardParts
  <2>3. HereEntry' = HereEntry /\ (NG!Blocked' <=> NG!Blocked)
    BY <2>1 DEF HereEntry, NG!Blocked
  <2>4. GuardShape' /\ Chain' /\ ViewIsHere'
    BY <2>1, <2>3 DEF GuardParts, GuardShape, Chain, ViewIsHere
  <2>5. Sealed'
    BY <1>2, <2>1, <2>2, <2>3 DEF GuardParts, Sealed
  <2>6. UnderWay' /\ AgreedBack'
    BY <1>0, <2>1, <2>2 DEF GuardLanding, UnderWay, AgreedBack
  <2>7. QED
    BY <2>4, <2>5, <2>6 DEF GuardParts
<1>4. ASSUME srv.pos + d \in DOMAIN srv.hist PROVE srv.hist[srv.pos + d] \in Entry /\ srv.pos + d \in 1 .. Len(srv.hist)
  BY <1>4 DEF GuardParts, GuardShape
<1>5. CASE srv.pos + d \in DOMAIN srv.hist /\ (~ui.armed \/ ui.skip)
  <2> DEFINE e == srv.hist[srv.pos + d]
  <2>1. /\ DOMAIN ui' = DOMAIN ui /\ ui'.view = e.url /\ ui'.armed = ui.armed /\ ui'.agreed = ui.agreed
        /\ ui'.skip = FALSE /\ ui'.token = 0 /\ ui'.seq = ui.seq /\ ui'.pending = ui.pending
        /\ DOMAIN srv' = DOMAIN srv /\ srv'.hist = srv.hist /\ srv'.pos = srv.pos + d /\ srv'.go = << >>
    BY <1>1, <1>5 DEF Landed
  <2>2. HereEntry' = e
    BY <2>1 DEF HereEntry
  <2>3. ui.skip => e.url # "edit"
    BY <1>0, BeneathSentinel DEF GuardLanding, GuardParts
  <2>4. ui'.armed => ~NG!Blocked'
    BY <2>1, <2>3, <1>5 DEF NG!Blocked
  <2>5. GuardShape'
    BY <2>1, <1>4, <1>5 DEF GuardParts, GuardShape
  <2>6. Chain' /\ ViewIsHere'
    BY <2>1, <2>2 DEF GuardParts, Chain, ViewIsHere
  <2>7. Sealed' /\ UnderWay'
    BY <2>1, <2>4 DEF Sealed, UnderWay
  <2>8. AgreedBack'
    BY <1>0, <2>1, <2>3 DEF AgreedBack, GuardLanding
  <2>9. QED
    BY <2>5, <2>6, <2>7, <2>8 DEF GuardParts
<1>6. CASE srv.pos + d \in DOMAIN srv.hist /\ ui.armed /\ ~ui.skip
  <2> DEFINE e == srv.hist[srv.pos + d]
             h == [srv EXCEPT !.go = << >>, !.pos = @ + d]
             n == ui.seq + 1
             p == NG!Pushed(h, e.url, n)
  <2>1. /\ DOMAIN ui' = DOMAIN ui /\ ui'.view = e.url /\ ui'.armed = ui.armed /\ ui'.agreed = ui.agreed
        /\ ui'.skip = FALSE /\ ui'.seq = n /\ ui'.token = n /\ ui'.pending = <<"back">> /\ srv' = p
    BY <1>1, <1>6 DEF Landed
  <2>2. d \in {-1, 1} /\ NG!Blocked /\ ui.agreed # "back"
    BY <1>0, <1>6 DEF GuardLanding
  <2>3. e.mark = 0
    BY <1>0, <1>6, <2>2, BeneathSentinel DEF GuardLanding, GuardParts
  <2>4. /\ DOMAIN h = {"hist", "pos", "go"} /\ h.hist = srv.hist /\ h.pos = srv.pos + d /\ h.go = << >>
    BY DEF GuardParts, GuardShape
  <2>5. h.hist \in Seq(Entry) /\ h.pos \in 1 .. Len(h.hist) /\ Chained(h.hist)
    BY <2>4, <1>4, <1>6 DEF GuardParts, GuardShape, Chain
  <2>6. e.url \in NG!Urls /\ n \in Nat /\ n # 0
    BY <1>4, <1>6 DEF Entry, GuardParts, GuardShape
  <2>7. h.hist[h.pos] = e
    BY <2>4
  <2> HIDE DEF h, e, n
  <2>8. /\ DOMAIN p = DOMAIN h /\ p.go = << >> /\ p.pos = h.pos + 1 /\ p.hist \in Seq(Entry)
        /\ Len(p.hist) = h.pos + 1 /\ p.hist[h.pos + 1] = [url |-> e.url, mark |-> n]
    BY <2>4, <2>5, <2>6, HistoryPushed
  <2>9. Chained(p.hist)
    BY <2>3, <2>4, <2>5, <2>6, <2>7, ChainPushed
  <2> HIDE DEF p
  <2>10. HereEntry' = [url |-> e.url, mark |-> n]
    BY <2>1, <2>8 DEF HereEntry
  <2>11. GuardShape'
    <3>1. ui'.pending # None => The(ui'.pending) = "back"
      BY <2>1 DEF The
    <3>2. ui'.armed \in BOOLEAN /\ ui'.skip \in BOOLEAN
      BY <2>1 DEF GuardParts, GuardShape
    <3>3. /\ DOMAIN srv' = {"hist", "pos", "go"} /\ srv'.hist \in Seq(Entry)
          /\ srv'.pos \in 1 .. Len(srv'.hist)
      BY <2>1, <2>4, <2>5, <2>8
    <3>4. QED
      BY <2>1, <2>6, <3>1, <3>2, <3>3 DEF GuardParts, GuardShape
  <2>12. Chain' /\ ViewIsHere'
    BY <2>1, <2>9, <2>10 DEF Chain, ViewIsHere
  <2>13. Sealed'
    BY <2>1, <2>6, <2>10, <1>6 DEF Sealed
  <2>14. UnderWay' /\ AgreedBack'
    BY <2>1, <2>2, <2>8 DEF UnderWay, AgreedBack
  <2>15. QED
    BY <2>11, <2>12, <2>13, <2>14 DEF GuardParts
<1>7. QED
  BY <1>3, <1>5, <1>6

LEMMA GuardStep == ASSUME GuardParts, NG!Next PROVE GuardParts'
<1>1. CASE GuardIdle
  BY <1>1, GuardIdles
<1>2. CASE GuardLeaving
  BY <1>2, GuardLeaves
<1>3. CASE NG!Arm \/ NG!Disarm \/ NG!Land \/ NG!Reload
  BY <1>3, GuardArms, GuardDisarms, GuardLands, GuardReloads
<1>4. CASE NG!Back \/ NG!Forward
  BY <1>4, GuardTraverses DEF NG!Back, NG!Forward
<1>5. CASE \E value \in NG!Values : NG!Type(value)
  BY <1>5, GuardTypes
<1>6. QED
  BY <1>1, <1>2, <1>3, <1>4, <1>5 DEF NG!Next, GuardIdle, GuardLeaving

LEMMA GuardInit == NG!Init => GuardParts
<1> SUFFICES ASSUME NG!Init PROVE GuardParts
  OBVIOUS
<1> DEFINE e == [url |-> "list", mark |-> 0]
<1>1. /\ DOMAIN ui = {"page", "view", "form", "armed", "token", "seq", "leaving", "skip", "pending", "agreed"}
      /\ ui.view = "list" /\ ui.armed = FALSE /\ ui.token = 0 /\ ui.seq = 0 /\ ui.skip = FALSE
      /\ ui.pending = None /\ ui.agreed = "no"
  BY DEF NG!Init, NG!Fresh, NG!None, None
<1>2. DOMAIN srv = {"hist", "pos", "go"} /\ srv.hist = <<e>> /\ srv.pos = 1 /\ srv.go = << >>
  BY DEF NG!Init
<1>3. e \in Entry /\ e.url = "list" /\ e.mark = 0
  BY DEF Entry, NG!Urls
<1> HIDE DEF e
<1>4. srv.hist \in Seq(Entry) /\ Len(srv.hist) = 1 /\ srv.hist[1] = e
  BY <1>2, <1>3
<1>5. ui.armed \in BOOLEAN /\ ui.skip \in BOOLEAN
  BY <1>1
<1>6. GuardShape
  BY <1>1, <1>2, <1>4, <1>5 DEF GuardShape
<1>7. Chain /\ ViewIsHere
  BY <1>1, <1>2, <1>3, <1>4 DEF Chain, Chained, ViewIsHere, HereEntry
<1>8. Sealed /\ UnderWay /\ AgreedBack
  BY <1>1, <1>2 DEF Sealed, UnderWay, AgreedBack
<1>9. QED
  BY <1>6, <1>7, <1>8 DEF GuardParts

LEMMA GuardInductive == GuardInv /\ [NextForms]_vars => GuardInv'
<1> SUFFICES ASSUME GuardInv, [NextForms]_vars PROVE GuardInv'
  OBVIOUS
<1>1. CASE ui.page = "guard" /\ NG!Next
  BY <1>1, GuardStep DEF GuardInv
<1>2. CASE ui.page # "guard" /\ ui'.page = ui.page
  BY <1>2 DEF GuardInv
<1>3. CASE UNCHANGED vars
  <2>1. GuardParts => GuardStill
    BY <1>3 DEF vars, GuardStill, GuardParts, GuardShape
  <2>2. QED
    BY <1>3, <2>1, GuardStillKeeps DEF GuardInv, vars
<1>4. QED
  BY <1>1, <1>2, <1>3 DEF NextForms, Stays

\* A blocked form that is left was left as agreed: what a step that shows another route sets.
LEMMA GuardAgrees ==
  ASSUME GuardParts, NG!Next, NG!Blocked, ui.armed, ui'.view # "edit"
  PROVE  ui'.agreed # "no"
<1>0. GuardShape /\ ui.view = "edit"
  BY DEF GuardParts, NG!Blocked
<1>1. CASE GuardIdle \/ NG!Arm \/ NG!Disarm
  <2>1. ui'.view = ui.view
    BY <1>0, <1>1 DEF GuardIdle, GuardShape, NG!LeavingTimer, NG!Stay, NG!RequestLeaveBack, NG!FollowLink,
       NG!Sets, NG!Arm, NG!Disarm
  <2>2. QED
    BY <1>0, <2>1
<1>2. CASE NG!Leave
  <2>1. /\ ui.pending # None
        /\ NG!Becomes(NG!PerformLeave([ui EXCEPT !.pending = None, !.agreed = The(ui.pending)], The(ui.pending)))
    BY <1>2 DEF NG!Leave, NG!None, None, NG!The, The
  <2>2. The(ui.pending) \in {"back", "list", "detail"}
    BY <1>0, <2>1 DEF GuardShape
  <2>3. ui'.agreed = The(ui.pending)
    BY <1>0, <2>1 DEF GuardShape, NG!Becomes, NG!PerformLeave, NG!Showing, NG!Navigate
  <2>4. QED
    BY <2>2, <2>3
<1>3. CASE NG!SaveAnswered \/ NG!BareNavigate
  <2> DEFINE u == [ui EXCEPT !.agreed = "saved"]
             out == [u EXCEPT !.leaving = TRUE, !.token = 0]
  <2>1. u.agreed = "saved" /\ out.agreed = "saved" /\ DOMAIN u = DOMAIN ui /\ DOMAIN out = DOMAIN ui
    BY <1>0 DEF GuardShape
  <2>2. /\ NG!Showing(u, "detail").agreed = "saved"
        /\ NG!Showing(out, "detail").agreed = "saved"
    BY <1>0, <2>1 DEF GuardShape, NG!Showing
  <2>3. NG!Becomes(NG!PerformLeave(u, "detail")) \/ NG!Becomes(NG!Navigate(u, srv, "detail"))
    BY <1>3 DEF NG!SaveAnswered, NG!BareNavigate
  <2> HIDE DEF u
  <2>4. ui' = NG!Showing(u, "detail") \/ ui' = NG!Showing(out, "detail")
    BY <2>3 DEF NG!Becomes, NG!PerformLeave, NG!Navigate
  <2>5. QED
    BY <2>2, <2>4
<1>4. CASE NG!Back \/ NG!Forward \/ \E value \in NG!Values : NG!Type(value)
  <2>1. ui'.view = ui.view
    BY <1>0, <1>4 DEF GuardShape, NG!Back, NG!Forward, NG!Traverse, NG!Type, NG!Sets
  <2>2. QED
    BY <1>0, <2>1
<1>5. CASE NG!Reload
  <2>1. ui'.view = HereEntry.url
    BY <1>5 DEF NG!Reload, NG!Fresh, NG!Here, HereEntry
  <2>2. QED
    BY <1>0, <2>1 DEF GuardParts, ViewIsHere
<1>6. CASE NG!Land
  <2>1. PICK d \in {-1, 1, -2} : GuardLanding(d)
    BY <1>6, GuardLandsFrom DEF NG!Land
  <2>2. Landed(d)
    BY <1>6, <2>1, GuardLanded
  <2>3. ui'.agreed = ui.agreed /\ (ui'.view = ui.view \/ ui'.view = srv.hist[srv.pos + d].url)
    BY <2>2 DEF Landed
  <2>4. d = -1 => ui'.view = "edit"
    BY <1>0, <2>1, <2>3, BeneathSentinel DEF GuardLanding, GuardParts
  <2>5. QED
    BY <2>1, <2>3, <2>4 DEF GuardLanding
<1>7. QED
  BY <1>1, <1>2, <1>3, <1>4, <1>5, <1>6 DEF NG!Next, GuardIdle

\* An edited form whose guard is up is left only as the user agreed, by a save or by "forward", and
\* whoever agrees to go back has left it when the history is still: over the sentinels of this and of
\* earlier loads, at either end of the history (NavigationGuardProvider.tsx).
THEOREM LeftOnlyAsAgreed == SpecForms => LeavesExactlyWhenAgreed
<1>1. InitForms => GuardInv
  BY GuardInit DEF InitForms, GuardInv, NG!On, CE!On, BF!On, RE!On, SE!On, SI!On
<1>2. GuardInv => NG!AgreedBackLeaves
  BY Traversals DEF GuardInv, GuardParts, AgreedBack, NG!AgreedBackLeaves, NG!On
<1>3. GuardInv /\ [NextForms]_vars => [NG!On /\ NG!Blocked /\ ui.armed /\ ui'.view # "edit" => ui'.agreed # "no"]_NG!vars
  <2> SUFFICES ASSUME GuardInv, ui.page = "guard", NG!Next, NG!Blocked, ui.armed, ui'.view # "edit"
               PROVE  ui'.agreed # "no"
    BY DEF NextForms, NG!On, vars, NG!vars
  <2>1. QED
    BY GuardAgrees DEF GuardInv
<1>4. QED
  BY <1>1, <1>2, <1>3, GuardInductive, PTL
  DEF SpecForms, LeavesExactlyWhenAgreed, NG!LeavesExactlyWhenAgreed, NG!LeftOnlyWhenAgreed

-----------------------------------------------------------------------------
(* The combo editor.                                                       *)
ComboShape ==
  /\ DOMAIN ui = {"page", "mode", "mounted", "dialog", "form", "initial", "seen", "carry", "issues",
                  "inFlight", "request", "checking", "promoting", "restoring", "follow", "stayed", "acts"}
  /\ DOMAIN srv = {"row", "made", "others"}
  /\ DOMAIN srv.row = {"live", "version", "key", "ka", "meta", "draft", "setups"}

Sent(kinds) == ui.request # None /\ The(ui.request).kind \in kinds

\* Creating, checking and restoring exclude each other, and a form that has made its combo can
\* make another one only when the user stayed on it.
OneWayToCombo ==
  /\ ui.request = None \/ ui.checking = None
  /\ ui.dialog # "none" => ui.mounted
  /\ ui.dialog \notin {"none", "character"} => ui.request = None /\ ui.checking = None
  /\ ui.restoring => /\ ui.request = None /\ ui.checking = None
                     /\ ui.dialog = "trash" \/ ~ui.mounted
  /\ \/ srv.made = 0
     \/ ui.stayed
     \/ /\ srv.made = 1 /\ ui.checking = None /\ ~ui.restoring
        /\ ui.request = None \/ Sent({"follow"})
        /\ ui.mounted => Sent({"follow"}) \/ ui.dialog = "saved_with_warnings"

\* What belongs to a registration, what to an edited row, and what to a row that is gone.
ModeOfDialog ==
  /\ (\/ ui.dialog = "trash" \/ ui.checking # None \/ ui.restoring
      \/ ui.follow \/ Sent({"follow"})) => ui.mode # "edit"
  /\ ui.dialog \in {"carry", "put", "version", "not_found"} \/ Sent({"patch", "put"}) => ui.mode = "edit"
  /\ ui.mode = "edit" /\ (ui.dialog = "not_found" \/ Sent({"create"}) \/ srv.made # 0) => ~srv.row.live

\* A form compares its key with that of a version, which is the row's while it is the last one.
KeyOfVersion ==
  /\ srv.row.version \in Nat
  /\ ui.mode = "edit" => ui.initial # None
  /\ ui.initial # None =>
       /\ The(ui.initial).version \in Nat /\ The(ui.initial).version <= srv.row.version
       /\ The(ui.initial).version = srv.row.version => The(ui.initial).key = srv.row.key
  /\ Sent({"patch"}) =>
       LET q == The(ui.request)
       IN  /\ q.version \in Nat /\ q.version <= srv.row.version
           /\ q.version = srv.row.version => q.form.key = srv.row.key

ComboParts == ComboShape /\ OneWayToCombo /\ ModeOfDialog /\ KeyOfVersion

ComboInv == ui.page = "combo_editor" => ComboParts

\* An action of the form that concerns no request, no dialog and no row.
ComboQuiet ==
  /\ srv' = srv /\ DOMAIN ui' = DOMAIN ui
  /\ ui'.mode = ui.mode /\ ui'.mounted = ui.mounted /\ ui'.dialog = ui.dialog
  /\ ui'.request = ui.request /\ ui'.checking = ui.checking /\ ui'.restoring = ui.restoring
  /\ ui'.follow = ui.follow /\ ui'.stayed = ui.stayed /\ ui'.initial = ui.initial

LEMMA ComboQuietKeeps == ASSUME ComboParts, ComboQuiet PROVE ComboParts'
BY DEF ComboParts, ComboShape, OneWayToCombo, ModeOfDialog, KeyOfVersion, Sent, ComboQuiet, The, None

LEMMA ComboFieldsOnly ==
  ASSUME ComboShape,
         \/ CE!ToggleDraft \/ CE!Promote
         \/ \E key \in ComboKeys : CE!SetKey(key)
         \/ \E ka \in CE!KAs : CE!SetKA(ka)
         \/ \E meta \in CE!Metas : CE!SetMeta(meta)
  PROVE  ComboQuiet
<1> USE DEF ComboShape, ComboQuiet, CE!Sets, CE!Edits
<1>1. CASE CE!ToggleDraft
  BY <1>1 DEF CE!ToggleDraft
<1>2. CASE CE!Promote
  BY <1>2 DEF CE!Promote
<1>3. ASSUME NEW key, CE!SetKey(key) PROVE ComboQuiet
  BY <1>3 DEF CE!SetKey
<1>4. ASSUME NEW ka, CE!SetKA(ka) PROVE ComboQuiet
  BY <1>4 DEF CE!SetKA
<1>5. ASSUME NEW meta, CE!SetMeta(meta) PROVE ComboQuiet
  BY <1>5 DEF CE!SetMeta
<1>6. QED
  BY <1>1, <1>2, <1>3, <1>4, <1>5

\* A form that is left, whatever else goes on.
LEMMA ComboLeft ==
  ASSUME ComboParts, srv' = srv, ui' = [ui EXCEPT !.mounted = FALSE, !.dialog = "none"]
  PROVE  ComboParts'
<1>1. ComboShape' /\ KeyOfVersion'
  BY DEF ComboParts, ComboShape, KeyOfVersion, Sent, The, None
<1>2. OneWayToCombo'
  BY DEF ComboParts, ComboShape, OneWayToCombo, Sent, The, None
<1>3. ModeOfDialog'
  BY DEF ComboParts, ComboShape, ModeOfDialog, Sent, The, None
<1>4. QED
  BY <1>1, <1>2, <1>3 DEF ComboParts

\* A registration that can make its combo is sent, or checked against the trash first.
LEMMA ComboSent ==
  ASSUME ComboParts, ui.request = None, ui.checking = None, ~ui.restoring, ui.mounted,
         ui.dialog \in {"none", "trash", "not_found"},
         srv.made = 0 \/ ui.stayed,
         ui.mode = "edit" => ui.dialog = "not_found",
         srv' = srv, DOMAIN ui' = DOMAIN ui,
         ui'.mode = ui.mode, ui'.mounted = ui.mounted, ui'.follow = ui.follow,
         ui'.stayed = ui.stayed, ui'.initial = ui.initial, ui'.restoring = ui.restoring,
         ui'.dialog = "none",
         \/ ui'.checking = None /\ ui'.request # None /\ The(ui'.request).kind = "create"
         \/ ui'.request = None /\ ui'.checking # None /\ ui.mode # "edit"
  PROVE  ComboParts'
<1> USE DEF ComboParts, Sent
<1>1. ComboShape'
  BY DEF ComboShape
<1>2. KeyOfVersion'
  BY DEF KeyOfVersion
<1>3. OneWayToCombo'
  BY DEF OneWayToCombo
<1>4. ModeOfDialog'
  BY DEF ModeOfDialog
<1>5. QED
  BY <1>1, <1>2, <1>3, <1>4

\* An edited row is asked about, or sent as a PATCH under the version of the cache.
LEMMA ComboAsks ==
  ASSUME ComboParts, ui.mode = "edit", ui.mounted, ui.request = None, ui.checking = None, ~ui.restoring,
         srv.made = 0 \/ ui.stayed,
         srv' = srv, DOMAIN ui' = DOMAIN ui,
         ui'.mode = ui.mode, ui'.mounted = ui.mounted, ui'.follow = ui.follow,
         ui'.stayed = ui.stayed, ui'.initial = ui.initial, ui'.restoring = ui.restoring,
         ui'.checking = None,
         \/ ui'.request = None /\ ui'.dialog \in {"carry", "put"}
         \/ /\ ui'.dialog = "none" /\ ui'.request # None /\ The(ui'.request).kind = "patch"
            /\ The(ui'.request).version = The(ui.initial).version
            /\ The(ui'.request).form.key = The(ui.initial).key
  PROVE  ComboParts'
<1> USE DEF ComboParts, Sent
<1>1. ComboShape'
  BY DEF ComboShape
<1>2. KeyOfVersion'
  BY DEF KeyOfVersion
<1>3. OneWayToCombo'
  BY DEF OneWayToCombo
<1>4. ModeOfDialog'
  BY DEF ModeOfDialog
<1>5. QED
  BY <1>1, <1>2, <1>3, <1>4

LEMMA ComboProceeds ==
  ASSUME ComboParts, ui.mode = "edit", ui.mounted, ui.request = None, ui.checking = None, ~ui.restoring,
         srv.made = 0 \/ ui.stayed, NEW u, NEW carry,
         DOMAIN u = DOMAIN ui, u.mode = ui.mode, u.mounted = ui.mounted, u.follow = ui.follow,
         u.stayed = ui.stayed, u.initial = ui.initial, u.restoring = ui.restoring,
         u.dialog = "none", u.request = None, u.checking = None, u.form = ui.form,
         srv' = srv, ui' = CE!ProceedSave(u, carry)
  PROVE  ComboParts'
<1>1. ComboShape
  BY DEF ComboParts
<1>2. CASE ui' = [u EXCEPT !.carry = carry, !.dialog = "put"]
  BY <1>1, <1>2, ComboAsks DEF ComboShape
<1>3. CASE /\ ui' = [u EXCEPT !.request = CE!Request("patch", u.form, CE!The(u.initial).version, carry)]
           /\ ui.form.key = CE!The(ui.initial).key
  <2> DEFINE q == CE!Request("patch", u.form, CE!The(u.initial).version, carry)
  <2>1. /\ q # None /\ The(q).kind = "patch" /\ The(q).version = The(ui.initial).version
        /\ The(q).form.key = The(ui.initial).key
    BY <1>3 DEF CE!Request, CE!Some, CE!The, The, None
  <2>2. ui' = [u EXCEPT !.request = q]
    BY <1>3
  <2> HIDE DEF q
  <2>3. QED
    BY <1>1, <2>1, <2>2, ComboAsks DEF ComboShape
<1>4. QED
  BY <1>2, <1>3 DEF CE!ProceedSave, CE!RunPatch, CE!HasKeyChanges

LEMMA ComboSaves == ASSUME ComboParts, CE!OnSave PROVE ComboParts'
<1> USE DEF CE!None, CE!Some, CE!The, None, The
<1>1. /\ ui.mounted /\ ui.dialog = "none" /\ ui.request = None /\ ui.checking = None /\ srv' = srv
      /\ ~ui.restoring /\ ComboShape
  BY DEF CE!OnSave, CE!Usable, CE!Mounted, CE!CanSaveNow, CE!IsMutating, CE!IsSavingNow, CE!Sets,
         ComboParts, OneWayToCombo
<1>2. srv.made = 0 \/ ui.stayed
  BY <1>1 DEF ComboParts, OneWayToCombo, Sent
<1> DEFINE u == [ui EXCEPT !.issues = FALSE, !.acts = @ + 1]
<1>3. \/ ui' = [ui EXCEPT !.issues = TRUE]
      \/ ui.mode # "edit" /\ ui' = CE!RunCreateWithTrashCheck(u)
      \/ ui.mode = "edit" /\ ui' = [u EXCEPT !.dialog = "carry"]
      \/ ui.mode = "edit" /\ ui' = CE!ProceedSave(u, u.carry)
  BY <1>1 DEF CE!OnSave, CE!Sets, ComboShape
<1>4. CASE ui' = [ui EXCEPT !.issues = TRUE]
  BY <1>1, <1>4, ComboQuietKeeps DEF ComboQuiet, ComboShape
<1>5. CASE ui.mode # "edit" /\ ui' = CE!RunCreateWithTrashCheck(u)
  <2>1. \/ ui' = [u EXCEPT !.inFlight = TRUE, !.request = CE!Request("create", u.form, 0, "none")]
        \/ ui' = [u EXCEPT !.checking = <<u.form>>]
    BY <1>5 DEF CE!RunCreateWithTrashCheck, CE!RunCreate
  <2>2. CASE ui' = [u EXCEPT !.inFlight = TRUE, !.request = CE!Request("create", u.form, 0, "none")]
    <3>1. ui'.request # None /\ The(ui'.request).kind = "create"
      BY <1>1, <2>2 DEF ComboShape, CE!Request
    <3>2. QED
      BY <1>1, <1>2, <1>5, <2>2, <3>1, ComboSent DEF ComboShape
  <2>3. CASE ui' = [u EXCEPT !.checking = <<u.form>>]
    <3>1. ui'.checking # None
      BY <1>1, <2>3 DEF ComboShape
    <3>2. QED
      BY <1>1, <1>2, <1>5, <2>3, <3>1, ComboSent DEF ComboShape
  <2>4. QED
    BY <2>1, <2>2, <2>3
<1>6. CASE ui.mode = "edit" /\ ui' = [u EXCEPT !.dialog = "carry"]
  BY <1>1, <1>2, <1>6, ComboAsks DEF ComboShape
<1>7. CASE ui.mode = "edit" /\ ui' = CE!ProceedSave(u, u.carry)
  <2>1. /\ DOMAIN u = DOMAIN ui /\ u.mode = ui.mode /\ u.mounted = ui.mounted /\ u.follow = ui.follow
        /\ u.stayed = ui.stayed /\ u.initial = ui.initial /\ u.restoring = ui.restoring
        /\ u.dialog = "none" /\ u.request = None /\ u.checking = None /\ u.form = ui.form
    BY <1>1 DEF ComboShape
  <2> HIDE DEF u
  <2>2. QED
    BY <1>1, <1>2, <1>7, <2>1, ComboProceeds
<1>8. QED
  BY <1>3, <1>4, <1>5, <1>6, <1>7

LEMMA ComboAsksKnockdown ==
  ASSUME ComboParts, NEW choice, CE!HandleKnockdownConfirm(choice) PROVE ComboParts'
<1> DEFINE u == [ui EXCEPT !.dialog = "none", !.carry = choice]
<1>1. /\ ui.mounted /\ ui.dialog = "carry" /\ ui.mode = "edit" /\ srv' = srv /\ ComboShape
      /\ ui.request = None /\ ui.checking = None /\ ui' = CE!ProceedSave(u, choice)
  BY DEF CE!HandleKnockdownConfirm, CE!Asked, CE!Mounted, CE!Sets, ComboParts, OneWayToCombo, ModeOfDialog
<1>2. ~ui.restoring /\ (srv.made = 0 \/ ui.stayed)
  BY <1>1 DEF ComboParts, OneWayToCombo, Sent
<1>3. /\ DOMAIN u = DOMAIN ui /\ u.mode = ui.mode /\ u.mounted = ui.mounted /\ u.follow = ui.follow
      /\ u.stayed = ui.stayed /\ u.initial = ui.initial /\ u.restoring = ui.restoring
      /\ u.dialog = "none" /\ u.request = None /\ u.checking = None /\ u.form = ui.form
  BY <1>1 DEF ComboShape
<1> HIDE DEF u
<1>4. QED
  BY <1>1, <1>2, <1>3, ComboProceeds

\* The user agreed to a PUT, which writes the key.
LEMMA ComboPuts == ASSUME ComboParts, CE!ConfirmPut PROVE ComboParts'
<1> USE DEF ComboParts, Sent
<1>1. /\ ui.mounted /\ ui.dialog = "put" /\ ui.mode = "edit" /\ srv' = srv
      /\ ui.request = None /\ ui.checking = None /\ ~ui.restoring /\ (srv.made = 0 \/ ui.stayed)
  BY DEF CE!ConfirmPut, CE!Asked, CE!Mounted, CE!Sets, OneWayToCombo, ModeOfDialog
<1>2. /\ DOMAIN ui' = DOMAIN ui /\ ui'.mode = ui.mode /\ ui'.mounted = ui.mounted
      /\ ui'.checking = None /\ ui'.restoring = ui.restoring /\ ui'.follow = ui.follow
      /\ ui'.stayed = ui.stayed /\ ui'.initial = ui.initial /\ ui'.dialog = "none"
      /\ ui'.request # None /\ The(ui'.request).kind = "put"
  BY <1>1 DEF CE!ConfirmPut, CE!Sets, CE!RunPut, CE!Request, CE!Some, The, None, ComboShape
<1>3. ComboShape' /\ KeyOfVersion'
  BY <1>1, <1>2 DEF ComboShape, KeyOfVersion
<1>4. OneWayToCombo'
  BY <1>1, <1>2 DEF OneWayToCombo
<1>5. ModeOfDialog'
  BY <1>1, <1>2 DEF ModeOfDialog
<1>6. QED
  BY <1>3, <1>4, <1>5

\* A combo is counted: the only way to it was the one that was taken.
LEMMA ComboCreated == ASSUME ComboParts, NEW warned, CE!CreateAnswered(warned) PROVE ComboParts'
<1> USE DEF ComboParts, Sent
<1>1. /\ Sent({"create"}) /\ ui.request # None /\ The(ui.request).kind = "create"
      /\ srv' = [srv EXCEPT !.made = @ + 1] /\ ui.checking = None /\ ~ui.restoring
      /\ ui.dialog \in {"none", "character"} /\ (srv.made = 0 \/ ui.stayed)
      /\ ui.mode = "edit" => ~srv.row.live
  BY DEF CE!CreateAnswered, CE!Awaits, CE!Counted, CE!None, CE!The, None, The, OneWayToCombo, ModeOfDialog
<1>2. /\ srv'.row = srv.row /\ DOMAIN srv' = DOMAIN srv /\ (srv'.made = 1 \/ ui.stayed)
  BY <1>1 DEF ComboShape
<1>3. /\ DOMAIN ui' = DOMAIN ui /\ ui'.mode = ui.mode /\ ui'.checking = None
      /\ ui'.restoring = ui.restoring /\ ui'.follow = ui.follow
      /\ ui'.stayed = ui.stayed /\ ui'.initial = ui.initial
      /\ \/ ui'.mounted = ui.mounted /\ ~ui.mounted /\ ui'.request = None /\ ui'.dialog = ui.dialog
         \/ /\ ui.mounted /\ ui'.mounted /\ ui.follow /\ ui'.dialog = ui.dialog
            /\ ui'.request # None /\ The(ui'.request).kind = "follow"
         \/ ui.mounted /\ ui'.mounted /\ ui'.request = None /\ ui'.dialog = "saved_with_warnings"
         \/ ui.mounted /\ ~ui'.mounted /\ ui'.request = None /\ ui'.dialog = "none"
  <2>1. CASE ~ui.mounted
    BY <1>1, <2>1 DEF CE!CreateAnswered, CE!Answered, CE!None, None, ComboShape
  <2>2. CASE ui.mounted /\ ui.follow
    <3> DEFINE q == CE!Request("follow", CE!The(ui.request).form, 0, "none")
    <3>1. ui' = [[ui EXCEPT !.inFlight = FALSE] EXCEPT !.request = q]
      BY <2>2, <1>1 DEF CE!CreateAnswered, CE!AfterCreate, ComboShape
    <3>2. q # None /\ The(q).kind = "follow"
      BY DEF CE!Request, CE!Some, None, The
    <3> HIDE DEF q
    <3>3. QED
      BY <1>1, <2>2, <3>1, <3>2 DEF ComboShape
  <2>3. CASE ui.mounted /\ ~ui.follow
    BY <1>1, <2>3 DEF CE!CreateAnswered, CE!AfterCreate, CE!HandleSaveSuccess, CE!Answered, CE!Leaves,
                      CE!None, None, ComboShape
  <2>4. QED
    BY <2>1, <2>2, <2>3
<1>4. ComboShape' /\ KeyOfVersion'
  BY <1>1, <1>2, <1>3 DEF ComboShape, KeyOfVersion
<1>5. OneWayToCombo'
  BY <1>1, <1>2, <1>3 DEF OneWayToCombo
<1>6. ModeOfDialog'
  BY <1>1, <1>2, <1>3 DEF ModeOfDialog
<1>7. QED
  BY <1>4, <1>5, <1>6

LEMMA ComboRefused ==
  ASSUME ComboParts, NEW why \in {"rejected", "failed"}, CE!CreateRefused(why) PROVE ComboParts'
<1> USE DEF ComboParts, Sent
<1>1. /\ srv' = srv /\ ui.checking = None /\ ~ui.restoring
      /\ ui.dialog \in {"none", "character"} /\ (srv.made = 0 \/ ui.stayed)
  BY DEF CE!CreateRefused, CE!Awaits, CE!Sets, CE!None, CE!The, None, The, OneWayToCombo
<1>2. /\ DOMAIN ui' = DOMAIN ui /\ ui'.mode = ui.mode /\ ui'.checking = None
      /\ ui'.restoring = ui.restoring /\ ui'.follow = ui.follow /\ ui'.mounted = ui.mounted
      /\ ui'.stayed = ui.stayed /\ ui'.initial = ui.initial
      /\ ui'.dialog = ui.dialog /\ ui'.request = None
  BY <1>1 DEF CE!CreateRefused, CE!Sets, CE!HandleError, CE!Answered, CE!None, None, ComboShape
<1>3. ComboShape' /\ KeyOfVersion'
  BY <1>1, <1>2 DEF ComboShape, KeyOfVersion
<1>4. OneWayToCombo'
  BY <1>1, <1>2 DEF OneWayToCombo
<1>5. ModeOfDialog'
  BY <1>1, <1>2 DEF ModeOfDialog
<1>6. QED
  BY <1>3, <1>4, <1>5

\* The requests after the combo end with the form left, or with the warnings of the combo.
LEMMA ComboFollowed ==
  ASSUME ComboParts, NEW warned, CE!FollowUpAnswered(warned) \/ CE!FollowUpFailed PROVE ComboParts'
<1> USE DEF ComboParts, Sent
<1>1. /\ srv' = srv /\ Sent({"follow"}) /\ ui.request # None /\ ui.checking = None /\ ~ui.restoring
      /\ ui.dialog \in {"none", "character"}
  BY DEF CE!FollowUpAnswered, CE!FollowUpFailed, CE!Awaits, CE!Sets, CE!None, CE!The, None, The,
         OneWayToCombo
<1>2. /\ DOMAIN ui' = DOMAIN ui /\ ui'.mode = ui.mode /\ ui'.checking = None
      /\ ui'.restoring = ui.restoring /\ ui'.follow = ui.follow
      /\ ui'.stayed = ui.stayed /\ ui'.initial = ui.initial /\ ui'.request = None
      /\ \/ ~ui.mounted /\ ~ui'.mounted /\ ui'.dialog = ui.dialog
         \/ ~ui'.mounted /\ ui'.dialog = "none"
         \/ ui.mounted /\ ui'.mounted = ui.mounted /\ ui'.dialog = "saved_with_warnings"
  <2>1. CASE CE!FollowUpFailed
    BY <1>1, <2>1 DEF CE!FollowUpFailed, CE!Sets, CE!Leaves, CE!Answered, CE!None, None, ComboShape
  <2>2. CASE CE!FollowUpAnswered(warned)
    BY <1>1, <2>2 DEF CE!FollowUpAnswered, CE!Sets, CE!HandleSaveSuccess, CE!Leaves, CE!Answered, CE!None,
                None, ComboShape
  <2>3. QED
    BY <2>1, <2>2
<1>3. ComboShape' /\ KeyOfVersion'
  BY <1>1, <1>2 DEF ComboShape, KeyOfVersion
<1>4. OneWayToCombo'
  BY <1>1, <1>2 DEF OneWayToCombo
<1>5. ModeOfDialog'
  BY <1>1, <1>2 DEF ModeOfDialog
<1>6. QED
  BY <1>3, <1>4, <1>5

\* What an accepted write leaves of the row, as far as other forms see it.
RowMovedOn ==
  /\ DOMAIN srv' = DOMAIN srv /\ DOMAIN srv'.row = DOMAIN srv.row /\ srv'.made = srv.made
  /\ srv'.row.live = srv.row.live /\ srv'.row.version = srv.row.version + 1

LEMMA ComboUpdated == ASSUME ComboParts, NEW warned, CE!UpdateAnswered(warned) PROVE ComboParts'
<1> USE DEF ComboParts, Sent
<1> DEFINE why == CE!Refusal(CE!The(ui.request).version)
<1>1. /\ ui.request # None /\ ui.checking = None /\ ~ui.restoring /\ ui.mode = "edit"
      /\ ui.dialog \in {"none", "character"} /\ (srv.made = 0 \/ ui.stayed)
  BY DEF CE!UpdateAnswered, CE!Awaits, CE!None, CE!The, None, The, OneWayToCombo, ModeOfDialog
<1>2. /\ why \in {"none", "version", "not_found"} /\ (why = "not_found" => ~srv.row.live)
      /\ \/ why = "none" /\ RowMovedOn
         \/ why # "none" /\ srv' = srv
  <2>1. why # "none" => srv' = srv
    BY DEF CE!UpdateAnswered
  <2>2. why = "none" => srv' = CE!Written(CE!The(ui.request))
    BY DEF CE!UpdateAnswered
  <2>3. why = "none" => RowMovedOn
    <3> DEFINE q      == CE!The(ui.request)
               key    == IF q.kind = "put" THEN q.form.key ELSE srv.row.key
               setups == srv.row.setups /\ q.carry # "unlink_all"
               row    == [srv.row EXCEPT !.key = key, !.ka = q.form.ka, !.meta = q.form.meta,
                                         !.draft = q.form.draft, !.version = @ + 1, !.setups = setups]
    <3>1. why = "none" => srv' = [srv EXCEPT !.row = row]
      BY <2>2 DEF CE!Written
    <3>2. /\ DOMAIN row = DOMAIN srv.row /\ row.live = srv.row.live
          /\ row.version = srv.row.version + 1
      <4> HIDE DEF setups, key
      <4>1. QED
        BY DEF ComboShape
    <3> HIDE DEF row
    <3>3. QED
      BY <3>1, <3>2 DEF RowMovedOn, ComboShape
  <2>4. QED
    BY <2>1, <2>3 DEF CE!Refusal
<1>3. /\ DOMAIN ui' = DOMAIN ui /\ ui'.mode = ui.mode /\ ui'.checking = None
      /\ ui'.restoring = ui.restoring /\ ui'.follow = ui.follow
      /\ ui'.stayed = ui.stayed /\ ui'.initial = ui.initial /\ ui'.request = None
      /\ \/ ui'.mounted = ui.mounted /\ ui'.dialog = ui.dialog
         \/ ui.mounted /\ ui'.mounted = ui.mounted /\ why # "none" /\ ui'.dialog = why
         \/ ui.mounted /\ ui'.mounted = ui.mounted /\ ui'.dialog = "saved_with_warnings"
         \/ ~ui'.mounted /\ ui'.dialog = "none"
  <2>1. CASE ~ui.mounted
    BY <1>1, <2>1 DEF CE!UpdateAnswered, CE!Answered, CE!None, None, ComboShape
  <2>2. CASE ui.mounted /\ why # "none"
    <3>1. ui' = CE!HandleError(ui, why)
      BY <2>2 DEF CE!UpdateAnswered
    <3>2. QED
      BY <1>1, <1>2, <2>2, <3>1 DEF CE!HandleError, CE!Answered, CE!None, None, ComboShape
  <2>3. CASE ui.mounted /\ why = "none"
    <3>1. ui' = CE!HandleSaveSuccess([ui EXCEPT !.seen = CE!Some(srv'.row)], warned)
      BY <2>3 DEF CE!UpdateAnswered
    <3>2. QED
      BY <1>1, <2>3, <3>1 DEF CE!HandleSaveSuccess, CE!Answered, CE!Leaves, CE!None, None, ComboShape
  <2>4. QED
    BY <2>1, <2>2, <2>3
<1> HIDE DEF why
<1>4. ComboShape'
  BY <1>2, <1>3 DEF ComboShape, RowMovedOn
<1>5. KeyOfVersion'
  BY <1>2, <1>3 DEF KeyOfVersion, RowMovedOn
<1>6. OneWayToCombo'
  BY <1>1, <1>2, <1>3 DEF OneWayToCombo, RowMovedOn
<1>7. ModeOfDialog'
  BY <1>1, <1>2, <1>3 DEF ModeOfDialog, RowMovedOn
<1>8. QED
  BY <1>4, <1>5, <1>6, <1>7

\* The row moves on under the form, which changes nothing that concerns a request.
LEMMA ComboOvertaken ==
  ASSUME ComboParts, RowMovedOn, DOMAIN ui' = DOMAIN ui,
         ui'.mode = ui.mode, ui'.checking = ui.checking, ui'.restoring = ui.restoring,
         ui'.follow = ui.follow, ui'.stayed = ui.stayed, ui'.initial = ui.initial,
         ui'.request = ui.request,
         \/ ui'.mounted = ui.mounted /\ ui'.dialog = ui.dialog
         \/ ui'.mounted = FALSE /\ ui'.dialog = "none"
  PROVE  ComboParts'
<1> USE DEF ComboParts, Sent
<1>1. ComboShape'
  BY DEF ComboShape, RowMovedOn
<1>2. KeyOfVersion'
  BY DEF KeyOfVersion, RowMovedOn
<1>3. OneWayToCombo'
  BY DEF OneWayToCombo, RowMovedOn
<1>4. ModeOfDialog'
  BY DEF ModeOfDialog, RowMovedOn
<1>5. QED
  BY <1>1, <1>2, <1>3, <1>4

LEMMA ComboPromoted == ASSUME ComboParts, CE!PromoteAnswered PROVE ComboParts'
<1> DEFINE why == CE!Refusal(CE!The(ui.promoting))
<1>1. ComboShape
  BY DEF ComboParts
<1>2. CASE why = "none"
  <2>1. RowMovedOn
    BY <1>1, <1>2 DEF CE!PromoteAnswered, RowMovedOn, ComboShape
  <2>2. /\ DOMAIN ui' = DOMAIN ui
        /\ ui'.mode = ui.mode /\ ui'.checking = ui.checking /\ ui'.restoring = ui.restoring
        /\ ui'.follow = ui.follow /\ ui'.stayed = ui.stayed /\ ui'.initial = ui.initial
        /\ ui'.request = ui.request
        /\ \/ ui'.mounted = ui.mounted /\ ui'.dialog = ui.dialog
           \/ ui'.mounted = FALSE /\ ui'.dialog = "none"
    BY <1>1, <1>2 DEF CE!PromoteAnswered, CE!Leaves, ComboShape
  <2>3. QED
    BY <2>1, <2>2, ComboOvertaken
<1>3. CASE why # "none"
  <2>1. ComboQuiet
    BY <1>1, <1>3 DEF CE!PromoteAnswered, ComboQuiet, ComboShape
  <2>2. QED
    BY <2>1, ComboQuietKeeps
<1>4. QED
  BY <1>2, <1>3

LEMMA ComboOfOthers ==
  ASSUME ComboParts, CE!OtherDeletes \/ \E key, meta : CE!OtherSaves(key, meta) PROVE ComboParts'
<1>1. CASE CE!OtherDeletes
  <2>1. /\ ui' = ui /\ srv.row.live /\ DOMAIN srv' = DOMAIN srv /\ DOMAIN srv'.row = DOMAIN srv.row
        /\ srv'.made = srv.made /\ srv'.row.version = srv.row.version /\ srv'.row.key = srv.row.key
        /\ srv'.row.live = FALSE
    BY <1>1 DEF CE!OtherDeletes, CE!Serves, ComboParts, ComboShape
  <2>2. QED
    BY <2>1 DEF ComboParts, ComboShape, OneWayToCombo, ModeOfDialog, KeyOfVersion, Sent
<1>2. ASSUME NEW key, NEW meta, CE!OtherSaves(key, meta) PROVE ComboParts'
  <2>1. RowMovedOn /\ ui' = ui
    BY <1>2 DEF CE!OtherSaves, CE!Serves, RowMovedOn, ComboParts, ComboShape
  <2>2. QED
    BY <2>1, ComboOvertaken
<1>3. QED
  BY <1>1, <1>2

LEMMA ComboChecked == ASSUME ComboParts, NEW ok \in BOOLEAN, CE!CheckAnswered(ok) PROVE ComboParts'
<1> USE DEF ComboParts, Sent
<1>1. /\ srv' = srv /\ ui.request = None /\ ui.checking # None /\ ~ui.restoring /\ ui.mode # "edit"
      /\ ui.dialog \in {"none", "character"} /\ (srv.made = 0 \/ ui.stayed)
  BY DEF CE!CheckAnswered, CE!Sets, CE!None, None, OneWayToCombo, ModeOfDialog
<1>2. /\ DOMAIN ui' = DOMAIN ui /\ ui'.mode = ui.mode /\ ui'.checking = None
      /\ ui'.restoring = ui.restoring /\ ui'.follow = ui.follow /\ ui'.mounted = ui.mounted
      /\ ui'.stayed = ui.stayed /\ ui'.initial = ui.initial
      /\ \/ ui'.request # None /\ The(ui'.request).kind = "create" /\ ui'.dialog = ui.dialog
         \/ ui'.request = None /\ ui.mounted /\ ui'.dialog = "trash"
         \/ ui'.request = None /\ ui'.dialog = ui.dialog
  <2> DEFINE form == CE!The(ui.checking)
             u    == [ui EXCEPT !.checking = CE!None]
             q    == CE!Request("create", form, 0, "none")
  <2>1. \/ ui' = [u EXCEPT !.inFlight = TRUE, !.request = q]
        \/ ui.mounted /\ ui' = [u EXCEPT !.dialog = "trash"]
        \/ ui' = u
    BY DEF CE!CheckAnswered, CE!Sets, CE!RunCreate, ComboShape
  <2>2. q # None /\ The(q).kind = "create" /\ CE!None = None
    BY DEF CE!Request, CE!Some, None, The, CE!None
  <2> HIDE DEF q
  <2>3. QED
    BY <1>1, <2>1, <2>2 DEF ComboShape
<1>3. ComboShape' /\ KeyOfVersion'
  BY <1>1, <1>2 DEF ComboShape, KeyOfVersion
<1>4. OneWayToCombo'
  BY <1>1, <1>2 DEF OneWayToCombo
<1>5. ModeOfDialog'
  BY <1>1, <1>2 DEF ModeOfDialog
<1>6. QED
  BY <1>3, <1>4, <1>5

\* A fresh row in the cache, and a page that is loaded anew: the version is the row's.
LEMMA ComboRefreshed == ASSUME ComboParts, CE!Refetched \/ CE!HandleConflictReload PROVE ComboParts'
<1> USE DEF ComboParts, Sent
<1>1. CASE CE!Refetched
  <2>1. /\ srv' = srv /\ DOMAIN ui' = DOMAIN ui /\ ui'.mode = ui.mode /\ ui'.checking = ui.checking
        /\ ui'.restoring = ui.restoring /\ ui'.follow = ui.follow /\ ui'.stayed = ui.stayed
        /\ ui'.request = ui.request /\ ui'.mounted = ui.mounted /\ ui'.dialog = ui.dialog
        /\ ui'.initial # None /\ The(ui'.initial) = srv.row
    BY <1>1 DEF CE!Refetched, CE!Sets, CE!Some, None, The, ComboShape
  <2>2. ComboShape' /\ KeyOfVersion'
    BY <2>1 DEF ComboShape, KeyOfVersion
  <2>3. OneWayToCombo'
    BY <2>1 DEF OneWayToCombo
  <2>4. ModeOfDialog'
    BY <2>1 DEF ModeOfDialog
  <2>5. QED
    BY <2>2, <2>3, <2>4
<1>2. CASE CE!HandleConflictReload
  <2>1. srv' = srv /\ srv.row.live /\ ui.mode = "edit" /\ srv.made = 0
    BY <1>2 DEF CE!HandleConflictReload, CE!Asked, CE!Mounted, CE!Sets, ComboShape, ModeOfDialog,
                OneWayToCombo
  <2>2. /\ DOMAIN ui' = DOMAIN ui /\ ui'.mode = "edit" /\ ui'.checking = None
        /\ ui'.restoring = FALSE /\ ui'.follow = FALSE /\ ui'.stayed = FALSE /\ ui'.request = None
        /\ ui'.mounted /\ ui'.dialog = "none" /\ ui'.initial # None /\ The(ui'.initial) = srv.row
    BY <1>2 DEF CE!HandleConflictReload, CE!Sets, CE!Opened, CE!Some, CE!None, None, The, ComboShape
  <2>3. ComboShape' /\ KeyOfVersion'
    BY <2>1, <2>2 DEF ComboShape, KeyOfVersion
  <2>4. OneWayToCombo'
    BY <2>1, <2>2 DEF OneWayToCombo
  <2>5. ModeOfDialog'
    BY <2>1, <2>2 DEF ModeOfDialog
  <2>6. QED
    BY <2>3, <2>4, <2>5
<1>3. QED
  BY <1>1, <1>2

\* The combo in the trash is restored, or not, or a new one is created beside it.
LEMMA ComboOfTrash ==
  ASSUME ComboParts,
         CE!HandleTrashRestore \/ CE!RestoreAnswered \/ CE!RestoreFailed \/ CE!HandleTrashCreateNew
  PROVE  ComboParts'
<1> USE DEF ComboParts, Sent
<1>1. CASE CE!HandleTrashRestore
  <2>1. /\ srv' = srv /\ ui.mounted /\ ui.dialog = "trash" /\ ui' = [ui EXCEPT !.restoring = TRUE]
        /\ ui.request = None /\ ui.checking = None /\ ui.mode # "edit" /\ (srv.made = 0 \/ ui.stayed)
    BY <1>1 DEF CE!HandleTrashRestore, CE!TrashButtons, CE!Asked, CE!Mounted, CE!Sets, OneWayToCombo,
                ModeOfDialog
  <2>2. ComboShape' /\ KeyOfVersion'
    BY <2>1 DEF ComboShape, KeyOfVersion
  <2>3. OneWayToCombo'
    BY <2>1 DEF OneWayToCombo, ComboShape
  <2>4. ModeOfDialog'
    BY <2>1 DEF ModeOfDialog, ComboShape
  <2>5. QED
    BY <2>2, <2>3, <2>4
<1>2. CASE CE!RestoreAnswered
  <2>1. /\ ui.request = None /\ ui.checking = None /\ ui.mode # "edit" /\ (srv.made = 0 \/ ui.stayed)
    BY <1>2 DEF CE!RestoreAnswered, OneWayToCombo, ModeOfDialog
  <2>2. /\ DOMAIN srv' = DOMAIN srv /\ srv'.row = srv.row /\ (srv'.made = 1 \/ ui.stayed)
    BY <1>2, <2>1 DEF CE!RestoreAnswered, CE!Counted, ComboShape
  <2>3. /\ DOMAIN ui' = DOMAIN ui /\ ui'.mode = ui.mode /\ ui'.checking = None
        /\ ui'.restoring = FALSE /\ ui'.follow = ui.follow /\ ui'.stayed = ui.stayed
        /\ ui'.request = None /\ ui'.mounted = FALSE /\ ui'.dialog = "none" /\ ui'.initial = ui.initial
    BY <1>2, <2>1 DEF CE!RestoreAnswered, CE!Leaves, ComboShape
  <2>4. ComboShape' /\ KeyOfVersion'
    BY <2>2, <2>3 DEF ComboShape, KeyOfVersion
  <2>5. OneWayToCombo'
    BY <2>2, <2>3 DEF OneWayToCombo
  <2>6. ModeOfDialog'
    BY <2>1, <2>2, <2>3 DEF ModeOfDialog
  <2>7. QED
    BY <2>4, <2>5, <2>6
<1>3. CASE CE!RestoreFailed
  <2>1. srv' = srv /\ ui.restoring /\ ui' = [ui EXCEPT !.restoring = FALSE]
    BY <1>3 DEF CE!RestoreFailed, CE!Sets
  <2>2. ComboShape' /\ KeyOfVersion'
    BY <2>1 DEF ComboShape, KeyOfVersion
  <2>3. OneWayToCombo'
    BY <2>1 DEF OneWayToCombo, ComboShape
  <2>4. ModeOfDialog'
    BY <2>1 DEF ModeOfDialog, ComboShape
  <2>5. QED
    BY <2>2, <2>3, <2>4
<1>4. CASE CE!HandleTrashCreateNew
  <2> DEFINE q == CE!Request("create", ui.form, 0, "none")
  <2>1. /\ srv' = srv /\ ui.mounted /\ ui.dialog = "trash" /\ ~ui.restoring
        /\ ui' = [[ui EXCEPT !.dialog = "none"] EXCEPT !.inFlight = TRUE, !.request = q]
    BY <1>4 DEF CE!HandleTrashCreateNew, CE!TrashButtons, CE!Asked, CE!Mounted, CE!Sets, CE!RunCreate
  <2>2. ui.request = None /\ ui.checking = None /\ ui.mode # "edit" /\ (srv.made = 0 \/ ui.stayed)
    BY <2>1 DEF OneWayToCombo, ModeOfDialog
  <2>3. q # None /\ The(q).kind = "create"
    BY DEF CE!Request, CE!Some, None, The
  <2> HIDE DEF q
  <2>4. QED
    BY <2>1, <2>2, <2>3, ComboSent DEF ComboShape
<1>5. QED
  BY <1>1, <1>2, <1>3, <1>4

\* The buttons that leave the form: cancel, the list, the warnings read, a row that is gone.
LEMMA ComboIsLeft ==
  ASSUME ComboParts,
         CE!RefetchFailed \/ CE!ContinueAfterWarning \/ CE!HandleConflictGoToList \/ CE!HandleCancel
  PROVE  ComboParts'
<1>1. srv' = srv /\ ui' = [ui EXCEPT !.mounted = FALSE, !.dialog = "none"]
  BY DEF CE!RefetchFailed, CE!ContinueAfterWarning, CE!HandleConflictGoToList, CE!HandleCancel, CE!Leaves,
         CE!Sets
<1>2. QED
  BY <1>1, ComboLeft

\* The row that was deleted meanwhile is saved as a new combo.
LEMMA ComboSavedAsNew == ASSUME ComboParts, CE!HandleConflictSaveAsNew PROVE ComboParts'
<1> USE DEF ComboParts, Sent
<1> DEFINE q == CE!Request("create", ui.form, 0, "none")
<1>1. /\ srv' = srv /\ ui.mounted /\ ui.dialog = "not_found"
      /\ ui' = [[ui EXCEPT !.dialog = "none"] EXCEPT !.inFlight = TRUE, !.request = q]
  BY DEF CE!HandleConflictSaveAsNew, CE!Asked, CE!Mounted, CE!Sets, CE!RunCreate
<1>2. ui.request = None /\ ui.checking = None /\ ~ui.restoring /\ (srv.made = 0 \/ ui.stayed)
  BY <1>1 DEF OneWayToCombo
<1>3. q # None /\ The(q).kind = "create"
  BY DEF CE!Request, CE!Some, None, The
<1> HIDE DEF q
<1>4. QED
  BY <1>1, <1>2, <1>3, ComboSent DEF ComboShape

\* A dialog is closed or opened that no request belongs to.
LEMMA ComboDialogs ==
  ASSUME ComboParts, CE!Dismiss \/ CE!HandleCharacterChange \/ CE!ConfirmCharacterChange
  PROVE  ComboParts'
<1> USE DEF ComboParts, Sent
<1>1. /\ srv' = srv /\ DOMAIN ui' = DOMAIN ui /\ ui'.mode = ui.mode /\ ui'.checking = ui.checking
      /\ ui'.restoring = ui.restoring /\ ui'.request = ui.request /\ ui.mounted
      /\ ui'.mounted = ui.mounted /\ ui'.initial = ui.initial
      /\ \/ ui'.follow = ui.follow
         \/ ui'.follow = FALSE
      /\ \/ /\ ui'.dialog = "none" /\ ~ui.restoring
            /\ ui.stayed \/ ui.dialog = "saved_with_warnings" => ui'.stayed
         \/ ui.dialog = "none" /\ ui'.dialog = "character" /\ (ui.stayed => ui'.stayed)
  <2>1. CASE CE!Dismiss
    BY <2>1 DEF CE!Dismiss, CE!Mounted, CE!Sets, ComboShape
  <2>2. CASE CE!HandleCharacterChange
    BY <2>2 DEF CE!HandleCharacterChange, CE!Usable, CE!Mounted, CE!Sets, ComboShape
  <2>3. CASE CE!ConfirmCharacterChange
    BY <2>3 DEF CE!ConfirmCharacterChange, CE!Asked, CE!Mounted, CE!Sets, ComboShape, OneWayToCombo
  <2>4. QED
    BY <2>1, <2>2, <2>3
<1>2. ComboShape' /\ KeyOfVersion'
  BY <1>1 DEF ComboShape, KeyOfVersion
<1>3. OneWayToCombo'
  BY <1>1 DEF OneWayToCombo
<1>4. ModeOfDialog'
  BY <1>1 DEF ModeOfDialog
<1>5. QED
  BY <1>2, <1>3, <1>4

LEMMA ComboEditorStep == ASSUME ComboParts, CE!Next PROVE ComboParts'
<1>1. CASE CE!OnSave
  BY <1>1, ComboSaves
<1>2. CASE \E choice \in {"carry_all", "unlink_all"} : CE!HandleKnockdownConfirm(choice)
  BY <1>2, ComboAsksKnockdown
<1>3. CASE CE!ConfirmPut
  BY <1>3, ComboPuts
<1>4. CASE CE!FollowUpFailed \/ \E warned \in BOOLEAN : CE!FollowUpAnswered(warned)
  BY <1>4, ComboFollowed
<1>5. CASE \E warned \in BOOLEAN : CE!CreateAnswered(warned)
  BY <1>5, ComboCreated
<1>6. CASE \E warned \in BOOLEAN : CE!UpdateAnswered(warned)
  BY <1>6, ComboUpdated
<1>7. CASE \E why \in {"rejected", "failed"} : CE!CreateRefused(why)
  BY <1>7, ComboRefused
<1>8. CASE \E ok \in BOOLEAN : CE!CheckAnswered(ok)
  BY <1>8, ComboChecked
<1>9. CASE CE!PromoteAnswered
  BY <1>9, ComboPromoted
<1>10. CASE CE!Refetched \/ CE!HandleConflictReload
  BY <1>10, ComboRefreshed
<1>11. CASE CE!HandleTrashRestore \/ CE!RestoreAnswered \/ CE!RestoreFailed \/ CE!HandleTrashCreateNew
  BY <1>11, ComboOfTrash
<1>12. CASE CE!RefetchFailed \/ CE!ContinueAfterWarning \/ CE!HandleConflictGoToList \/ CE!HandleCancel
  BY <1>12, ComboIsLeft
<1>13. CASE CE!HandleConflictSaveAsNew
  BY <1>13, ComboSavedAsNew
<1>14. CASE CE!Dismiss \/ CE!HandleCharacterChange \/ CE!ConfirmCharacterChange
  BY <1>14, ComboDialogs
<1>15. CASE \/ CE!OtherDeletes
            \/ \E key \in ComboKeys \ {"no_steps"}, meta \in {"m0", "m1"} : CE!OtherSaves(key, meta)
  BY <1>15, ComboOfOthers
<1>16. CASE \/ CE!ToggleDraft \/ CE!Promote
            \/ \E key \in ComboKeys : CE!SetKey(key)
            \/ \E ka \in CE!KAs : CE!SetKA(ka)
            \/ \E meta \in CE!Metas : CE!SetMeta(meta)
  <2>1. ComboShape
    BY DEF ComboParts
  <2>2. QED
    BY <1>16, <2>1, ComboFieldsOnly, ComboQuietKeeps
<1>17. QED
  BY <1>1, <1>2, <1>3, <1>4, <1>5, <1>6, <1>7, <1>8, <1>9, <1>10, <1>11, <1>12, <1>13, <1>14, <1>15, <1>16
     DEF CE!Next

LEMMA ComboEditorInit == CE!Init => ComboParts
<1> SUFFICES ASSUME CE!Init PROVE ComboParts
  OBVIOUS
<1>1. PICK draft \in BOOLEAN, setups \in BOOLEAN, follow \in BOOLEAN, mode \in {"new", "copy", "edit"} :
        /\ follow => mode # "edit"
        /\ mode = "new" => ~draft /\ ~setups
        /\ srv = [row |-> CE!Row(draft, setups), made |-> 0, others |-> 0]
        /\ ui = [page |-> "combo_editor", mode |-> mode, mounted |-> TRUE, dialog |-> "none",
                 form |-> IF mode = "new" THEN CE!Blank ELSE CE!Shown(srv.row),
                 initial |-> IF mode = "edit" THEN CE!Some(srv.row) ELSE CE!None,
                 seen |-> IF mode = "edit" THEN CE!Some(srv.row) ELSE CE!None,
                 carry |-> "none", issues |-> FALSE, inFlight |-> FALSE, request |-> CE!None,
                 checking |-> CE!None, promoting |-> CE!None, restoring |-> FALSE, follow |-> follow,
                 stayed |-> FALSE, acts |-> 0]
  BY DEF CE!Init
<1>2. /\ ComboShape /\ srv.row.version = 1 /\ srv.made = 0
      /\ ui.mode = mode /\ ui.mounted = TRUE /\ ui.dialog = "none" /\ ui.request = None
      /\ ui.checking = None /\ ui.restoring = FALSE /\ ui.follow = follow
      /\ ui.initial = IF mode = "edit" THEN <<srv.row>> ELSE << >>
  BY <1>1 DEF ComboShape, CE!Row, CE!None, CE!Some, None
<1>3. KeyOfVersion
  BY <1>2 DEF KeyOfVersion, Sent, None, The
<1>4. OneWayToCombo /\ ModeOfDialog
  BY <1>1, <1>2 DEF OneWayToCombo, ModeOfDialog, Sent
<1>5. QED
  BY <1>2, <1>3, <1>4 DEF ComboParts

LEMMA ComboInductive == ComboInv /\ [NextForms]_vars => ComboInv'
<1> SUFFICES ASSUME ComboInv, [NextForms]_vars PROVE ComboInv'
  OBVIOUS
<1>1. CASE ui.page = "combo_editor" /\ CE!Next
  BY <1>1, ComboEditorStep DEF ComboInv
<1>2. CASE ui.page # "combo_editor" /\ ui'.page = ui.page
  BY <1>2 DEF ComboInv
<1>3. CASE UNCHANGED vars
  BY <1>3, ComboQuietKeeps DEF ComboInv, ComboQuiet, vars
<1>4. QED
  BY <1>1, <1>2, <1>3 DEF NextForms, Stays

\* One opening of the form makes at most one combo, unless the user stayed on the form after it had
\* made one: duplicate check, creation, restoring from the trash and "create new" exclude each other
\* (ComboEditor.tsx, onSave to handleTrashCreateNew).
THEOREM OneComboPerForm == SpecForms => []CreatedOnce
<1>1. InitForms => ComboInv
  BY ComboEditorInit DEF InitForms, ComboInv, NG!On, CE!On, BF!On, RE!On, SE!On, SI!On
<1>2. ComboInv => CreatedOnce
  BY DEF ComboInv, ComboParts, OneWayToCombo, CreatedOnce, CE!CreatedOnce, CE!On
<1>3. QED
  BY <1>1, <1>2, ComboInductive, PTL DEF SpecForms

\* The row is written by three answers and by the other tab, and only one of them ends a request
\* that was a PATCH or a PUT.
LEMMA ComboRowWrites ==
  ASSUME ComboParts, CE!Next, ui.request # None, The(ui.request).kind \in {"patch", "put"},
         ui'.request = None, srv'.row # srv.row
  PROVE  \E warned : CE!UpdateAnswered(warned)
<1>1. srv' # srv /\ ui' # ui
  OBVIOUS
<1>2. ~ui.restoring /\ ui.mode = "edit" /\ ComboShape
  BY DEF ComboParts, OneWayToCombo, ModeOfDialog, Sent
<1>3. CASE CE!PromoteAnswered
  <2>1. ui'.request = ui.request
    BY <1>2, <1>3 DEF CE!PromoteAnswered, CE!Leaves, ComboShape
  <2>2. QED
    BY <2>1
<1>4. ASSUME NEW warned, CE!CreateAnswered(warned) PROVE FALSE
  BY <1>4 DEF CE!CreateAnswered, CE!Awaits, CE!The, The
<1>5. CASE CE!RestoreAnswered
  BY <1>2, <1>5 DEF CE!RestoreAnswered
<1>6. ASSUME NEW u, CE!Sets(u) PROVE FALSE
  BY <1>1, <1>6 DEF CE!Sets
<1>7. ASSUME NEW s, CE!Serves(s) PROVE FALSE
  BY <1>1, <1>7 DEF CE!Serves
<1>8. CASE \/ CE!ConfirmPut \/ CE!Promote \/ CE!FollowUpFailed \/ CE!Refetched \/ CE!RefetchFailed
           \/ CE!HandleTrashRestore \/ CE!RestoreFailed \/ CE!HandleTrashCreateNew \/ CE!Dismiss
           \/ CE!ContinueAfterWarning \/ CE!HandleConflictReload \/ CE!HandleConflictSaveAsNew
           \/ CE!HandleConflictGoToList \/ CE!HandleCharacterChange \/ CE!ConfirmCharacterChange
           \/ CE!HandleCancel \/ CE!OtherDeletes
  BY <1>6, <1>7, <1>8
     DEF CE!ConfirmPut, CE!Promote, CE!FollowUpFailed, CE!Refetched, CE!RefetchFailed,
         CE!HandleTrashRestore, CE!RestoreFailed, CE!HandleTrashCreateNew, CE!Dismiss,
         CE!ContinueAfterWarning, CE!HandleConflictReload, CE!HandleConflictSaveAsNew,
         CE!HandleConflictGoToList, CE!HandleCharacterChange, CE!ConfirmCharacterChange,
         CE!HandleCancel, CE!OtherDeletes
<1>9. CASE \/ CE!OnSave \/ CE!ToggleDraft
           \/ \E choice \in {"carry_all", "unlink_all"} : CE!HandleKnockdownConfirm(choice)
           \/ \E warned \in BOOLEAN : CE!FollowUpAnswered(warned)
           \/ \E ok \in BOOLEAN : CE!CheckAnswered(ok)
           \/ \E why \in {"rejected", "failed"} : CE!CreateRefused(why)
           \/ \E key \in ComboKeys : CE!SetKey(key)
           \/ \E ka \in CE!KAs : CE!SetKA(ka)
           \/ \E meta \in CE!Metas : CE!SetMeta(meta)
           \/ \E key \in ComboKeys \ {"no_steps"}, meta \in {"m0", "m1"} : CE!OtherSaves(key, meta)
  BY <1>6, <1>7, <1>9
     DEF CE!OnSave, CE!ToggleDraft, CE!HandleKnockdownConfirm, CE!FollowUpAnswered, CE!CheckAnswered,
         CE!CreateRefused, CE!SetKey, CE!SetKA, CE!SetMeta, CE!Edits, CE!OtherSaves
<1>10. QED
  BY <1>3, <1>4, <1>5, <1>8, <1>9 DEF CE!Next

\* An update that is accepted leaves the row with the key of the form that was sent: a PATCH, which
\* writes no key, is sent only while the key is the row's, and refused when the row has moved on.
THEOREM KeyIsWritten == SpecForms => KeyReachesRow
<1>1. InitForms => ComboInv
  BY ComboEditorInit DEF InitForms, ComboInv, NG!On, CE!On, BF!On, RE!On, SE!On, SI!On
<1>2. ASSUME ComboInv, [NextForms]_vars
      PROVE  [CE!Awaits({"patch", "put"}) /\ srv'.row # srv.row /\ ui'.request = CE!None
               => srv'.row.key = CE!The(ui.request).form.key]_CE!vars
  <2> SUFFICES ASSUME ui.page = "combo_editor", ComboParts, CE!Next,
                      ui.request # None, The(ui.request).kind \in {"patch", "put"},
                      ui'.request = None, srv'.row # srv.row
               PROVE  srv'.row.key = The(ui.request).form.key
    BY <1>2 DEF ComboInv, CE!Awaits, CE!On, CE!None, None, CE!The, The, vars, CE!vars, NextForms
  <2> DEFINE q == The(ui.request)
  <2>1. PICK warned : CE!UpdateAnswered(warned)
    BY ComboRowWrites
  <2>2. srv' = CE!Written(q) /\ q.version = srv.row.version
    BY <2>1 DEF CE!UpdateAnswered, CE!Refusal, CE!The, The
  <2>3. srv'.row.key = IF q.kind = "put" THEN q.form.key ELSE srv.row.key
    <3> DEFINE key == IF q.kind = "put" THEN q.form.key ELSE srv.row.key
               setups == srv.row.setups /\ q.carry # "unlink_all"
               row    == [srv.row EXCEPT !.key = key, !.ka = q.form.ka, !.meta = q.form.meta,
                                         !.draft = q.form.draft, !.version = @ + 1, !.setups = setups]
    <3>1. srv' = [srv EXCEPT !.row = row]
      BY <2>2 DEF CE!Written
    <3>2. row.key = key
      <4> HIDE DEF setups, key
      <4>1. QED
        BY DEF ComboParts, ComboShape
    <3> HIDE DEF row
    <3>3. QED
      BY <3>1, <3>2 DEF ComboParts, ComboShape
  <2>4. q.kind = "patch" => srv.row.key = q.form.key
    BY <2>2 DEF ComboParts, KeyOfVersion, Sent
  <2>5. QED
    BY <2>3, <2>4
<1>3. QED
  BY <1>1, <1>2, ComboInductive, PTL DEF SpecForms, KeyReachesRow, CE!KeyReachesRow

-----------------------------------------------------------------------------
(* The setup editor.                                                       *)
SetupShape ==
  /\ DOMAIN ui = {"page", "mode", "mounted", "dialog", "name", "steps", "baseline", "row", "open",
                  "omit", "filter", "selected", "editing", "noted", "duplicate", "request",
                  "checking", "restoring", "broken", "acts"}
  /\ DOMAIN srv = {"row", "made", "others"}
  /\ DOMAIN srv.row = {"fields", "version"}

\* At most one of the ways to a setup is being gone.
OneWayToSetup ==
  /\ ui.request = None \/ ui.checking = None
  /\ ui.dialog # "none" => ui.mounted
  /\ ui.dialog = "trash" => ui.request = None /\ ui.checking = None
  /\ ui.restoring => /\ ui.request = None /\ ui.checking = None
                     /\ ui.dialog = "trash" \/ ~ui.mounted
  /\ \/ srv.made = 0
     \/ srv.made = 1 /\ ~ui.mounted /\ ui.request = None /\ ui.checking = None /\ ~ui.restoring

\* What the form was filled from is a version of the row, and the last one when it says so.
FilledFromRow ==
  /\ srv.row.version \in Nat \ {0}
  /\ The(ui.row).version \in Nat \ {0} /\ The(ui.row).version <= srv.row.version
  /\ ui.baseline = The(ui.row).fields
  /\ The(ui.row).version = srv.row.version => The(ui.row).fields = srv.row.fields
  /\ ui.request # None =>
       LET q == The(ui.request)
       IN  /\ q.version \in Nat /\ q.version <= srv.row.version
           /\ q.version = srv.row.version => q.seen = srv.row.fields

SetupInv == ui.page = "setup_editor" => SetupShape /\ OneWayToSetup /\ FilledFromRow

\* An action that concerns neither requests nor the row.
SetupQuiet ==
  /\ srv' = srv /\ DOMAIN ui' = DOMAIN ui
  /\ ui'.mounted = ui.mounted /\ ui'.dialog = ui.dialog /\ ui'.request = ui.request
  /\ ui'.checking = ui.checking /\ ui'.restoring = ui.restoring
  /\ ui'.row = ui.row /\ ui'.baseline = ui.baseline

LEMMA SetupFieldsOnly ==
  ASSUME SetupShape,
         \/ SE!TogglePulldown \/ SE!SetOmitSurfaced \/ SE!HandleAdd
         \/ \E f \in SE!Filters : SE!SetFilterCategory(f)
         \/ \E k \in SE!Kinds : SE!SelectMove(k)
         \/ \E m \in SetupMoves : SE!HandleVCStepAdd(m)
         \/ SE!HandleVCStepDelete \/ SE!HandleVCOpenLastStepModifiers
         \/ \E i \in 1 .. MaxSteps : SE!HandleMoveUp(i) \/ SE!HandleMoveDown(i) \/ SE!HandleDelete(i) \/ SE!OpenStep(i)
         \/ SE!ToggleFlag \/ SE!HandleModifiersSave \/ SE!CloseStep
         \/ \E n \in SE!Names : SE!HandleFormChange(n)
  PROVE  SetupQuiet
<1> USE DEF SetupShape, SetupQuiet, Sets
<1>1. CASE SE!TogglePulldown
  BY <1>1 DEF SE!TogglePulldown, SE!Acts, SE!Sets
<1>2. CASE SE!SetOmitSurfaced
  BY <1>2 DEF SE!SetOmitSurfaced, SE!Acts, SE!Sets, SE!ClearHiddenSelection
<1>3. CASE SE!HandleAdd
  BY <1>3 DEF SE!HandleAdd, SE!Changed, SE!Acts, SE!Sets
<1>4. ASSUME NEW f, SE!SetFilterCategory(f) PROVE SetupQuiet
  BY <1>4 DEF SE!SetFilterCategory, SE!Acts, SE!Sets
<1>5. ASSUME NEW k, SE!SelectMove(k) PROVE SetupQuiet
  BY <1>5 DEF SE!SelectMove, SE!Acts, SE!Sets
<1>6. ASSUME NEW m, SE!HandleVCStepAdd(m) PROVE SetupQuiet
  BY <1>6 DEF SE!HandleVCStepAdd, SE!Changed, SE!Acts, SE!Sets
<1>7. CASE SE!HandleVCStepDelete
  BY <1>7 DEF SE!HandleVCStepDelete, SE!Changed, SE!Acts, SE!Sets
<1>8. ASSUME NEW i, SE!OpenStep(i) PROVE SetupQuiet
  BY <1>8 DEF SE!OpenStep, SE!Acts, SE!Sets
<1>9. CASE SE!HandleVCOpenLastStepModifiers
  BY <1>9, <1>8 DEF SE!HandleVCOpenLastStepModifiers
<1>10. ASSUME NEW i, SE!HandleMoveUp(i) \/ SE!HandleMoveDown(i) \/ SE!HandleDelete(i) PROVE SetupQuiet
  BY <1>10 DEF SE!HandleMoveUp, SE!HandleMoveDown, SE!HandleDelete, SE!Changed, SE!Acts, SE!Sets
<1>11. CASE SE!ToggleFlag
  BY <1>11 DEF SE!ToggleFlag, SE!Acts, SE!Sets
<1>12. CASE SE!HandleModifiersSave \/ SE!CloseStep
  BY <1>12 DEF SE!HandleModifiersSave, SE!CloseStep, SE!Sets
<1>13. ASSUME NEW n, SE!HandleFormChange(n) PROVE SetupQuiet
  BY <1>13 DEF SE!HandleFormChange, SE!Acts, SE!Sets
<1>14. QED
  BY <1>1, <1>2, <1>3, <1>4, <1>5, <1>6, <1>7, <1>8, <1>9, <1>10, <1>11, <1>12, <1>13

LEMMA SetupQuietKeeps ==
  ASSUME SetupShape, OneWayToSetup, FilledFromRow, SetupQuiet
  PROVE  SetupShape' /\ OneWayToSetup' /\ FilledFromRow'
BY DEF SetupShape, OneWayToSetup, FilledFromRow, SetupQuiet, The, None

LEMMA SetupEditorStep ==
  ASSUME SetupShape, OneWayToSetup, FilledFromRow, SE!Next
  PROVE  SetupShape' /\ OneWayToSetup' /\ FilledFromRow'
<1> USE DEF SE!Sets, SE!Serves, SE!On, SE!Mounted, SE!Usable, SE!Some, SE!None, SE!The, Some, None, The
<1>1. CASE SE!HandleSave
  <2>1. SetupShape'
    BY <1>1 DEF SE!HandleSave, SE!Acts, SE!Request, SetupShape
  <2>2. OneWayToSetup'
    BY <1>1 DEF SE!HandleSave, SE!Acts, SE!Request, SE!CanSave, SE!IsSaving, SetupShape, OneWayToSetup
  <2>3. FilledFromRow'
    BY <1>1 DEF SE!HandleSave, SE!Acts, SE!Request, SE!CanSave, SE!IsSaving, SetupShape, FilledFromRow
  <2>4. QED
    BY <2>1, <2>2, <2>3
<1>2. ASSUME NEW deleted, SE!CheckAnswered(deleted) PROVE SetupShape' /\ OneWayToSetup' /\ FilledFromRow'
  <2>1. SetupShape'
    BY <1>2 DEF SE!CheckAnswered, SE!RunCreate, SE!Request, SetupShape
  <2>2. OneWayToSetup'
    BY <1>2 DEF SE!CheckAnswered, SE!RunCreate, SE!Request, SetupShape, OneWayToSetup
  <2>3. FilledFromRow'
    BY <1>2 DEF SE!CheckAnswered, SE!RunCreate, SE!Request, SetupShape, FilledFromRow
  <2>4. QED
    BY <2>1, <2>2, <2>3
<1>3. CASE SE!SaveAnswered
  <2> DEFINE q == ui.request[1]
             u == [ui EXCEPT !.request = None]
  <2>0. /\ ui.request # None
        /\ IF q.version # 0 /\ q.version # srv.row.version
             THEN srv' = srv /\ ui' = IF ui.mounted THEN [u EXCEPT !.dialog = "version", !.editing = 0] ELSE u
             ELSE /\ ui' = SE!Leaves(u)
                  /\ srv' = IF q.version = 0 THEN [srv EXCEPT !.made = @ + 1]
                            ELSE [srv EXCEPT !.row = [fields |-> q.fields, version |-> @.version + 1]]
    BY <1>3 DEF SE!SaveAnswered, SetupShape
  <2>1. CASE q.version # 0 /\ q.version # srv.row.version
    <3>1. srv' = srv /\ ui' = IF ui.mounted THEN [u EXCEPT !.dialog = "version", !.editing = 0] ELSE u
      BY <2>0, <2>1
    <3>2. SetupShape' /\ FilledFromRow'
      BY <3>1 DEF SetupShape, FilledFromRow
    <3>3. OneWayToSetup'
      BY <3>1, <2>0 DEF SetupShape, OneWayToSetup
    <3>4. QED
      BY <3>2, <3>3
  <2>2. CASE q.version = 0
    <3>1. srv' = [srv EXCEPT !.made = @ + 1] /\ ui' = SE!Leaves(u)
      BY <2>0, <2>2
    <3>2. SetupShape' /\ OneWayToSetup'
      BY <3>1, <2>0 DEF SetupShape, OneWayToSetup, SE!Leaves
    <3>3. FilledFromRow'
      BY <3>1 DEF SetupShape, FilledFromRow, SE!Leaves
    <3>4. QED
      BY <3>2, <3>3
  <2>3. CASE q.version # 0 /\ q.version = srv.row.version
    <3>1. /\ srv' = [srv EXCEPT !.row = [fields |-> q.fields, version |-> @.version + 1]]
          /\ ui' = SE!Leaves(u)
      BY <2>0, <2>3
    <3>2. SetupShape'
      BY <3>1 DEF SetupShape, SE!Leaves
    <3>3. OneWayToSetup'
      BY <3>1, <2>0 DEF SetupShape, OneWayToSetup, SE!Leaves
    <3>4. FilledFromRow'
      BY <3>1 DEF SetupShape, FilledFromRow, SE!Leaves
    <3>5. QED
      BY <3>2, <3>3, <3>4
  <2>4. QED
    BY <2>1, <2>2, <2>3
<1>4. ASSUME NEW duplicate, SE!SaveRefused(duplicate) PROVE SetupShape' /\ OneWayToSetup' /\ FilledFromRow'
  BY <1>4 DEF SE!SaveRefused, SetupShape, OneWayToSetup, FilledFromRow
<1>5. CASE SE!HandleTrashRestore \/ SE!HandleTrashCancel
  BY <1>5 DEF SE!HandleTrashRestore, SE!HandleTrashCancel, SE!TrashButtons, SetupShape, OneWayToSetup, FilledFromRow
<1>6. ASSUME NEW ok, SE!RestoreAnswered(ok) PROVE SetupShape' /\ OneWayToSetup' /\ FilledFromRow'
  <2>1. SetupShape'
    BY <1>6 DEF SE!RestoreAnswered, SE!Leaves, SetupShape
  <2>2. OneWayToSetup'
    <3>1. srv.made = 0 /\ ui.request = None /\ ui.checking = None
      BY <1>6 DEF SE!RestoreAnswered, OneWayToSetup
    <3>2. CASE ok
      <4>1. /\ ui' = [ui EXCEPT !.restoring = FALSE, !.mounted = FALSE, !.dialog = "none", !.editing = 0]
            /\ srv' = [srv EXCEPT !.made = @ + 1]
        BY <1>6, <3>2 DEF SE!RestoreAnswered, SE!Leaves
      <4>2. QED
        BY <4>1, <3>1 DEF SetupShape, OneWayToSetup
    <3>3. CASE ~ok
      <4>1. ui' = [ui EXCEPT !.restoring = FALSE] /\ srv' = srv
        BY <1>6, <3>3 DEF SE!RestoreAnswered
      <4>2. QED
        BY <4>1, <3>1 DEF SetupShape, OneWayToSetup
    <3>4. QED
      BY <3>2, <3>3
  <2>3. FilledFromRow'
    BY <1>6 DEF SE!RestoreAnswered, SE!Leaves, SetupShape, FilledFromRow
  <2>4. QED
    BY <2>1, <2>2, <2>3
<1>7. CASE SE!HandleTrashCreateNew
  BY <1>7 DEF SE!HandleTrashCreateNew, SE!TrashButtons, SE!RunCreate, SE!Request, SetupShape, OneWayToSetup, FilledFromRow
<1>8. CASE SE!CloseConflict \/ SE!HandleCancel
  <2>1. /\ srv' = srv
        /\ \/ ui' = SE!Leaves(ui)
           \/ ui' = [ui EXCEPT !.dialog = "none"] /\ ui.mounted /\ ui.dialog = "version"
    BY <1>8 DEF SE!CloseConflict, SE!HandleCancel
  <2>2. /\ DOMAIN ui' = DOMAIN ui /\ ui'.row = ui.row /\ ui'.baseline = ui.baseline
        /\ ui'.request = ui.request /\ ui'.checking = ui.checking /\ ui'.restoring = ui.restoring
        /\ ui'.dialog = "none" /\ (ui'.mounted => ui.mounted /\ ui.dialog = "version")
    BY <2>1 DEF SE!Leaves, SetupShape
  <2>3. SetupShape'
    BY <2>1, <2>2 DEF SetupShape
  <2>4. OneWayToSetup'
    BY <2>1, <2>2 DEF OneWayToSetup
  <2>5. FilledFromRow'
    BY <2>1, <2>2 DEF FilledFromRow
  <2>6. QED
    BY <2>3, <2>4, <2>5
<1>9. CASE SE!HandleConflictReload
  BY <1>9 DEF SE!HandleConflictReload, SE!Hydrate, SetupShape, OneWayToSetup, FilledFromRow
<1>10. ASSUME NEW fields, SE!OtherSaves(fields) PROVE SetupShape' /\ OneWayToSetup' /\ FilledFromRow'
  BY <1>10 DEF SE!OtherSaves, SetupShape, OneWayToSetup, FilledFromRow
<1>11. CASE SE!Refetched
  <2>1. SetupShape'
    BY <1>11 DEF SE!Refetched, SE!Hydrate, SE!Leaves, SetupShape
  <2>2. OneWayToSetup'
    BY <1>11 DEF SE!Refetched, SE!Hydrate, SE!Leaves, SetupShape, OneWayToSetup
  <2>3. FilledFromRow'
    BY <1>11 DEF SE!Refetched, SE!Hydrate, SE!Leaves, SetupShape, FilledFromRow
  <2>4. QED
    BY <2>1, <2>2, <2>3
<1>12. QED
  BY <1>1, <1>2, <1>3, <1>4, <1>5, <1>6, <1>7, <1>8, <1>9, <1>10, <1>11, SetupFieldsOnly, SetupQuietKeeps
     DEF SE!Next

\* The row is written by an accepted save and by the other tab.
LEMMA SetupRowWrites ==
  ASSUME SetupShape, SE!Next, srv'.row # srv.row
  PROVE  SE!SaveAnswered \/ UNCHANGED ui
<1> USE DEF SE!Sets, SE!Serves
<1>1. SetupQuiet => srv' = srv
  BY DEF SetupQuiet
<1>2. SE!HandleSave => srv' = srv
  BY DEF SE!HandleSave, SE!Acts
<1>3. \A b : SE!CheckAnswered(b) \/ SE!SaveRefused(b) => srv' = srv
  BY DEF SE!CheckAnswered, SE!SaveRefused
<1>4. SE!HandleTrashRestore \/ SE!HandleTrashCreateNew \/ SE!HandleTrashCancel => srv' = srv
  BY DEF SE!HandleTrashRestore, SE!HandleTrashCreateNew, SE!HandleTrashCancel
<1>5. SE!CloseConflict \/ SE!HandleCancel \/ SE!HandleConflictReload \/ SE!Refetched => srv' = srv
  BY DEF SE!CloseConflict, SE!HandleCancel, SE!HandleConflictReload, SE!Refetched
<1>6. ASSUME NEW ok, SE!RestoreAnswered(ok) PROVE srv'.row = srv.row
  BY <1>6 DEF SE!RestoreAnswered, SetupShape
<1>7. \A fields : SE!OtherSaves(fields) => UNCHANGED ui
  BY DEF SE!OtherSaves
<1>8. QED
  BY <1>1, <1>2, <1>3, <1>4, <1>5, <1>6, <1>7, SetupFieldsOnly DEF SE!Next

LEMMA SetupEditorInit == SE!Init => SetupInv
<1> SUFFICES ASSUME SE!Init PROVE SetupInv
  OBVIOUS
<1>1. PICK mode, fields :
        /\ ui = SE!Opened(mode, [fields |-> fields, version |-> 1])
        /\ srv = [row |-> [fields |-> fields, version |-> 1], made |-> 0, others |-> 0]
  BY DEF SE!Init
<1>2. SetupShape
  BY <1>1 DEF SetupShape, SE!Opened
<1>3. OneWayToSetup
  BY <1>1 DEF OneWayToSetup, SE!Opened, SE!None, None
<1>4. FilledFromRow
  <2>1. /\ ui.row = <<srv.row>> /\ ui.baseline = srv.row.fields /\ ui.request = << >>
        /\ srv.row.version = 1
    BY <1>1 DEF SE!Opened, SE!None, SE!Some
  <2>2. QED
    BY <2>1 DEF FilledFromRow, None, The
<1>5. QED
  BY <1>2, <1>3, <1>4 DEF SetupInv

LEMMA SetupInductive == SetupInv /\ [NextForms]_vars => SetupInv'
<1> SUFFICES ASSUME SetupInv, [NextForms]_vars PROVE SetupInv'
  OBVIOUS
<1>1. CASE ui.page = "setup_editor" /\ SE!Next
  BY <1>1, SetupEditorStep DEF SetupInv
<1>2. CASE ui.page # "setup_editor" /\ ui'.page = ui.page
  BY <1>2 DEF SetupInv
<1>3. CASE UNCHANGED vars
  BY <1>3 DEF SetupInv, SetupShape, OneWayToSetup, FilledFromRow, vars, None, The
<1>4. QED
  BY <1>1, <1>2, <1>3 DEF NextForms, Stays

\* One form makes at most one setup: saving, being answered late, restoring a setup from the trash
\* and creating a new one in its place exclude each other (SetupEditor.tsx, handleSave to
\* handleTrashCreateNew).
THEOREM OneSetupPerForm == SpecForms => []SetupMadeOnce
<1>1. InitForms => SetupInv
  BY SetupEditorInit DEF InitForms, SetupInv, NG!On, CE!On, BF!On, RE!On, SE!On, SI!On
<1>2. SetupInv => SetupMadeOnce
  BY DEF SetupInv, OneWayToSetup, SetupMadeOnce, SE!SetupMadeOnce, SE!On
<1>3. QED
  BY <1>1, <1>2, SetupInductive, PTL DEF SpecForms

\* A save that is accepted replaces the fields the form was filled from, never those another tab has
\* saved since: the form sends the version of what it showed, also after a refetch under its hands.
THEOREM OnlySeenReplaced == SpecForms => ReplacesOnlySeen
<1>1. InitForms => SetupInv
  BY SetupEditorInit DEF InitForms, SetupInv, NG!On, CE!On, BF!On, RE!On, SE!On, SI!On
<1>2. ASSUME SetupInv, [NextForms]_vars
      PROVE  [SE!On /\ ui.request # SE!None /\ ui'.request = SE!None /\ srv'.row # srv.row
               => SE!The(ui.request).seen = srv.row.fields]_SE!vars
  <2> SUFFICES ASSUME ui.page = "setup_editor", SetupShape, FilledFromRow, SE!Next,
                      ui.request # None, ui'.request = None, srv'.row # srv.row
               PROVE  The(ui.request).seen = srv.row.fields
    BY <1>2 DEF SetupInv, SE!On, SE!None, None, SE!The, The, vars, SE!vars, NextForms
  <2>1. SE!SaveAnswered
    BY SetupRowWrites
  <2>2. The(ui.request).version = srv.row.version
    BY <2>1 DEF SE!SaveAnswered, SE!The, The, SetupShape
  <2>3. QED
    BY <2>2 DEF FilledFromRow
<1>3. QED
  BY <1>1, <1>2, SetupInductive, PTL DEF SpecForms, ReplacesOnlySeen, SE!ReplacesOnlySeen

-----------------------------------------------------------------------------
(* The results of a setup.                                                 *)
ItemShape ==
  /\ DOMAIN ui = {"page", "shown", "dialog", "editing", "cell", "results", "drafts", "writes", "fetch",
                  "pending", "forgot", "unlinkAlso", "sending", "what", "acts"}
  /\ DOMAIN srv = {"results", "others"} /\ srv.others \in Nat
  /\ DOMAIN ui.results = Cells /\ DOMAIN ui.drafts = Cells /\ DOMAIN srv.results = Cells

\* One write at a time, and the query is read again before the next one.
OneWrite ==
  /\ ui.writes = << >> \/ (ui.writes = <<ui.writes[1]>> /\ ui.pending)
  /\ ui.fetch => ui.pending /\ ui.writes = << >>
  /\ ~ui.fetch => ui.results = srv.results

\* Of a cell for which nothing was typed, the stored note is the shown one, now and when the write
\* under way has been answered.
UntypedNotes ==
  /\ \A c \in Cells : ui.drafts[c] = None => srv.results[c].note = ui.results[c].note
  /\ ui.writes # << >> =>
       LET w == ui.writes[1]
       IN  w.cell \in Cells /\ ui.drafts[w.cell] = None => w.note = ui.results[w.cell].note

ItemParts == ItemShape /\ (srv.others = 0 /\ ~ui.forgot => OneWrite /\ UntypedNotes)

ItemInv == ui.page = "setup_item" => ItemParts

LEMMA AppendedOne == ASSUME NEW w PROVE Append(<< >>, w) = <<w>>
OBVIOUS

LEMMA RemovedOne == ASSUME NEW w PROVE SI!RemoveAt(<<w>>, 1) = << >>
BY DEF SI!RemoveAt

\* What an action leaves alone that has to do with the results.
ItemQuiet ==
  /\ srv' = srv /\ DOMAIN ui' = DOMAIN ui
  /\ ui'.results = ui.results /\ ui'.drafts = ui.drafts /\ ui'.writes = ui.writes
  /\ ui'.fetch = ui.fetch /\ ui'.pending = ui.pending /\ ui'.forgot = ui.forgot

LEMMA ItemQuietKeeps == ASSUME ItemParts, ItemQuiet PROVE ItemParts'
<1>1. ItemShape'
  BY DEF ItemParts, ItemShape, ItemQuiet
<1>2. ASSUME srv.others = 0, ~ui.forgot PROVE OneWrite' /\ UntypedNotes'
  BY <1>2 DEF ItemParts, ItemQuiet, OneWrite, UntypedNotes
<1>3. QED
  BY <1>1, <1>2 DEF ItemParts, ItemQuiet

\* Dialogs, unlinking and deleting, and which cell is looked at.
ItemElsewhere ==
  \/ \E c \in Cells : SI!SelectCell(c)
  \/ SI!OpenUnlink \/ SI!OpenDelete \/ SI!ToggleUnlinkAlso \/ SI!HandleUnlinkConfirm
  \/ SI!HandleDeleteConfirm \/ SI!CancelDialog \/ \E ok \in BOOLEAN : SI!Answered(ok)

LEMMA ItemFieldsOnly == ASSUME ItemShape, ItemElsewhere PROVE ItemQuiet
<1> USE DEF ItemShape, ItemQuiet, SI!Does, SI!Sets
<1>1. ASSUME NEW c \in Cells, SI!SelectCell(c) PROVE ItemQuiet
  BY <1>1 DEF SI!SelectCell
<1>2. CASE SI!OpenUnlink \/ SI!OpenDelete
  BY <1>2 DEF SI!OpenUnlink, SI!OpenDelete
<1>3. CASE SI!ToggleUnlinkAlso
  BY <1>3 DEF SI!ToggleUnlinkAlso
<1>4. CASE SI!HandleUnlinkConfirm
  BY <1>4 DEF SI!HandleUnlinkConfirm
<1>5. CASE SI!HandleDeleteConfirm
  BY <1>5 DEF SI!HandleDeleteConfirm
<1>6. CASE SI!CancelDialog
  BY <1>6 DEF SI!CancelDialog
<1>7. ASSUME NEW ok \in BOOLEAN, SI!Answered(ok) PROVE ItemQuiet
  BY <1>7 DEF SI!Answered
<1>8. QED
  BY <1>1, <1>2, <1>3, <1>4, <1>5, <1>6, <1>7 DEF ItemElsewhere

\* What each cell says stays, whether it was typed or is stored.
NotesStay == \A c \in Cells : SI!NoteOf(c)' = SI!NoteOf(c)

LEMMA ItemToggled ==
  ASSUME ItemParts, SI!ToggleEditing PROVE ItemParts' /\ ~(ui.editing /\ ui'.editing)
<1>1. /\ srv' = srv /\ DOMAIN ui' = DOMAIN ui /\ ui'.results = ui.results /\ ui'.writes = ui.writes
      /\ ui'.fetch = ui.fetch /\ ui'.pending = FALSE /\ (ui'.forgot <=> ui.forgot \/ ui.pending)
      /\ ui'.drafts = [c \in Cells |-> SI!None] /\ (ui'.editing <=> ~ui.editing)
  BY DEF SI!ToggleEditing, SI!Does, SI!Sets, ItemParts, ItemShape
<1>2. ItemShape'
  BY <1>1 DEF ItemParts, ItemShape
<1>3. ASSUME srv.others = 0, ~ui.forgot, ~ui.pending PROVE OneWrite' /\ UntypedNotes'
  BY <1>1, <1>3 DEF ItemParts, OneWrite, UntypedNotes
<1>4. QED
  BY <1>1, <1>2, <1>3 DEF ItemParts

LEMMA ItemTyped == ASSUME ItemParts, NEW note, SI!TypeNote(note) PROVE ItemParts'
<1>1. /\ srv' = srv /\ DOMAIN ui' = DOMAIN ui /\ ui'.results = ui.results /\ ui'.writes = ui.writes
      /\ ui'.fetch = ui.fetch /\ ui'.pending = ui.pending /\ ui'.forgot = ui.forgot
      /\ ui'.drafts = [ui.drafts EXCEPT ![ui.cell] = SI!Some(note)]
  BY DEF SI!TypeNote, SI!Does, SI!Sets, ItemParts, ItemShape
<1>2. ItemShape'
  BY <1>1 DEF ItemParts, ItemShape
<1>3. \A c \in Cells : ui'.drafts[c] = None => ui.drafts[c] = None
  BY <1>1 DEF ItemParts, ItemShape, SI!Some, None
<1>4. ASSUME srv.others = 0, ~ui.forgot PROVE OneWrite' /\ UntypedNotes'
  BY <1>1, <1>3, <1>4 DEF ItemParts, OneWrite, UntypedNotes
<1>5. QED
  BY <1>1, <1>2, <1>4 DEF ItemParts

\* A state or a note is sent: what the note says stays, and what is sent of an untyped one is what
\* is stored.
NoteKept(c) ==
  /\ ui'.drafts[c] # << >>
  /\ ui'.drafts[c][1] = IF ui.drafts[c] # << >> THEN ui.drafts[c][1] ELSE ui.results[c].note

ItemSent ==
  /\ ~ui.pending /\ srv' = srv /\ DOMAIN ui' = DOMAIN ui /\ ui'.results = ui.results
  /\ ui'.fetch = ui.fetch /\ ui'.pending = TRUE /\ ui'.forgot = ui.forgot /\ DOMAIN ui'.drafts = Cells
  /\ \E w : /\ ui'.writes = Append(ui.writes, w)
            /\ \A c \in Cells :
                 \/ NoteKept(c)
                 \/ /\ ui'.drafts[c] = ui.drafts[c]
                    /\ c = w.cell /\ ui.drafts[c] = << >> => w.note = ui.results[c].note

LEMMA ItemSends == ASSUME ItemParts, ItemSent PROVE ItemParts' /\ NotesStay
<1>1. PICK w : /\ ui'.writes = Append(ui.writes, w)
               /\ \A c \in Cells :
                    \/ NoteKept(c)
                    \/ /\ ui'.drafts[c] = ui.drafts[c]
                       /\ c = w.cell /\ ui.drafts[c] = << >> => w.note = ui.results[c].note
  BY DEF ItemSent
<1> USE DEF ItemSent, NoteKept
<1>2. NotesStay
  BY <1>1 DEF NotesStay, SI!NoteOf, SI!The, SI!None
<1>3. ItemShape'
  BY DEF ItemParts, ItemShape
<1>4. ASSUME srv.others = 0, ~ui.forgot PROVE OneWrite' /\ UntypedNotes'
  <2>1. ui.writes = << >> /\ ui'.writes = <<w>> /\ ~ui.fetch /\ ui.results = srv.results
    <3>1. ui.writes = << >> /\ ~ui.fetch /\ ui.results = srv.results
      BY <1>4 DEF ItemParts, OneWrite
    <3>2. Append(<< >>, w) = <<w>>
      BY AppendedOne
    <3>3. QED
      BY <1>1, <3>1, <3>2
  <2>2. w.cell \in Cells /\ ui'.drafts[w.cell] = None => w.note = ui.results[w.cell].note
    BY <1>1 DEF None
  <2>3. ui'.writes[1] = w
    BY <2>1
  <2>4. \A c \in Cells : ui'.drafts[c] = None => ui.drafts[c] = None
    BY <1>1 DEF None
  <2>5. OneWrite'
    BY <2>1, <2>3 DEF OneWrite
  <2>6. UntypedNotes'
    BY <2>1, <2>2, <2>3, <2>4, <1>4 DEF UntypedNotes, ItemParts
  <2>7. QED
    BY <2>5, <2>6
<1>5. QED
  BY <1>2, <1>3, <1>4 DEF ItemParts

LEMMA ItemStateSet ==
  ASSUME ItemParts, NEW state, SI!SetState(state) PROVE ItemParts' /\ NotesStay
<1> DEFINE note == SI!NoteOf(ui.cell)
           w    == [cell |-> ui.cell, state |-> state,
                    note |-> IF state = "unverified" THEN "" ELSE note]
<1>1. /\ ~ui.pending /\ srv' = srv /\ DOMAIN ui' = DOMAIN ui /\ ui'.results = ui.results
      /\ ui'.fetch = ui.fetch /\ ui'.pending = TRUE /\ ui'.forgot = ui.forgot
      /\ ui'.writes = Append(ui.writes, w)
      /\ ui'.drafts = IF state # "unverified" THEN ui.drafts
                      ELSE [ui.drafts EXCEPT ![ui.cell] = <<note>>]
  <2>1. CASE state # "unverified"
    BY <2>1 DEF SI!SetState, SI!IsPending, SI!Writes, SI!Does, SI!Sets, ItemParts, ItemShape
  <2>2. CASE state = "unverified"
    BY <2>2 DEF SI!SetState, SI!IsPending, SI!Writes, SI!Does, SI!Sets, SI!Some, ItemParts, ItemShape
  <2>3. QED
    BY <2>1, <2>2
<1>2. note = IF ui.drafts[ui.cell] # << >> THEN ui.drafts[ui.cell][1] ELSE ui.results[ui.cell].note
  BY DEF SI!NoteOf, SI!The, SI!None
<1> HIDE DEF note
<1>3. w.cell = ui.cell /\ (state # "unverified" => w.note = note) /\ DOMAIN ui.drafts = Cells
  BY DEF ItemParts, ItemShape
<1> HIDE DEF w
<1>4. DOMAIN ui'.drafts = Cells /\ \A c \in Cells :
        \/ NoteKept(c)
        \/ /\ ui'.drafts[c] = ui.drafts[c]
           /\ c = w.cell /\ ui.drafts[c] = << >> => w.note = ui.results[c].note
  BY <1>1, <1>2, <1>3 DEF NoteKept
<1>5. ItemSent
  BY <1>1, <1>4 DEF ItemSent
<1>6. QED
  BY <1>5, ItemSends

LEMMA ItemNoteSaved == ASSUME ItemParts, SI!SaveNote PROVE ItemParts' /\ NotesStay
<1> DEFINE note  == SI!NoteOf(ui.cell)
           state == ui.results[ui.cell].state
           w     == [cell |-> ui.cell, state |-> state,
                     note |-> IF state = "unverified" THEN "" ELSE note]
<1>1. /\ ~ui.pending /\ srv' = srv /\ DOMAIN ui' = DOMAIN ui /\ ui'.results = ui.results
      /\ ui'.drafts = ui.drafts /\ ui'.fetch = ui.fetch /\ ui'.pending = TRUE /\ ui'.forgot = ui.forgot
      /\ ui'.writes = Append(ui.writes, w) /\ state # "unverified"
  BY DEF SI!SaveNote, SI!SelectedState, SI!IsPending, SI!Writes, SI!Does, SI!Sets, ItemParts, ItemShape
<1>2. note = IF ui.drafts[ui.cell] # << >> THEN ui.drafts[ui.cell][1] ELSE ui.results[ui.cell].note
  BY DEF SI!NoteOf, SI!The, SI!None
<1> HIDE DEF note
<1>3. w.cell = ui.cell /\ w.note = note /\ DOMAIN ui.drafts = Cells
  BY <1>1 DEF ItemParts, ItemShape
<1> HIDE DEF w
<1>4. DOMAIN ui'.drafts = Cells /\ \A c \in Cells :
        /\ ui'.drafts[c] = ui.drafts[c]
        /\ c = w.cell /\ ui.drafts[c] = << >> => w.note = ui.results[c].note
  BY <1>1, <1>2, <1>3
<1>5. ItemSent
  BY <1>1, <1>4 DEF ItemSent
<1>6. QED
  BY <1>5, ItemSends

LEMMA ItemAnswered == ASSUME ItemParts, NEW i \in 1 .. 2, SI!WriteAnswered(i) PROVE ItemParts' /\ NotesStay
<1> DEFINE w == ui.writes[i]
           row == [state |-> w.state, note |-> w.note]
<1>1. /\ srv' = [srv EXCEPT !.results[w.cell] = row] /\ i \in DOMAIN ui.writes
      /\ DOMAIN ui' = DOMAIN ui /\ ui'.results = ui.results /\ ui'.drafts = ui.drafts
      /\ ui'.fetch = TRUE /\ ui'.pending = ui.pending /\ ui'.forgot = ui.forgot
      /\ ui'.writes = SI!RemoveAt(ui.writes, i)
  BY DEF SI!WriteAnswered, SI!Invalidate, ItemParts, ItemShape
<1>2. /\ DOMAIN srv' = DOMAIN srv /\ srv'.others = srv.others
      /\ srv'.results = [srv.results EXCEPT ![w.cell] = row]
  BY <1>1 DEF ItemParts, ItemShape
<1>3. ItemShape'
  BY <1>1, <1>2 DEF ItemParts, ItemShape
<1>4. ASSUME srv.others = 0, ~ui.forgot PROVE OneWrite' /\ UntypedNotes'
  <2>1. ui.writes = <<ui.writes[1]>> /\ ui.pending /\ i = 1 /\ ui.writes # << >>
    BY <1>1, <1>4 DEF ItemParts, OneWrite
  <2>2. ui'.writes = << >>
    BY <1>1, <2>1, RemovedOne
  <2>3. \A c \in Cells : ui.drafts[c] = None => srv'.results[c].note = ui.results[c].note
    <3> SUFFICES ASSUME NEW c \in Cells, ui.drafts[c] = None
                 PROVE  srv'.results[c].note = ui.results[c].note
      OBVIOUS
    <3>1. CASE c = w.cell
      BY <1>2, <1>4, <2>1, <3>1 DEF ItemParts, ItemShape, UntypedNotes
    <3>2. CASE c # w.cell
      BY <1>2, <1>4, <3>2 DEF ItemParts, ItemShape, UntypedNotes
    <3>3. QED
      BY <3>1, <3>2
  <2>4. OneWrite'
    BY <1>1, <2>1, <2>2 DEF OneWrite
  <2>5. UntypedNotes'
    BY <1>1, <2>2, <2>3 DEF UntypedNotes
  <2>6. QED
    BY <2>4, <2>5
<1>5. NotesStay
  BY <1>1 DEF NotesStay, SI!NoteOf
<1>6. QED
  BY <1>1, <1>2, <1>3, <1>4, <1>5 DEF ItemParts

LEMMA ItemFailed == ASSUME ItemParts, NEW i \in 1 .. 2, SI!WriteFailed(i) PROVE ItemParts' /\ NotesStay
<1>1. /\ srv' = srv /\ i \in DOMAIN ui.writes
      /\ DOMAIN ui' = DOMAIN ui /\ ui'.results = ui.results /\ ui'.drafts = ui.drafts
      /\ ui'.fetch = ui.fetch /\ ui'.pending = FALSE /\ ui'.forgot = ui.forgot
      /\ ui'.writes = SI!RemoveAt(ui.writes, i)
  BY DEF SI!WriteFailed, SI!Sets, ItemParts, ItemShape
<1>2. ItemShape'
  BY <1>1 DEF ItemParts, ItemShape
<1>3. ASSUME srv.others = 0, ~ui.forgot PROVE OneWrite' /\ UntypedNotes'
  <2>1. ui.writes = <<ui.writes[1]>> /\ i = 1 /\ ~ui.fetch
    BY <1>1, <1>3 DEF ItemParts, OneWrite
  <2>2. ui'.writes = << >>
    BY <1>1, <2>1, RemovedOne
  <2>3. QED
    BY <1>1, <1>3, <2>1, <2>2 DEF ItemParts, OneWrite, UntypedNotes
<1>4. NotesStay
  BY <1>1 DEF NotesStay, SI!NoteOf
<1>5. QED
  BY <1>1, <1>2, <1>3, <1>4 DEF ItemParts

LEMMA ItemFetched ==
  ASSUME ItemParts, SI!FetchAnswered
  PROVE  ItemParts' /\ (srv.others = 0 /\ ~ui.forgot => NotesStay)
<1>1. /\ srv' = srv /\ ui.fetch /\ DOMAIN ui' = DOMAIN ui /\ ui'.results = srv.results
      /\ ui'.drafts = ui.drafts /\ ui'.fetch = FALSE /\ (ui'.pending <=> ui.writes # << >>)
      /\ ui'.forgot = ui.forgot /\ ui'.writes = ui.writes
  BY DEF SI!FetchAnswered, SI!Sets, ItemParts, ItemShape
<1>2. ItemShape'
  BY <1>1 DEF ItemParts, ItemShape
<1>3. ASSUME srv.others = 0, ~ui.forgot PROVE OneWrite' /\ UntypedNotes' /\ NotesStay
  <2>1. ui.writes = << >>
    BY <1>1, <1>3 DEF ItemParts, OneWrite
  <2>2. OneWrite' /\ UntypedNotes'
    BY <1>1, <2>1 DEF OneWrite, UntypedNotes
  <2>3. NotesStay
    BY <1>1, <1>3 DEF ItemParts, UntypedNotes, NotesStay, SI!NoteOf, SI!None, None
  <2>4. QED
    BY <2>2, <2>3
<1>4. QED
  BY <1>1, <1>2, <1>3 DEF ItemParts

LEMMA ItemOfOthers ==
  ASSUME ItemParts, NEW cell, NEW row, SI!OtherWrites(cell, row) PROVE ItemParts' /\ srv'.others # 0
<1>1. /\ ui' = ui /\ DOMAIN srv' = DOMAIN srv /\ srv'.others = srv.others + 1
      /\ DOMAIN srv'.results = DOMAIN srv.results
  BY DEF SI!OtherWrites, SI!Serves, ItemParts, ItemShape
<1>2. QED
  BY <1>1 DEF ItemParts, ItemShape

\* A step keeps the notes, except for the one that is being typed, while the editor stays open and
\* no other tab wrote.
LEMMA ItemStep ==
  ASSUME ItemParts, SI!Next
  PROVE  /\ ItemParts'
         /\ \/ ~(srv.others = 0 /\ ~ui.forgot /\ ui.editing /\ ui'.editing)
            \/ NotesStay
            \/ \E n \in Notes : SI!TypeNote(n)
<1>1. CASE SI!ToggleEditing
  BY <1>1, ItemToggled
<1>2. CASE \E n \in Notes : SI!TypeNote(n)
  BY <1>2, ItemTyped
<1>3. CASE SI!SaveNote \/ \E state \in {"ok", "ng", "unverified"} : SI!SetState(state)
  BY <1>3, ItemNoteSaved, ItemStateSet
<1>4. CASE \E i \in 1 .. 2 : SI!WriteAnswered(i) \/ SI!WriteFailed(i)
  BY <1>4, ItemAnswered, ItemFailed
<1>5. CASE SI!FetchAnswered
  BY <1>5, ItemFetched
<1>6. ASSUME NEW c \in Cells, NEW row, SI!OtherWrites(c, row) PROVE ItemParts' /\ NotesStay
  <2>1. ui' = ui
    BY <1>6 DEF SI!OtherWrites, SI!Serves
  <2>2. NotesStay
    BY <2>1 DEF NotesStay, SI!NoteOf
  <2>3. QED
    BY <1>6, <2>2, ItemOfOthers
<1>7. CASE ItemElsewhere
  <2>1. ItemQuiet
    BY <1>7, ItemFieldsOnly DEF ItemParts
  <2>2. NotesStay
    BY <2>1 DEF ItemQuiet, NotesStay, SI!NoteOf
  <2>3. QED
    BY <2>1, <2>2, ItemQuietKeeps
<1>8. QED
  BY <1>1, <1>2, <1>3, <1>4, <1>5, <1>6, <1>7 DEF SI!Next, ItemElsewhere

LEMMA SetupItemInit == SI!Init => ItemParts
<1> SUFFICES ASSUME SI!Init PROVE ItemParts
  OBVIOUS
<1>1. PICK results :
        /\ DOMAIN results = Cells /\ srv = [results |-> results, others |-> 0]
        /\ DOMAIN ui = {"page", "shown", "dialog", "editing", "cell", "results", "drafts", "writes",
                        "fetch", "pending", "forgot", "unlinkAlso", "sending", "what", "acts"}
        /\ ui.results = results /\ ui.drafts = [c \in Cells |-> << >>] /\ ui.writes = << >>
        /\ ui.fetch = FALSE /\ ui.pending = FALSE
  <2>1. PICK row \in SI!Rows \union {SI!Unverified} :
          LET results == [c \in Cells |-> IF c = "standing" THEN row ELSE SI!Unverified]
          IN  /\ ui = [page |-> "setup_item", shown |-> TRUE, dialog |-> "none", editing |-> FALSE,
                       cell |-> "standing", results |-> results, drafts |-> [c \in Cells |-> SI!None],
                       writes |-> SI!None, fetch |-> FALSE, pending |-> FALSE, forgot |-> FALSE,
                       unlinkAlso |-> FALSE, sending |-> FALSE, what |-> "none", acts |-> 0]
              /\ srv = [results |-> results, others |-> 0]
    BY DEF SI!Init, SI!None
  <2> DEFINE results == [c \in Cells |-> IF c = "standing" THEN row ELSE SI!Unverified]
  <2>2. DOMAIN results = Cells
    OBVIOUS
  <2> HIDE DEF results
  <2>3. WITNESS results
  <2>4. QED
    BY <2>1, <2>2 DEF SI!None, results
<1>2. ItemShape
  BY <1>1 DEF ItemShape
<1>3. OneWrite /\ UntypedNotes
  BY <1>1 DEF OneWrite, UntypedNotes
<1>4. QED
  BY <1>2, <1>3 DEF ItemParts

LEMMA ItemInductive == ItemInv /\ [NextForms]_vars => ItemInv'
<1> SUFFICES ASSUME ItemInv, [NextForms]_vars PROVE ItemInv'
  OBVIOUS
<1>1. CASE ui.page = "setup_item" /\ SI!Next
  BY <1>1, ItemStep DEF ItemInv
<1>2. CASE ui.page # "setup_item" /\ ui'.page = ui.page
  BY <1>2 DEF ItemInv
<1>3. CASE UNCHANGED vars
  BY <1>3, ItemQuietKeeps DEF ItemInv, ItemQuiet, vars
<1>4. QED
  BY <1>1, <1>2, <1>3 DEF NextForms, Stays

\* While nothing is under way, and no other tab writes and no pending write was forgotten, the editor
\* of results shows what is stored; and only the user changes the note of a cell
\* (SetupResultEditor.tsx: each write carries the note that is shown or typed).
THEOREM ResultsAreTrue == SpecForms => EditorIsTrue
<1>1. InitForms => ItemInv
  BY SetupItemInit DEF InitForms, ItemInv, NG!On, CE!On, BF!On, RE!On, SE!On, SI!On
<1>2. ItemInv => SI!ShownIsStored
  BY DEF ItemInv, ItemParts, OneWrite, SI!ShownIsStored, SI!On, SI!IsPending
<1>3. ASSUME ItemInv, [NextForms]_vars PROVE [SI!NoteSurvivesUnverified]_SI!vars
  <2> SUFFICES ASSUME ui.page = "setup_item", SI!Next, srv.others = 0, ~ui.forgot,
                      ui.editing, ui'.editing
               PROVE  NotesStay \/ \E n \in Notes : SI!TypeNote(n)
    BY <1>3 DEF SI!NoteSurvivesUnverified, SI!On, NotesStay, vars, SI!vars, NextForms
  <2>1. ItemParts
    BY <1>3 DEF ItemInv
  <2>2. QED
    BY <2>1, ItemStep
<1>4. ASSUME ItemInv', [NextForms]_vars PROVE SI!ShownIsStored'
  BY <1>2, <1>4 DEF ItemInv, ItemParts, OneWrite, SI!ShownIsStored, SI!On, SI!IsPending
<1>5. ItemInv /\ ItemInv' /\ [NextForms]_vars => [SI!ShownIsStored' /\ SI!NoteSurvivesUnverified]_SI!vars
  BY <1>3, <1>4
<1>6. QED
  BY <1>1, <1>5, ItemInductive, PTL DEF SpecForms, EditorIsTrue, SI!EditorIsTrue

-----------------------------------------------------------------------------
(* The fields of the combo form.                                           *)

Masses == 0 .. BF!MaxPositionMass

\* The bands divide the masses between them, and each has its representative.
LEMMA BandOfEach ==
  ASSUME NEW b \in BF!Bands, NEW mass \in Masses,
         BF!PositionBands[b].min <= mass, mass <= BF!PositionBands[b].max
  PROVE  BF!PositionFromMass(mass) = b
BY DEF BF!PositionFromMass, BF!Bands, BF!PositionBands, Masses

LEMMA BandOfMass == ASSUME NEW mass \in Masses PROVE BF!PositionFromMass(mass) \in BF!Bands
<1>1. \E b \in BF!Bands : BF!PositionBands[b].min <= mass /\ mass <= BF!PositionBands[b].max
  BY DEF BF!Bands, BF!PositionBands, Masses, BF!MaxPositionMass
<1>2. QED
  BY <1>1 DEF BF!PositionFromMass

LEMMA MassOfBand ==
  ASSUME NEW b \in BF!Bands
  PROVE  /\ BF!RepresentativeMassOf(b) # None
         /\ BF!PositionFromMass(The(BF!RepresentativeMassOf(b))) = b
<1> DEFINE m == BF!PositionBands[b].representative
<1>1. m \in Masses /\ BF!PositionBands[b].min <= m /\ m <= BF!PositionBands[b].max
  BY DEF BF!Bands, BF!PositionBands, Masses, BF!MaxPositionMass
<1>2. BF!RepresentativeMassOf(b) = <<m>>
  BY DEF BF!RepresentativeMassOf, BF!Some
<1> HIDE DEF m
<1>3. BF!PositionFromMass(m) = b
  BY <1>1, BandOfEach
<1>4. QED
  BY <1>2, <1>3 DEF None, The

LEMMA NoBand == "" \notin BF!Bands /\ BF!RepresentativeMassOf("") = None
BY DEF BF!RepresentativeMassOf, BF!Bands, BF!PositionBands, BF!None, None

LEMMA PercentOfMass == ASSUME NEW mass \in Masses PROVE BF!PercentToMass(BF!PercentFromMass(mass)) = mass
<1> DEFINE p == BF!PercentFromMass(mass)
<1>1. p \in Int /\ 160 * p >= mass * 1000 - 79 /\ 160 * p <= mass * 1000 + 80
  BY DEF Masses, BF!PercentFromMass, BF!MaxPositionMass
<1>2. (p * 160 + 500) \div 1000 = mass
  BY <1>1 DEF Masses, BF!MaxPositionMass
<1>3. QED
  BY <1>2 DEF Masses, BF!PercentToMass, BF!Clamped, BF!MaxPositionMass

\* What the selector of bands offers.
OfferedBands == BF!Bands \union {""}

\* A band or none, and the mass one of the band.
Placed(position, mass) ==
  /\ position \in BF!Bands \union {""}
  /\ mass # None => position # "" /\ BF!PositionFromMass(The(mass)) = position

\* A row that has a band has its mass.
WithMass(position, mass) == Placed(position, mass) /\ (position # "" => mass # None)

MassFields == {None} \union {<<m>> : m \in Masses}

Numbers == {None} \union {<<n>> : n \in Int}

FieldsShape ==
  /\ DOMAIN ui = {"page", "form", "initial", "section", "locked", "mode", "focus", "unsetting",
                  "touched", "saved", "acts"}
  /\ DOMAIN ui.form = {"choices", "gauges", "position", "mass", "carry", "states", "oki", "verified", "tags"}
  /\ DOMAIN srv = {"row"} /\ {"position", "mass", "version"} \subseteq DOMAIN srv.row
  /\ srv.row.version \in Nat /\ ui.acts \in Nat

\* The row has a mass when it has a band; the form may lack it while it is typed.
PlacedAlike ==
  /\ WithMass(srv.row.position, srv.row.mass)
  /\ Placed(ui.form.position, ui.form.mass)

\* What the form was filled from is the row, or an older one.
InitialIsRead ==
  /\ ui.initial.version \in Nat /\ ui.initial.version <= srv.row.version
  /\ ui.initial.version = srv.row.version => ui.initial = srv.row

\* States are numbers or nothing, and both ends of a single value that was touched are the same.
StatesTyped ==
  /\ DOMAIN ui.form.states = BF!Codes /\ ui.touched \subseteq BF!Codes
  /\ \A c \in BF!Codes :
       /\ DOMAIN ui.form.states[c] = {"start", "end"}
       /\ ui.form.states[c].start \in Numbers /\ ui.form.states[c].end \in Numbers
  /\ \A c \in ui.touched : BF!StateDefs[c].single => ui.form.states[c].start = ui.form.states[c].end

FieldsParts == FieldsShape /\ PlacedAlike /\ InitialIsRead /\ StatesTyped

FieldsInv == ui.page = "basic_fields" => FieldsParts

\* What an action leaves alone that has to do with places and states.
PlaceStays == ui'.form.position = ui.form.position /\ ui'.form.mass = ui.form.mass
StatesStay == ui'.form.states = ui.form.states /\ ui'.touched = ui.touched
RowsApart ==
  /\ srv' = srv /\ DOMAIN ui' = DOMAIN ui /\ DOMAIN ui'.form = DOMAIN ui.form
  /\ ui'.initial = ui.initial /\ ui'.acts \in Nat

LEMMA FieldsChanged ==
  ASSUME FieldsParts, RowsApart, Placed(ui'.form.position, ui'.form.mass), StatesTyped'
  PROVE  FieldsParts'
BY DEF FieldsParts, FieldsShape, PlacedAlike, InitialIsRead, RowsApart, Placed, WithMass

FieldsElsewhere ==
  \/ BF!RequestOkiVerifiedChange \/ \E agreed \in BOOLEAN : BF!UnsetOkiVerified(agreed)
  \/ \E mode : BF!SetPositionMode(mode)
  \/ \E gauge, n : BF!SetGauge(gauge, n)
  \/ \E choice, value : BF!SetChoice(choice, value)
  \/ \E mass : BF!SetCarryDistance(mass)
  \/ \E o : BF!ToggleOki(o)
  \/ \E status : BF!HandleMyComboStatusChange(status)
  \/ \E tag : BF!ToggleTag(tag)

LEMMA FieldsOthers == ASSUME FieldsParts, FieldsElsewhere PROVE FieldsParts'
<1> USE DEF FieldsShape, PlaceStays, StatesStay, RowsApart, BF!Sets, BF!Acts, BF!Changes
<1>1. FieldsShape
  BY DEF FieldsParts
<1>2. PlaceStays /\ StatesStay /\ RowsApart
  <2>1. CASE BF!RequestOkiVerifiedChange
    <3>1. CASE ui' = BF!Acts([ui EXCEPT !.unsetting = TRUE])
      BY <1>1, <2>1, <3>1 DEF BF!RequestOkiVerifiedChange
    <3>2. CASE ui' = BF!Acts([ui EXCEPT !.form = [ui.form EXCEPT !.verified = ~@]])
      BY <1>1, <2>1, <3>2 DEF BF!RequestOkiVerifiedChange
    <3>3. QED
      BY <2>1, <3>1, <3>2 DEF BF!RequestOkiVerifiedChange
  <2>2. CASE \E agreed \in BOOLEAN : BF!UnsetOkiVerified(agreed)
    BY <1>1, <2>2 DEF BF!UnsetOkiVerified
  <2>3. CASE \E mode : BF!SetPositionMode(mode)
    BY <1>1, <2>3 DEF BF!SetPositionMode
  <2>4. CASE \E gauge, n : BF!SetGauge(gauge, n)
    BY <1>1, <2>4 DEF BF!SetGauge
  <2>5. CASE \E choice, value : BF!SetChoice(choice, value)
    BY <1>1, <2>5 DEF BF!SetChoice
  <2>6. CASE \E mass : BF!SetCarryDistance(mass)
    BY <1>1, <2>6 DEF BF!SetCarryDistance
  <2>7. CASE \E o : BF!ToggleOki(o)
    <3>1. PICK o : BF!ToggleOki(o)
      BY <2>7
    <3> DEFINE form == [ui.form EXCEPT !.oki = BF!ToggledOki(@, o), !.verified = TRUE]
    <3>2. /\ DOMAIN form = DOMAIN ui.form /\ form.position = ui.form.position
          /\ form.mass = ui.form.mass /\ form.states = ui.form.states
      BY <1>1
    <3>3. srv' = srv /\ ui' = BF!Acts([ui EXCEPT !.form = form])
      BY <3>1 DEF BF!ToggleOki
    <3> HIDE DEF form
    <3>4. QED
      BY <1>1, <3>2, <3>3
  <2>8. CASE \E status : BF!HandleMyComboStatusChange(status)
    BY <1>1, <2>8 DEF BF!HandleMyComboStatusChange
  <2>9. CASE \E tag : BF!ToggleTag(tag)
    BY <1>1, <2>9 DEF BF!ToggleTag
  <2>10. QED
    BY <2>1, <2>2, <2>3, <2>4, <2>5, <2>6, <2>7, <2>8, <2>9 DEF FieldsElsewhere
<1>3. QED
  BY <1>2, FieldsChanged DEF FieldsParts, PlacedAlike, StatesTyped

\* The fields of the start position.
LEMMA FieldsPlaced ==
  ASSUME FieldsParts, RowsApart, StatesStay, Placed(ui'.form.position, ui'.form.mass)
  PROVE  FieldsParts'
BY FieldsChanged DEF FieldsParts, StatesTyped, StatesStay


LEMMA MassTyped ==
  ASSUME NEW mass \in MassFields, NEW form,
         DOMAIN form = {"choices", "gauges", "position", "mass", "carry", "states", "oki", "verified", "tags"},
         form.position \in BF!Bands \union {""}
  PROVE  LET f == BF!PositionOfMass(form, mass)
         IN  Placed(f.position, f.mass) /\ DOMAIN f = DOMAIN form /\ f.states = form.states
<1>1. CASE mass = None
  BY <1>1 DEF BF!PositionOfMass, BF!None, None, Placed
<1>2. CASE mass # None
  <2>1. PICK m \in Masses : mass = <<m>>
    BY <1>2 DEF MassFields
  <2>2. mass # BF!None /\ BF!The(mass) = m /\ The(mass) = m
    BY <2>1 DEF BF!None, BF!The, The
  <2> DEFINE f == [form EXCEPT !.mass = mass, !.position = BF!PositionFromMass(m)]
  <2>3. BF!PositionOfMass(form, mass) = f
    BY <2>2 DEF BF!PositionOfMass
  <2>4. /\ f.mass = mass /\ f.position = BF!PositionFromMass(m) /\ DOMAIN f = DOMAIN form
        /\ f.states = form.states
    OBVIOUS
  <2>5. f.position \in BF!Bands /\ f.position # ""
    BY <2>4, BandOfMass, NoBand
  <2> HIDE DEF f
  <2>6. QED
    BY <2>2, <2>3, <2>4, <2>5 DEF Placed
<1>3. QED
  BY <1>1, <1>2

LEMMA TypedIsMass ==
  ASSUME NEW n \in Int
  PROVE  BF!Clamped(n, 0, BF!MaxPositionMass) \in Masses /\ BF!PercentToMass(n) \in Masses
BY DEF BF!Clamped, BF!PercentToMass, Masses, BF!MaxPositionMass

\* Typing a mass or a percentage.
LEMMA MassEntered ==
  ASSUME FieldsParts, NEW mass \in MassFields,
         BF!Sets(BF!Acts([ui EXCEPT !.form = BF!PositionOfMass(@, mass), !.focus = "position"]))
  PROVE  FieldsParts'
<1> DEFINE f == BF!PositionOfMass(ui.form, mass)
<1>1. Placed(f.position, f.mass) /\ DOMAIN f = DOMAIN ui.form /\ f.states = ui.form.states
  <2>1. /\ ui.form.position \in BF!Bands \union {""}
        /\ DOMAIN ui.form = {"choices", "gauges", "position", "mass", "carry", "states", "oki", "verified", "tags"}
    BY DEF FieldsParts, FieldsShape, PlacedAlike, Placed
  <2>2. QED
    BY <2>1, MassTyped
<1>2. srv' = srv /\ ui' = [[ui EXCEPT !.form = f, !.focus = "position"] EXCEPT !.acts = ui.acts + 1]
  BY DEF BF!Sets, BF!Acts, FieldsParts, FieldsShape
<1> HIDE DEF f
<1>3. DOMAIN ui' = DOMAIN ui /\ ui'.form = f /\ ui'.initial = ui.initial /\ ui'.touched = ui.touched
      /\ ui'.acts = ui.acts + 1 /\ srv' = srv
  BY <1>2 DEF FieldsParts, FieldsShape
<1>4. RowsApart /\ StatesStay
  BY <1>1, <1>3 DEF RowsApart, StatesStay, FieldsParts, FieldsShape
<1>5. QED
  BY <1>1, <1>3, <1>4, FieldsPlaced

LEMMA PercentEntered ==
  ASSUME FieldsParts, NEW percent \in BF!Opt(TypedPercents), BF!SetStartPositionPercent(percent) PROVE FieldsParts'
<1> DEFINE mass == IF percent = BF!None THEN BF!None ELSE BF!Some(BF!PercentToMass(BF!The(percent)))
<1>1. mass \in MassFields
  <2>1. CASE percent = BF!None
    BY <2>1 DEF BF!None, None, MassFields
  <2>2. CASE percent # BF!None
    <3>1. PICK n \in TypedPercents : percent = <<n>>
      BY <2>2 DEF BF!Opt, BF!Some
    <3>2. n \in Int /\ BF!The(percent) = n
      BY <3>1, FormsAssumption DEF BF!The
    <3>3. mass = <<BF!PercentToMass(n)>>
      BY <2>2, <3>2 DEF BF!Some
    <3>4. QED
      BY <3>2, <3>3, TypedIsMass DEF MassFields
  <2>3. QED
    BY <2>1, <2>2
<1>2. BF!Sets(BF!Acts([ui EXCEPT !.form = BF!PositionOfMass(@, mass), !.focus = "position"]))
  BY DEF BF!SetStartPositionPercent
<1> HIDE DEF mass
<1>3. QED
  BY <1>1, <1>2, MassEntered

LEMMA MassFieldEntered ==
  ASSUME FieldsParts, NEW typed \in BF!Opt(TypedMasses), BF!SetStartPositionMass(typed) PROVE FieldsParts'
<1> DEFINE mass == BF!TypedMass(typed)
<1>1. mass \in MassFields
  <2>1. CASE typed = BF!None
    BY <2>1 DEF BF!None, None, BF!TypedMass, MassFields
  <2>2. CASE typed # BF!None
    <3>1. PICK n \in TypedMasses : typed = <<n>>
      BY <2>2 DEF BF!Opt, BF!Some
    <3>2. n \in Int /\ BF!The(typed) = n
      BY <3>1, FormsAssumption DEF BF!The
    <3>3. mass = <<BF!Clamped(n, 0, BF!MaxPositionMass)>>
      BY <2>2, <3>2 DEF BF!Some, BF!TypedMass
    <3>4. QED
      BY <3>2, <3>3, TypedIsMass DEF MassFields
  <2>3. QED
    BY <2>1, <2>2
<1>2. BF!Sets(BF!Acts([ui EXCEPT !.form = BF!PositionOfMass(@, mass), !.focus = "position"]))
  BY DEF BF!SetStartPositionMass
<1> HIDE DEF mass
<1>3. QED
  BY <1>1, <1>2, MassEntered

\* A band is chosen, and brings its mass unless the one given lies in it.
LEMMA BandChosen ==
  ASSUME FieldsParts, NEW band \in OfferedBands, BF!SetPositionBand(band) PROVE FieldsParts'
<1> DEFINE f == BF!PositionOfBand(ui.form, band)
<1>1. Placed(f.position, f.mass) /\ DOMAIN f = DOMAIN ui.form /\ f.states = ui.form.states
  <2> USE DEF FieldsParts, FieldsShape, Placed, OfferedBands
  <2>1. CASE band = ""
    <3>1. f = [ui.form EXCEPT !.position = "", !.mass = BF!None]
      BY <2>1 DEF BF!PositionOfBand
    <3>2. QED
      BY <3>1 DEF BF!None, None
  <2>2. CASE band # "" /\ ui.form.mass # BF!None /\ BF!PositionFromMass(BF!The(ui.form.mass)) = band
    <3>1. f = [ui.form EXCEPT !.position = band]
      BY <2>2 DEF BF!PositionOfBand
    <3>2. QED
      BY <2>2, <3>1 DEF BF!The, The
  <2>3. CASE band # "" /\ ~(ui.form.mass # BF!None /\ BF!PositionFromMass(BF!The(ui.form.mass)) = band)
    <3>1. f = [ui.form EXCEPT !.position = band, !.mass = BF!RepresentativeMassOf(band)]
      BY <2>3 DEF BF!PositionOfBand
    <3>2. /\ f.position = band /\ f.mass = BF!RepresentativeMassOf(band) /\ DOMAIN f = DOMAIN ui.form
          /\ f.states = ui.form.states
      BY <3>1
    <3>3. BF!PositionFromMass(The(BF!RepresentativeMassOf(band))) = band
      BY <2>3, MassOfBand
    <3> HIDE DEF f
    <3>4. QED
      BY <2>3, <3>2, <3>3
  <2>4. QED
    BY <2>1, <2>2, <2>3
<1>2. srv' = srv /\ ui' = [[ui EXCEPT !.form = f] EXCEPT !.acts = ui.acts + 1]
  BY DEF BF!SetPositionBand, BF!Changes, BF!Sets, BF!Acts, FieldsParts, FieldsShape
<1> HIDE DEF f
<1>3. DOMAIN ui' = DOMAIN ui /\ ui'.form = f /\ ui'.initial = ui.initial /\ ui'.touched = ui.touched
      /\ ui'.acts = ui.acts + 1 /\ srv' = srv
  BY <1>2 DEF FieldsParts, FieldsShape
<1>4. RowsApart /\ StatesStay
  BY <1>1, <1>3 DEF RowsApart, StatesStay, FieldsParts, FieldsShape
<1>5. QED
  BY <1>1, <1>3, <1>4, FieldsPlaced

LEMMA MassFilled == ASSUME FieldsParts, BF!FillStartPositionMassOnBlur PROVE FieldsParts'
<1> DEFINE mass == IF ui.form.mass # BF!None THEN ui.form.mass ELSE BF!RepresentativeMassOf(ui.form.position)
<1>1. /\ RowsApart /\ StatesStay /\ ui'.form.position = ui.form.position /\ ui'.form.mass = mass
  BY DEF BF!FillStartPositionMassOnBlur, BF!Sets, RowsApart, StatesStay, FieldsParts, FieldsShape
<1>2. Placed(ui.form.position, mass)
  <2>1. Placed(ui.form.position, ui.form.mass)
    BY DEF FieldsParts, PlacedAlike
  <2>2. CASE ui.form.position \in BF!Bands
    BY <2>1, <2>2, NoBand, MassOfBand DEF Placed
  <2>3. CASE ui.form.position = ""
    BY <2>1, <2>3, NoBand DEF Placed, BF!None, None
  <2>4. QED
    BY <2>1, <2>2, <2>3 DEF Placed
<1> HIDE DEF mass
<1>3. QED
  BY <1>1, <1>2, FieldsPlaced

\* A state of a character is typed.
LEMMA TypedState ==
  ASSUME NEW c \in BF!Codes, NEW opt \in Numbers PROVE BF!OrMin(opt, c) \in Int
BY DEF BF!OrMin, BF!Codes, BF!StateDefs, BF!Clamped, BF!The, Numbers, BF!None, None

LEMMA StateSet ==
  ASSUME FieldsParts, NEW c \in BF!Codes, NEW v, BF!SetState(c, v), DOMAIN v = {"start", "end"},
         v.start \in Numbers, v.end \in Numbers, BF!StateDefs[c].single => v.start = v.end
  PROVE  FieldsParts'
<1> DEFINE states == [ui.form.states EXCEPT ![c] = v]
           form == [ui.form EXCEPT !.states = states]
<1>1. srv' = srv /\ ui' = [[ui EXCEPT !.form = form, !.touched = ui.touched \union {c}] EXCEPT !.acts = ui.acts + 1]
  BY DEF BF!SetState, BF!Sets, BF!Acts, FieldsParts, FieldsShape
<1>2. /\ DOMAIN form = DOMAIN ui.form /\ form.position = ui.form.position /\ form.mass = ui.form.mass
      /\ form.states = states
  BY DEF FieldsParts, FieldsShape
<1> HIDE DEF form
<1>3. DOMAIN ui' = DOMAIN ui /\ ui'.form = form /\ ui'.initial = ui.initial
      /\ ui'.touched = ui.touched \union {c} /\ ui'.acts = ui.acts + 1 /\ srv' = srv
  BY <1>1 DEF FieldsParts, FieldsShape
<1>4. RowsApart
  BY <1>2, <1>3 DEF RowsApart, FieldsParts, FieldsShape
<1>5. DOMAIN states = BF!Codes /\ states[c] = v /\ \A d \in BF!Codes \ {c} : states[d] = ui.form.states[d]
  BY DEF FieldsParts, StatesTyped
<1> HIDE DEF states
<1>6. StatesTyped'
  <2>1. ui'.form.states = states /\ ui'.touched = ui.touched \union {c}
    BY <1>2, <1>3
  <2>2. ui.touched \union {c} \subseteq BF!Codes
    BY DEF FieldsParts, StatesTyped
  <2>3. ASSUME NEW d \in BF!Codes
        PROVE  /\ DOMAIN states[d] = {"start", "end"}
               /\ states[d].start \in Numbers /\ states[d].end \in Numbers
    BY <1>5 DEF FieldsParts, StatesTyped
  <2>4. ASSUME NEW d \in ui.touched \union {c}, BF!StateDefs[d].single PROVE states[d].start = states[d].end
    BY <1>5, <2>4 DEF FieldsParts, StatesTyped
  <2>5. QED
    BY <1>5, <2>1, <2>2, <2>3, <2>4 DEF StatesTyped
<1>7. Placed(ui'.form.position, ui'.form.mass)
  BY <1>2, <1>3 DEF FieldsParts, PlacedAlike
<1>8. QED
  BY <1>4, <1>6, <1>7, FieldsChanged

LEMMA SingleSet ==
  ASSUME FieldsParts, NEW c \in BF!Codes, NEW n \in Numbers, BF!SetSingle(c, n) PROVE FieldsParts'
<1> DEFINE v == BF!SetSingleIntField(c, n)
<1>1. BF!SetState(c, v)
  BY DEF BF!SetSingle
<1>2. DOMAIN v = {"start", "end"} /\ v.start \in Numbers /\ v.end \in Numbers /\ v.start = v.end
  BY TypedState DEF BF!SetSingleIntField, BF!Unset, BF!Some, BF!None, None, Numbers
<1> HIDE DEF v
<1>3. QED
  BY <1>1, <1>2, StateSet

LEMMA PairSet ==
  ASSUME FieldsParts, NEW c \in BF!Codes, NEW which \in {"start", "end"}, NEW n \in Numbers, BF!SetPair(c, which, n)
  PROVE  FieldsParts'
<1> DEFINE end == IF n = BF!None THEN BF!None ELSE BF!Some(BF!OrMin(n, c))
           w == [ui.form.states[c] EXCEPT ![which] = end]
           v == BF!SetIntField(ui.form.states[c], c, which, n)
<1>1. BF!SetState(c, v) /\ ~BF!StateDefs[c].single
  BY DEF BF!SetPair
<1>2. end \in Numbers
  BY TypedState DEF BF!None, None, BF!Some, Numbers
<1>3. v = w \/ v = BF!Unset
  BY DEF BF!SetIntField, BF!Kept
<1> HIDE DEF v, end
<1>4. DOMAIN w = {"start", "end"} /\ w.start \in Numbers /\ w.end \in Numbers
  BY <1>2 DEF FieldsParts, StatesTyped
<1> HIDE DEF w
<1>5. DOMAIN v = {"start", "end"} /\ v.start \in Numbers /\ v.end \in Numbers
  BY <1>3, <1>4 DEF BF!Unset, BF!None, None, Numbers
<1>6. QED
  BY <1>1, <1>5, StateSet

-----------------------------------------------------------------------------
(* The row of the form.                                                    *)
LEMMA RowOfForm ==
  ASSUME NEW form, NEW choices, NEW position, NEW mass
  PROVE  /\ BF!Row(form, choices, position, mass).position = position
         /\ BF!Row(form, choices, position, mass).mass = mass
         /\ BF!Row(form, choices, position, mass).version = srv.row.version + 1
         /\ BF!Row(form, choices, position, mass).states = BF!BuildSituation(form.states)
         /\ {"position", "mass", "version"} \subseteq DOMAIN BF!Row(form, choices, position, mass)
BY DEF BF!Row

LEMMA BandsPlaced ==
  ASSUME NEW position \in OfferedBands
  PROVE  WithMass(position, BF!RepresentativeMassOf(position))
BY MassOfBand, NoBand DEF WithMass, Placed, OfferedBands

\* A band is written with its mass, whichever way the row is saved.
LEMMA SavedPlace ==
  ASSUME FieldsParts, BF!Save
  PROVE  /\ WithMass(srv'.row.position, srv'.row.mass)
         /\ srv'.row.version = srv.row.version + 1 /\ DOMAIN srv' = DOMAIN srv
         /\ srv'.row.states = BF!BuildSituation(ui.form.states)
         /\ {"position", "mass", "version"} \subseteq DOMAIN srv'.row
<1>1. /\ srv' = [srv EXCEPT !.row = IF BF!HasKeyChanges THEN BF!Normalized(ui.form) ELSE BF!Patched(ui.form)]
      /\ srv.row.version = ui.initial.version
  BY DEF BF!Save
<1>2. /\ DOMAIN srv' = DOMAIN srv
      /\ srv'.row = IF BF!HasKeyChanges THEN BF!Normalized(ui.form) ELSE BF!Patched(ui.form)
  BY <1>1 DEF FieldsParts, FieldsShape
<1>3. Placed(ui.form.position, ui.form.mass) /\ WithMass(srv.row.position, srv.row.mass) /\ ui.initial = srv.row
  BY <1>1 DEF FieldsParts, PlacedAlike, InitialIsRead
<1>4. CASE BF!HasKeyChanges
  <2>1. CASE ui.form.mass # BF!None
    <3>1. srv'.row = BF!Row(ui.form, ui.form.choices, BF!PositionFromMass(BF!The(ui.form.mass)), ui.form.mass)
      BY <1>2, <1>4, <2>1 DEF BF!Normalized
    <3>2. BF!PositionFromMass(BF!The(ui.form.mass)) = ui.form.position
      BY <1>3, <2>1 DEF Placed, BF!The, The, BF!None, None
    <3>3. srv'.row.position = ui.form.position /\ srv'.row.mass = ui.form.mass
      BY <3>1, <3>2, RowOfForm
    <3>4. WithMass(ui.form.position, ui.form.mass)
      BY <1>3, <2>1 DEF WithMass, BF!None, None
    <3>5. QED
      BY <1>2, <3>1, <3>3, <3>4, RowOfForm
  <2>2. CASE ui.form.mass = BF!None
    <3>1. srv'.row = BF!Row(ui.form, ui.form.choices, ui.form.position, BF!RepresentativeMassOf(ui.form.position))
      BY <1>2, <1>4, <2>2 DEF BF!Normalized
    <3>2. ui.form.position \in OfferedBands
      BY <1>3 DEF Placed, OfferedBands
    <3>3. QED
      BY <1>2, BandsPlaced, <3>1, <3>2, RowOfForm
  <2>3. QED
    BY <2>1, <2>2
<1>5. CASE ~BF!HasKeyChanges
  <2> DEFINE mass == IF ui.form.mass = BF!None THEN BF!RepresentativeMassOf(srv.row.position) ELSE ui.form.mass
  <2>1. srv'.row = BF!Row(ui.form, srv.row.choices, srv.row.position, mass)
    BY <1>2, <1>5 DEF BF!Patched
  <2>2. ui.form.position = srv.row.position
    BY <1>3, <1>5 DEF BF!HasKeyChanges
  <2>3. srv.row.position \in OfferedBands
    BY <1>3 DEF WithMass, Placed, OfferedBands
  <2>4. WithMass(srv.row.position, mass)
    <3>1. CASE ui.form.mass = BF!None
      BY <2>3, BandsPlaced, <3>1
    <3>2. CASE ui.form.mass # BF!None
      BY <1>3, <2>2, <3>2 DEF BF!None, None, WithMass
    <3>3. QED
      BY <3>1, <3>2
  <2> HIDE DEF mass
  <2>5. QED
    BY <1>2, <2>1, <2>4, RowOfForm
<1>6. QED
  BY <1>4, <1>5

LEMMA FieldsSaved == ASSUME FieldsParts, BF!Save PROVE FieldsParts'
<1>1. ui' = [[ui EXCEPT !.initial = srv'.row, !.saved = TRUE] EXCEPT !.acts = ui.acts + 1]
  BY DEF BF!Save, BF!Acts, FieldsParts, FieldsShape
<1>2. DOMAIN ui' = DOMAIN ui /\ ui'.form = ui.form /\ ui'.initial = srv'.row /\ ui'.touched = ui.touched
      /\ ui'.acts = ui.acts + 1
  BY <1>1 DEF FieldsParts, FieldsShape
<1>3. FieldsShape'
  <2>1. srv.row.version \in Nat /\ ui.acts \in Nat
    BY DEF FieldsParts, FieldsShape
  <2>2. srv'.row.version \in Nat /\ ui'.acts \in Nat
    BY <1>2, <2>1, SavedPlace
  <2>3. QED
    BY <1>2, <2>2, SavedPlace DEF FieldsParts, FieldsShape
<1>4. PlacedAlike'
  BY <1>2, SavedPlace DEF FieldsParts, PlacedAlike, WithMass, Placed
<1>5. InitialIsRead'
  <2>1. srv'.row.version \in Nat
    BY <1>3 DEF FieldsShape
  <2>2. QED
    BY <1>2, <2>1 DEF InitialIsRead
<1>6. StatesTyped'
  BY <1>2 DEF FieldsParts, StatesTyped
<1>7. QED
  BY <1>3, <1>4, <1>5, <1>6 DEF FieldsParts

LEMMA FieldsOtherSaves ==
  ASSUME FieldsParts, NEW band \in OfferedBands, BF!OtherSaves(band) PROVE FieldsParts'
<1>1. /\ ui' = ui /\ DOMAIN srv' = DOMAIN srv
      /\ srv'.row = [srv.row EXCEPT !.position = band, !.mass = BF!RepresentativeMassOf(band),
                                    !.version = srv.row.version + 1]
  BY DEF BF!OtherSaves, BF!Serves, FieldsParts, FieldsShape
<1>2. /\ srv'.row.position = band /\ srv'.row.mass = BF!RepresentativeMassOf(band)
      /\ srv'.row.version = srv.row.version + 1 /\ DOMAIN srv'.row = DOMAIN srv.row
  BY <1>1 DEF FieldsParts, FieldsShape
<1>3. WithMass(band, BF!RepresentativeMassOf(band))
  BY BandsPlaced
<1>4. FieldsShape'
  BY <1>1, <1>2 DEF FieldsParts, FieldsShape
<1>5. PlacedAlike'
  BY <1>1, <1>2, <1>3 DEF FieldsParts, PlacedAlike, WithMass, Placed
<1>6. InitialIsRead'
  BY <1>1, <1>2 DEF FieldsParts, FieldsShape, InitialIsRead
<1>7. StatesTyped'
  BY <1>1 DEF FieldsParts, StatesTyped
<1>8. QED
  BY <1>4, <1>5, <1>6, <1>7 DEF FieldsParts

LEMMA FieldsRefetched == ASSUME FieldsParts, BF!Refetched PROVE FieldsParts'
<1>1. /\ srv' = srv /\ DOMAIN ui' = DOMAIN ui /\ ui'.form = ui.form /\ ui'.initial = srv.row
      /\ ui'.touched = ui.touched /\ ui'.acts = ui.acts
  BY DEF BF!Refetched, BF!Sets, FieldsParts, FieldsShape
<1>2. FieldsShape' /\ PlacedAlike'
  BY <1>1 DEF FieldsParts, FieldsShape, PlacedAlike, WithMass, Placed
<1>3. InitialIsRead'
  BY <1>1, <1>2 DEF FieldsShape, InitialIsRead
<1>4. StatesTyped'
  BY <1>1 DEF FieldsParts, StatesTyped
<1>5. QED
  BY <1>2, <1>3, <1>4 DEF FieldsParts

LEMMA FieldsStep == ASSUME FieldsParts, BF!Next PROVE FieldsParts'
<1>1. CASE FieldsElsewhere
  BY <1>1, FieldsOthers
<1>2. CASE BF!FillStartPositionMassOnBlur
  BY <1>2, MassFilled
<1>3. CASE BF!Save
  BY <1>3, FieldsSaved
<1>4. CASE BF!Refetched
  BY <1>4, FieldsRefetched
<1>5. ASSUME NEW band \in OfferedBands, BF!SetPositionBand(band) \/ BF!OtherSaves(band) PROVE FieldsParts'
  BY <1>5, BandChosen, FieldsOtherSaves
<1>6. ASSUME NEW mass \in BF!Opt(TypedMasses), BF!SetStartPositionMass(mass) PROVE FieldsParts'
  BY <1>6, MassFieldEntered
<1>7. ASSUME NEW percent \in BF!Opt(TypedPercents), BF!SetStartPositionPercent(percent) PROVE FieldsParts'
  BY <1>7, PercentEntered
<1>8. BF!Opt({0, 1, 3}) \subseteq Numbers
  BY DEF BF!Opt, BF!None, None, BF!Some, Numbers
<1>9. ASSUME NEW code \in BF!Codes, NEW n \in BF!Opt({0, 1, 3}), BF!SetSingle(code, n) PROVE FieldsParts'
  BY <1>8, <1>9, SingleSet
<1>10. ASSUME NEW code \in BF!Codes, NEW n \in BF!Opt({0, 1, 3}), NEW which \in {"start", "end"},
              BF!SetPair(code, which, n)
       PROVE  FieldsParts'
  BY <1>8, <1>10, PairSet
<1>11. {"", "corner_self", "mid_screen"} \subseteq OfferedBands
  BY DEF OfferedBands, BF!Bands, BF!PositionBands
<1>12. QED
  BY <1>1, <1>2, <1>3, <1>4, <1>5, <1>6, <1>7, <1>9, <1>10, <1>11 DEF BF!Next, FieldsElsewhere

LEMMA FieldsInit == BF!Init => FieldsParts
<1> SUFFICES ASSUME BF!Init PROVE FieldsParts
  OBVIOUS
<1> DEFINE First(band) ==
             [choices |-> [c \in BF!Choices |-> "first"], gauges |-> [g \in BF!Gauges |-> BF!None],
              position |-> band, mass |-> BF!RepresentativeMassOf(band), carry |-> BF!None,
              states |-> [c \in BF!Codes |-> BF!Unset], oki |-> {}, verified |-> FALSE,
              tags |-> {}, version |-> 1]
<1>1. {"", "corner_self"} \subseteq OfferedBands
  BY DEF OfferedBands, BF!Bands, BF!PositionBands
<1>2. PICK band \in OfferedBands, section \in BF!Sections, locked \in BOOLEAN :
        /\ srv = [row |-> First(band)]
        /\ ui = [page |-> "basic_fields", form |-> BF!FormOf(First(band)), initial |-> First(band), section |-> section,
                 locked |-> locked, mode |-> "band", focus |-> "none", unsetting |-> FALSE,
                 touched |-> {}, saved |-> FALSE, acts |-> 0]
  BY <1>1 DEF BF!Init
<1> DEFINE row == First(band)
<1>3. srv = [row |-> row] /\ ui.form = BF!FormOf(row) /\ ui.initial = row
  BY <1>2
<1>4. /\ row.position = band /\ row.mass = BF!RepresentativeMassOf(band) /\ row.version = 1
      /\ row.states = [c \in BF!Codes |-> BF!Unset] /\ {"position", "mass", "version"} \subseteq DOMAIN row
  OBVIOUS
<1> HIDE DEF row, First
<1>5. /\ DOMAIN BF!FormOf(row) = {"choices", "gauges", "position", "mass", "carry", "states", "oki", "verified", "tags"}
      /\ BF!FormOf(row).position = row.position /\ BF!FormOf(row).mass = row.mass
      /\ BF!FormOf(row).states = row.states
  BY DEF BF!FormOf
<1>6. /\ DOMAIN ui = {"page", "form", "initial", "section", "locked", "mode", "focus", "unsetting",
                      "touched", "saved", "acts"}
      /\ ui.touched = {} /\ ui.acts = 0 /\ DOMAIN srv = {"row"} /\ srv.row = row
      /\ ui.form = BF!FormOf(row) /\ ui.initial = row
  BY <1>2, <1>3
<1>7. FieldsShape
  BY <1>4, <1>5, <1>6 DEF FieldsShape
<1>8. PlacedAlike
  BY <1>2, <1>4, <1>5, <1>6, BandsPlaced DEF PlacedAlike, WithMass
<1>9. InitialIsRead
  BY <1>4, <1>6 DEF InitialIsRead
<1>10. StatesTyped
  <2>1. ui.form.states = [c \in BF!Codes |-> BF!Unset]
    BY <1>4, <1>5, <1>6
  <2>2. DOMAIN BF!Unset = {"start", "end"} /\ BF!Unset.start \in Numbers /\ BF!Unset.end \in Numbers
    BY DEF BF!Unset, BF!None, None, Numbers
  <2>3. QED
    BY <1>6, <2>1, <2>2 DEF StatesTyped
<1>11. QED
  BY <1>7, <1>8, <1>9, <1>10 DEF FieldsParts

LEMMA FieldsInductive == FieldsInv /\ [NextForms]_vars => FieldsInv'
<1> SUFFICES ASSUME FieldsInv, [NextForms]_vars PROVE FieldsInv'
  OBVIOUS
<1>1. CASE ui.page = "basic_fields" /\ BF!Next
  BY <1>1, FieldsStep DEF FieldsInv
<1>2. CASE ui.page # "basic_fields" /\ ui'.page = ui.page
  BY <1>2 DEF FieldsInv
<1>3. CASE UNCHANGED vars
  BY <1>3 DEF FieldsInv, FieldsParts, FieldsShape, PlacedAlike, InitialIsRead, StatesTyped, WithMass, Placed, vars
<1>4. QED
  BY <1>1, <1>2, <1>3 DEF NextForms, Stays

\* The row has a mass exactly when it has a band, and the band is that of the mass, also when an update
\* without the key writes the mass alone and when another tab moved the row; a percentage of one decimal
\* stands for one mass only (position.ts, startPosition.ts, useUpdateCombo.ts).
THEOREM BandAndMassAgree == SpecForms => []MassAgrees
<1>1. InitForms => FieldsInv
  BY FieldsInit DEF InitForms, FieldsInv, NG!On, CE!On, BF!On, RE!On, SE!On, SI!On
<1>2. FieldsInv => MassAgrees
  <2> SUFFICES ASSUME FieldsInv PROVE MassAgrees
    OBVIOUS
  <2>1. BF!BandOfMass
    <3>1. SUFFICES ASSUME ui.page = "basic_fields"
                   PROVE  IF srv.row.position = "" THEN srv.row.mass = None
                          ELSE srv.row.mass # None /\ BF!PositionFromMass(The(srv.row.mass)) = srv.row.position
      BY DEF BF!BandOfMass, BF!On, BF!None, None, BF!The, The
    <3>2. WithMass(srv.row.position, srv.row.mass)
      BY <3>1 DEF FieldsInv, FieldsParts, PlacedAlike
    <3>3. QED
      BY <3>2 DEF WithMass, Placed
  <2>2. BF!PercentKeepsMass
    BY PercentOfMass DEF BF!PercentKeepsMass, Masses
  <2>3. QED
    BY <2>1, <2>2 DEF MassAgrees, BF!MassAgrees
<1>3. QED
  BY <1>1, <1>2, FieldsInductive, PTL DEF SpecForms

LEMMA StateLimits ==
  ASSUME NEW c \in BF!Codes
  PROVE  /\ BF!StateDefs[c].min \in Int /\ BF!StateDefs[c].max \in Int
         /\ BF!StateDefs[c].min <= BF!StateDefs[c].max
BY DEF BF!Codes, BF!StateDefs

\* A value is held within its limits, and once it is, it stays.
LEMMA HeldOnce ==
  ASSUME NEW c \in BF!Codes, NEW opt \in Numbers
  PROVE  BF!OrMin(BF!Some(BF!OrMin(opt, c)), c) = BF!OrMin(opt, c)
<1> DEFINE low == BF!StateDefs[c].min
           high == BF!StateDefs[c].max
<1>1. low \in Int /\ high \in Int /\ low <= high
  BY StateLimits
<1> HIDE DEF low, high
<1>2. BF!OrMin(opt, c) \in Int /\ low <= BF!OrMin(opt, c) /\ BF!OrMin(opt, c) <= high
  <2>1. CASE opt = None
    BY <1>1, <2>1 DEF BF!OrMin, BF!None, None, low
  <2>2. CASE opt # None
    <3>1. PICK n \in Int : opt = <<n>>
      BY <2>2 DEF Numbers
    <3>2. BF!OrMin(opt, c) = BF!Clamped(n, low, high)
      BY <3>1 DEF BF!OrMin, BF!None, BF!The, low, high
    <3>3. QED
      BY <1>1, <3>2 DEF BF!Clamped
  <2>3. QED
    BY <2>1, <2>2
<1>3. ASSUME NEW n \in Int, low <= n, n <= high PROVE BF!OrMin(BF!Some(n), c) = n
  <2>1. BF!OrMin(BF!Some(n), c) = BF!Clamped(n, low, high)
    BY DEF BF!OrMin, BF!None, BF!Some, BF!The, low, high
  <2>2. QED
    BY <1>1, <1>3, <2>1 DEF BF!Clamped
<1>4. QED
  BY <1>2, <1>3

\* What is sent of a state says the same as its controls.
LEMMA StateSent ==
  ASSUME FieldsParts, NEW c \in ui.touched
  PROVE  LET m == BF!NormalizeIntValue(BF!BuildSituation(ui.form.states)[c], c)
         IN  BF!ShownState(ui.form.states[c], c) = IF BF!StateDefs[c].single THEN <<m.start>> ELSE <<m.start, m.end>>
<1> DEFINE v == ui.form.states[c]
           a == BF!OrMin(v.start, c)
           b == BF!OrMin(v.end, c)
           min == BF!StateDefs[c].min
           single == BF!StateDefs[c].single
           n == BF!NormalizeIntValue(v, c)
           sent == BF!BuildSituation(ui.form.states)[c]
           m == BF!NormalizeIntValue(sent, c)
<1>1. c \in BF!Codes /\ v.start \in Numbers /\ v.end \in Numbers /\ (single => v.start = v.end)
  BY DEF FieldsParts, StatesTyped
<1>2. BF!OrMin(BF!Some(a), c) = a /\ BF!OrMin(BF!Some(b), c) = b /\ (single => a = b)
  BY <1>1, HeldOnce
<1>3. n.start = a /\ n.end = b
  BY <1>2 DEF BF!NormalizeIntValue
<1>4. sent = IF BF!IsDefault(n, c) THEN BF!Unset ELSE [start |-> BF!Some(n.start), end |-> BF!Some(n.end)]
  BY <1>1 DEF BF!BuildSituation
<1>5. BF!IsDefault(n, c) <=> a = min /\ b = min
  BY <1>3 DEF BF!IsDefault
<1>6. BF!ShownState(v, c) = IF single THEN <<b>> ELSE <<a, b>>
  BY DEF BF!ShownState
<1>7. BF!OrMin(sent.start, c) = a /\ BF!OrMin(sent.end, c) = b
  <2>1. CASE BF!IsDefault(n, c)
    <3>1. sent.start = BF!None /\ sent.end = BF!None
      BY <1>4, <2>1 DEF BF!Unset
    <3>2. BF!OrMin(BF!None, c) = min
      BY DEF BF!OrMin
    <3> HIDE DEF sent, a, b
    <3>3. QED
      BY <1>5, <2>1, <3>1, <3>2
  <2>2. CASE ~BF!IsDefault(n, c)
    <3>1. sent.start = BF!Some(a) /\ sent.end = BF!Some(b)
      BY <1>3, <1>4, <2>2
    <3> HIDE DEF sent, a, b
    <3>2. QED
      BY <1>2, <3>1
  <2>3. QED
    BY <2>1, <2>2
<1>8. m.start = a /\ m.end = b
  <2> HIDE DEF sent, a, b
  <2>1. QED
    BY <1>2, <1>7 DEF BF!NormalizeIntValue
<1> HIDE DEF m, a, b, single, v
<1>9. BF!ShownState(v, c) = IF single THEN <<m.start>> ELSE <<m.start, m.end>>
  BY <1>2, <1>6, <1>8
<1>10. QED
  BY <1>9 DEF m, single, v, sent

\* Only a save of the form is a doing of the user that writes the row.
LEMMA FieldsRowWrites ==
  ASSUME FieldsParts, BF!Next, srv'.row.version > srv.row.version, ui'.acts > ui.acts PROVE BF!Save
<1>1. ui.acts \in Nat /\ srv.row.version \in Nat
  BY DEF FieldsParts, FieldsShape
<1>2. srv' # srv /\ ui' # ui
  BY <1>1
<1>3. QED
  BY <1>2 DEF BF!Next, BF!Sets, BF!Serves, BF!Changes, BF!SetState, BF!FillStartPositionMassOnBlur,
     BF!RequestOkiVerifiedChange, BF!Refetched, BF!UnsetOkiVerified, BF!SetPositionMode, BF!SetPositionBand,
     BF!OtherSaves, BF!SetStartPositionMass, BF!SetStartPositionPercent, BF!SetGauge, BF!SetChoice,
     BF!SetCarryDistance, BF!SetSingle, BF!SetPair, BF!ToggleOki, BF!HandleMyComboStatusChange, BF!ToggleTag

\* A state that was touched is saved as its controls show it, clamped to its range: only a save of the
\* form writes the row, and it sends both ends of whatever says something (startStateFields.tsx).
THEOREM TouchedStatesAreSaved == SpecForms => StatesSavedAsShown
<1>1. InitForms => FieldsInv
  BY FieldsInit DEF InitForms, FieldsInv, NG!On, CE!On, BF!On, RE!On, SE!On, SI!On
<1>2. ASSUME FieldsInv, [NextForms]_vars
      PROVE  [BF!On /\ srv'.row.version > srv.row.version /\ ui'.saved /\ ui'.acts > ui.acts =>
                \A c \in ui.touched :
                  BF!ShownState(ui.form.states[c], c) =
                    (LET n == BF!NormalizeIntValue(srv'.row.states[c], c)
                     IN  IF BF!StateDefs[c].single THEN <<n.start>> ELSE <<n.start, n.end>>)]_BF!vars
  <2> SUFFICES ASSUME ui.page = "basic_fields", FieldsParts, BF!Next,
                      srv'.row.version > srv.row.version, ui'.acts > ui.acts, NEW c \in ui.touched
               PROVE  BF!ShownState(ui.form.states[c], c) =
                        (LET n == BF!NormalizeIntValue(srv'.row.states[c], c)
                         IN  IF BF!StateDefs[c].single THEN <<n.start>> ELSE <<n.start, n.end>>)
    BY <1>2 DEF FieldsInv, BF!On, vars, BF!vars, NextForms
  <2>1. srv'.row.states = BF!BuildSituation(ui.form.states)
    BY FieldsRowWrites, SavedPlace
  <2>2. QED
    BY <2>1, StateSent
<1>3. QED
  BY <1>1, <1>2, FieldsInductive, PTL DEF SpecForms, StatesSavedAsShown, BF!StatesSavedAsShown

-----------------------------------------------------------------------------
(* Entering a recipe.  First what the words of a code say.                 *)
StrengthNames == {"od", "light", "medium", "heavy"}

LEMMA NamesOfStrengths == RE!Range(RE!Strengths) = StrengthNames
BY DEF RE!Range, RE!Strengths, StrengthNames

LEMMA LeastOfFew == ASSUME NEW S, S \subseteq 1 .. 4, S # {} PROVE RE!Min(S) \in S
<1>1. \E x \in S : \A y \in S : x <= y
  <2>1. CASE 1 \in S
    BY <2>1
  <2>2. CASE 1 \notin S /\ 2 \in S
    BY <2>2
  <2>3. CASE 1 \notin S /\ 2 \notin S /\ 3 \in S
    BY <2>3
  <2>4. CASE 1 \notin S /\ 2 \notin S /\ 3 \notin S
    <3>1. PICK x \in S : TRUE
      OBVIOUS
    <3>2. \A y \in S : y = 4
      BY <2>4
    <3>3. QED
      BY <3>1, <3>2
  <2>5. QED
    BY <2>1, <2>2, <2>3, <2>4
<1>2. QED
  BY <1>1 DEF RE!Min

\* Every code has a strength or none, and the strength is one of its words.
LEMMA StrengthIsWord ==
  ASSUME NEW code \in Seq(STRING) \ {<< >>}
  PROVE  /\ RE!ParseSpecialCode(code) = [family |-> RE!ParseSpecialCode(code).family,
                                         strength |-> RE!ParseSpecialCode(code).strength]
         /\ RE!ParseSpecialCode(code).strength \in StrengthNames \union {"none"}
         /\ RE!ParseSpecialCode(code).strength = "od" => "od" \in RE!Range(code)
<1> DEFINE named == {n \in DOMAIN RE!Strengths : RE!Strengths[n] \in RE!Range(code)}
<1>1. RE!Last(code) \in RE!Range(code)
  BY DEF RE!Last, RE!Range
<1>2. ASSUME named # {}
      PROVE  RE!Strengths[RE!Min(named)] \in StrengthNames \cap RE!Range(code)
  <2>1. DOMAIN RE!Strengths = 1 .. 4
    BY DEF RE!Strengths
  <2>2. RE!Min(named) \in named
    BY <1>2, <2>1, LeastOfFew
  <2>3. QED
    BY <2>2, NamesOfStrengths DEF RE!Range
<1> HIDE DEF named
<1>3. CASE RE!Last(code) \in RE!Range(RE!Strengths)
  BY <1>1, <1>3, NamesOfStrengths DEF RE!ParseSpecialCode
<1>4. CASE RE!Last(code) \notin RE!Range(RE!Strengths) /\ named # {}
  BY <1>2, <1>4 DEF RE!ParseSpecialCode, named
<1>5. CASE RE!Last(code) \notin RE!Range(RE!Strengths) /\ named = {}
  BY <1>5 DEF RE!ParseSpecialCode, named
<1>6. QED
  BY <1>3, <1>4, <1>5

\* A family is its base with the ending of its variant.
LEMMA FamilyIsSplit ==
  ASSUME NEW families, NEW family \in families
  PROVE  /\ RE!SplitSpecialVariant(family, families).base \in families
         /\ \/ /\ RE!SplitSpecialVariant(family, families).variant = RE!Simple
               /\ RE!SplitSpecialVariant(family, families).base = family
            \/ /\ RE!SplitSpecialVariant(family, families).variant # RE!Simple
               /\ RE!SplitSpecialVariant(family, families).base
                    \o RE!SplitSpecialVariant(family, families).variant = family
               /\ \E n \in DOMAIN RE!VariantSuffixes :
                    RE!SplitSpecialVariant(family, families).variant = RE!VariantSuffixes[n]
<1> DEFINE fits   == {n \in DOMAIN RE!VariantSuffixes : \E b \in families : b \o RE!VariantSuffixes[n] = family}
           n      == RE!Min(fits)
           suffix == RE!VariantSuffixes[n]
           base   == CHOOSE b \in families : b \o suffix = family
<1>1. CASE fits = {}
  BY <1>1 DEF RE!SplitSpecialVariant
<1>2. CASE fits # {}
  <2>1. DOMAIN RE!VariantSuffixes = 1 .. 3
    BY DEF RE!VariantSuffixes
  <2>2. n \in fits
    <3>1. fits \subseteq 1 .. 4
      BY <2>1
    <3> HIDE DEF fits
    <3>2. QED
      BY <1>2, <3>1, LeastOfFew
  <2>3. suffix # RE!Simple
    BY <2>1, <2>2 DEF RE!VariantSuffixes, RE!Simple
  <2>4. base \in families /\ base \o suffix = family
    BY <2>2
  <2>5. RE!SplitSpecialVariant(family, families) = [base |-> base, variant |-> suffix]
    BY <1>2 DEF RE!SplitSpecialVariant
  <2> HIDE DEF fits, n, suffix, base
  <2>6. n \in DOMAIN RE!VariantSuffixes /\ suffix = RE!VariantSuffixes[n]
    BY <2>2 DEF fits, suffix
  <2>7. /\ RE!SplitSpecialVariant(family, families).base = base
        /\ RE!SplitSpecialVariant(family, families).variant = suffix
    BY <2>5
  <2>8. QED
    BY <2>3, <2>4, <2>6, <2>7
<1>3. QED
  BY <1>1, <1>2

-----------------------------------------------------------------------------
(* The families of a list of moves.                                        *)
LEMMA DerivedAt ==
  ASSUME NEW u, RE!IsRoster(u), NEW i \in RE!Specials(u)
  PROVE  LET d == RE!DeriveSpecialFamilies(u)
             s == RE!SplitSpecialVariant(RE!Parsed(u)[i].family, RE!Families(u))
         IN  /\ DOMAIN d = RE!Specials(u)
             /\ d[i].base = s.base /\ d[i].variant = s.variant
             /\ d[i].strength = RE!Parsed(u)[i].strength /\ d[i].move = u.moves[i]
             /\ RE!Parsed(u)[i] = RE!ParseSpecialCode(u.moves[i].code)
             /\ RE!Parsed(u)[i].family \in RE!Families(u)
             /\ u.moves[i].code \in Seq(STRING) \ {<< >>}
<1>1. u.moves[i].code \in Seq(STRING) \ {<< >>}
  <2> DEFINE rows == [code : Seq(STRING) \ {<< >>}, category : STRING, setupOnly : BOOLEAN, derived : BOOLEAN]
  <2>1. i \in DOMAIN u.moves /\ u.moves \in Seq(rows)
    BY DEF RE!Specials, RE!IsRoster
  <2>2. u.moves[i] \in rows
    <3> HIDE DEF rows
    <3>1. QED
      BY <2>1
  <2>3. QED
    BY <2>2
<1>2. RE!Parsed(u)[i] = RE!ParseSpecialCode(u.moves[i].code)
  BY DEF RE!Parsed
<1>3. RE!Parsed(u)[i].family \in RE!Families(u)
  BY DEF RE!Families
<1>4. QED
  BY <1>1, <1>2, <1>3 DEF RE!DeriveSpecialFamilies

\* Base, variant and strength name one move.
LEMMA OneMoveEach ==
  ASSUME NEW u, RE!IsRoster(u), NEW i \in RE!Specials(u), NEW j \in RE!Specials(u),
         RE!DeriveSpecialFamilies(u)[i].base = RE!DeriveSpecialFamilies(u)[j].base,
         RE!DeriveSpecialFamilies(u)[i].variant = RE!DeriveSpecialFamilies(u)[j].variant,
         RE!DeriveSpecialFamilies(u)[i].strength = RE!DeriveSpecialFamilies(u)[j].strength
  PROVE  i = j
<1> DEFINE fam(k) == RE!Parsed(u)[k].family
           split(k) == RE!SplitSpecialVariant(fam(k), RE!Families(u))
<1>1. split(i).base = split(j).base /\ split(i).variant = split(j).variant
  BY DerivedAt
<1>2. fam(i) = fam(j)
  <2>1. fam(i) \in RE!Families(u) /\ fam(j) \in RE!Families(u)
    BY DerivedAt
  <2> HIDE DEF fam
  <2>2. CASE split(i).variant = RE!Simple
    <3>1. split(i).base = fam(i)
      BY <2>1, <2>2, FamilyIsSplit
    <3>2. split(j).base = fam(j)
      BY <1>1, <2>1, <2>2, FamilyIsSplit
    <3>3. QED
      BY <1>1, <3>1, <3>2
  <2>3. CASE split(i).variant # RE!Simple
    <3>1. split(i).base \o split(i).variant = fam(i)
      BY <2>1, <2>3, FamilyIsSplit
    <3>2. split(j).base \o split(j).variant = fam(j)
      BY <1>1, <2>1, <2>3, FamilyIsSplit
    <3>3. QED
      BY <1>1, <3>1, <3>2
  <2>4. QED
    BY <2>2, <2>3
<1>3. RE!Parsed(u)[i].strength = RE!Parsed(u)[j].strength
  BY DerivedAt
<1>4. RE!Parsed(u)[i] = RE!Parsed(u)[j]
  <2>1. RE!Parsed(u)[i] = [family |-> RE!Parsed(u)[i].family, strength |-> RE!Parsed(u)[i].strength]
    BY DerivedAt, StrengthIsWord
  <2>2. RE!Parsed(u)[j] = [family |-> RE!Parsed(u)[j].family, strength |-> RE!Parsed(u)[j].strength]
    BY DerivedAt, StrengthIsWord
  <2>3. QED
    BY <2>1, <2>2, <1>2, <1>3
<1>5. QED
  BY <1>4 DEF RE!IsRoster

\* The base of a variant is there itself.
LEMMA BaseIsThere ==
  ASSUME NEW u, RE!IsRoster(u), NEW i \in RE!Specials(u)
  PROVE  \E j \in RE!Specials(u) :
           /\ RE!DeriveSpecialFamilies(u)[j].base = RE!DeriveSpecialFamilies(u)[i].base
           /\ RE!DeriveSpecialFamilies(u)[j].variant = RE!Simple
<1> DEFINE d == RE!DeriveSpecialFamilies(u)
           fams == RE!Families(u)
           fam == RE!Parsed(u)[i].family
           split == RE!SplitSpecialVariant(fam, fams)
<1>1. fam \in fams /\ d[i].base = split.base /\ d[i].variant = split.variant
  BY DerivedAt
<1>2. CASE split.variant = RE!Simple
  BY <1>1, <1>2
<1>3. CASE split.variant # RE!Simple
  <2> HIDE DEF fam, fams
  <2>1. PICK n \in DOMAIN RE!VariantSuffixes : split.base \o RE!VariantSuffixes[n] = fam
    BY <1>1, <1>3, FamilyIsSplit
  <2>2. split.base \in fams
    BY <1>1, FamilyIsSplit
  <2>3. PICK j \in RE!Specials(u) : RE!Parsed(u)[j].family = split.base
    BY <2>2 DEF fams, RE!Families
  <2>4. RE!SplitSpecialVariant(split.base, fams).variant = RE!Simple
    BY <1>1, <2>1, <2>2 DEF RE!IsRoster, fams
  <2>5. RE!SplitSpecialVariant(split.base, fams).base = split.base
    BY <2>2, <2>4, FamilyIsSplit
  <2>6. d[j].base = split.base /\ d[j].variant = RE!Simple
    BY <2>3, <2>4, <2>5, DerivedAt DEF fams
  <2>7. QED
    BY <2>6, <1>1
<1>4. QED
  BY <1>2, <1>3

\* Behind its family and its variant, both offered, a special move has a button.
LEMMA SpecialHasButton ==
  ASSUME NEW u, RE!IsRoster(u), NEW i \in RE!Specials(u)
  PROVE  LET d == RE!DeriveSpecialFamilies(u)
         IN  /\ d[i].base \in RE!Bases(d)
             /\ d[i].variant \in RE!VariantButtons(d, d[i].base) \union {RE!Simple}
             /\ \E b \in RE!SpecialButtons(d, d[i].base, d[i].variant) : b.move = u.moves[i]
<1> DEFINE d == RE!DeriveSpecialFamilies(u)
           base == d[i].base
           variant == d[i].variant
<1>1. DOMAIN d = RE!Specials(u) /\ d[i].move = u.moves[i]
  BY DerivedAt
<1>2. base \in RE!Bases(d)
  BY <1>1 DEF RE!Bases
<1>3. variant \in RE!Variants(d, base)
  BY <1>1 DEF RE!Variants
<1>4. RE!Simple \in RE!Variants(d, base)
  <2>1. PICK j \in RE!Specials(u) : d[j].base = base /\ d[j].variant = RE!Simple
    BY BaseIsThere
  <2>2. QED
    BY <2>1, <1>1 DEF RE!Variants
<1>5. variant \in RE!VariantButtons(d, base) \union {RE!Simple}
  BY <1>3, <1>4 DEF RE!VariantButtons
<1>6. d[i].strength \in RE!Range(RE!Strengths) \union {"none"}
  BY DerivedAt, StrengthIsWord, NamesOfStrengths
<1>7. [move |-> u.moves[i], flags |-> {}] \in RE!SpecialButtons(d, base, variant)
  <2> DEFINE shown == IF variant \in RE!Variants(d, base) THEN variant ELSE RE!Simple
             of(s) == {k \in DOMAIN d : d[k].base = base /\ d[k].variant = shown /\ d[k].strength = s}
             button(s, flags) == {[move |-> d[k].move, flags |-> flags] :
                                    k \in {j \in of(s) : \A k \in of(s) : k <= j}}
             names == RE!Range(RE!Strengths) \union {"none"}
  <2>0. shown = variant
    BY <1>3
  <2> HIDE DEF shown
  <2>1. \A k \in of(d[i].strength) : k = i
    BY <1>1, <2>0, OneMoveEach
  <2>2. i \in of(d[i].strength) /\ i \in Int
    BY <1>1, <2>0 DEF RE!Specials, RE!IsRoster
  <2>3. [move |-> u.moves[i], flags |-> {}] \in button(d[i].strength, {})
    <3>1. i \in {j \in of(d[i].strength) : \A k \in of(d[i].strength) : k <= j}
      BY <2>1, <2>2
    <3> HIDE DEF of
    <3>2. QED
      BY <3>1, <1>1
  <2>4. RE!SpecialButtons(d, base, variant) =
          (UNION {button(s, {}) : s \in names}) \union (UNION {button("od", {f}) : f \in OdFlags})
    <3> HIDE DEF d, base, variant
    <3>1. QED
      BY DEF RE!SpecialButtons, shown
  <2> HIDE DEF button, names
  <2>5. QED
    BY <2>3, <2>4, <1>6 DEF names
<1>8. QED
  BY <1>2, <1>5, <1>7

-----------------------------------------------------------------------------
(* The buttons of the tabs.                                                *)
LEMMA SameList ==
  ASSUME NEW u, NEW v, v.moves = u.moves, v.context = u.context
  PROVE  RE!InputMoves(v) = RE!InputMoves(u) /\ RE!DeriveSpecialFamilies(v) = RE!DeriveSpecialFamilies(u)
<1>1. RE!InputMoves(v) = RE!InputMoves(u)
  BY DEF RE!InputMoves
<1>2. RE!Specials(v) = RE!Specials(u)
  BY <1>1 DEF RE!Specials
<1>3. RE!Parsed(v) = RE!Parsed(u)
  BY <1>2 DEF RE!Parsed
<1>4. RE!Families(v) = RE!Families(u)
  BY <1>2, <1>3 DEF RE!Families
<1>5. RE!DeriveSpecialFamilies(v) = RE!DeriveSpecialFamilies(u)
  BY <1>2, <1>3, <1>4 DEF RE!DeriveSpecialFamilies
<1>6. QED
  BY <1>1, <1>5

\* The keys of the direction, with and without rush, are buttons.
LEMMA ButtonOfKey ==
  ASSUME NEW v, NEW k \in RE!Keys, k[1] = v.direction,
         NEW m \in IF v.rush THEN RE!ResolveDirectionalRushInput(RE!InputMoves(v), v.entries, k)
                   ELSE RE!ResolveDirectionalInput(RE!InputMoves(v), v.entries, k)
  PROVE  [move |-> m, flags |-> {}] \in RE!Buttons(v)
<1> DEFINE hit == {v.direction} \X {"light", "medium", "heavy"} \X {"punch", "kick"}
           keyed == UNION {IF v.rush THEN RE!ResolveDirectionalRushInput(RE!InputMoves(v), v.entries, l)
                           ELSE RE!ResolveDirectionalInput(RE!InputMoves(v), v.entries, l) : l \in hit}
<1>1. k \in hit
  BY DEF RE!Keys
<1>2. m \in keyed
  BY <1>1
<1> HIDE DEF hit
<1>3. [move |-> m, flags |-> {}] \in RE!Plain(keyed)
  BY <1>2 DEF RE!Plain
<1>4. RE!Plain(keyed) \subseteq RE!Buttons(v)
  BY DEF RE!Buttons, hit
<1>5. QED
  BY <1>3, <1>4

LEMMA ButtonOfUnique ==
  ASSUME NEW v,
         NEW m \in IF v.rush /\ RE!HasUniqueRushVariant(RE!InputMoves(v))
                   THEN RE!RushOf(RE!InputMoves(v), {n \in RE!InputMoves(v) : n.category = "unique"})
                   ELSE {n \in RE!InputMoves(v) : n.category = "unique"}
  PROVE  [move |-> m, flags |-> {}] \in RE!Buttons(v)
BY DEF RE!Buttons, RE!Plain

LEMMA ButtonOfRest ==
  ASSUME NEW v, NEW m \in RE!InputMoves(v),
         \/ m.category = "target_combo" \/ RE!IsOnSuperArtTab(m) \/ m.code \in RE!CommonCodes
         \/ RE!IsOnCharacterStateTab(m, v.words)
         \/ m \notin RE!Surfaced(RE!InputMoves(v), v.entries, v.words)
  PROVE  [move |-> m, flags |-> {}] \in RE!Buttons(v)
<1>1. CASE m \notin RE!Surfaced(RE!InputMoves(v), v.entries, v.words)
  BY <1>1 DEF RE!Buttons, RE!Plain
<1>2. CASE \/ m.category = "target_combo" \/ RE!IsOnSuperArtTab(m) \/ m.code \in RE!CommonCodes
           \/ RE!IsOnCharacterStateTab(m, v.words)
  BY <1>2 DEF RE!Buttons, RE!Plain
<1>3. QED
  BY <1>1, <1>2

LEMMA ButtonOfSpecial ==
  ASSUME NEW v, v.family \in RE!Bases(RE!DeriveSpecialFamilies(v)),
         NEW b \in RE!SpecialButtons(RE!DeriveSpecialFamilies(v), v.family, v.variant)
  PROVE  b \in RE!Buttons(v)
<1> DEFINE d == RE!DeriveSpecialFamilies(v)
<1>1. DOMAIN d # {}
  BY DEF RE!Bases
<1>2. RE!SelectedFamily(v, d) = v.family
  BY DEF RE!SelectedFamily
<1> HIDE DEF d
<1>3. RE!SpecialButtons(d, RE!SelectedFamily(v, d), v.variant) \subseteq RE!Buttons(v)
  BY <1>1 DEF RE!Buttons, d
<1>4. QED
  BY <1>2, <1>3 DEF d

\* The fields of the page; flags and choices are what the actions below say of them.
RecipeFields == {"page", "context", "moves", "entries", "words", "steps", "direction", "rush", "family", "variant",
                 "omit", "filter", "selected", "flags", "editing", "local", "acts"}

LEMMA LeverClicked ==
  ASSUME NEW d \in 1 .. 9, NEW r \in BOOLEAN, DOMAIN ui = RecipeFields
  PROVE  LET v == RE!Turned(ui, d, r)
         IN  /\ v \in RE!Clicked(ui)
             /\ v.direction = d /\ v.rush = r /\ v.entries = ui.entries /\ v.words = ui.words
             /\ RE!InputMoves(v) = RE!InputMoves(ui)
<1> DEFINE v == RE!Turned(ui, d, r)
<1>1. v \in RE!Clicked(ui)
  BY DEF RE!Clicked
<1>2. /\ v.direction = d /\ v.rush = r /\ v.entries = ui.entries /\ v.words = ui.words
      /\ v.moves = ui.moves /\ v.context = ui.context
  BY DEF RecipeFields, RE!Turned, RE!Chosen
<1> HIDE DEF v
<1>3. RE!InputMoves(v) = RE!InputMoves(ui)
  BY <1>2, SameList
<1>4. QED
  BY <1>1, <1>2, <1>3 DEF v

LEMMA ChoiceClicked ==
  ASSUME DOMAIN ui = RecipeFields,
         NEW b \in RE!Bases(RE!DeriveSpecialFamilies(ui)),
         NEW x \in RE!VariantButtons(RE!DeriveSpecialFamilies(ui), b) \union {RE!Simple}
  PROVE  LET v == RE!Chosen(ui, b, x)
         IN  /\ v \in RE!Clicked(ui) /\ v.family = b /\ v.variant = x
             /\ RE!DeriveSpecialFamilies(v) = RE!DeriveSpecialFamilies(ui)
<1> DEFINE v == RE!Chosen(ui, b, x)
<1>1. v \in RE!Clicked(ui)
  BY DEF RE!Clicked
<1>2. v.family = b /\ v.variant = x /\ v.moves = ui.moves /\ v.context = ui.context
  BY DEF RecipeFields, RE!Turned, RE!Chosen
<1> HIDE DEF v
<1>3. RE!DeriveSpecialFamilies(v) = RE!DeriveSpecialFamilies(ui)
  BY <1>2, SameList
<1>4. QED
  BY <1>1, <1>2, <1>3 DEF v

\* Every move that may be entered has its button, whatever the user has done.
LEMMA MoveHasButton ==
  ASSUME DOMAIN ui = RecipeFields, RE!IsRoster(ui)
  PROVE  RE!AllEntered
<1> DEFINE derived  == RE!DeriveSpecialFamilies(ui)
           Lever(d, r) == RE!Turned(ui, d, r)
           M == RE!InputMoves(ui)
           Reached(m) == \E u \in RE!Clicked(ui) : \E b \in RE!Buttons(u) : b.move = m
<1>1. ASSUME NEW d \in 1 .. 9, NEW r \in BOOLEAN, NEW m,
             [move |-> m, flags |-> {}] \in RE!Buttons(Lever(d, r))
      PROVE  Reached(m)
  <2>1. Lever(d, r) \in RE!Clicked(ui)
    BY LeverClicked
  <2> HIDE DEF Lever
  <2>2. QED
    BY <1>1, <2>1
<1>2. ASSUME NEW d \in 1 .. 9, NEW r \in BOOLEAN
      PROVE  /\ Lever(d, r).direction = d /\ Lever(d, r).rush = r
             /\ Lever(d, r).entries = ui.entries /\ Lever(d, r).words = ui.words
             /\ RE!InputMoves(Lever(d, r)) = M
  BY LeverClicked
<1>3. ASSUME NEW m \in M, m.category = "special" PROVE Reached(m)
  <2>1. PICK i \in DOMAIN ui.moves : ui.moves[i] = m
    BY DEF RE!InputMoves, RE!Range
  <2>2. i \in RE!Specials(ui)
    BY <1>3, <2>1 DEF RE!Specials
  <2> DEFINE base == derived[i].base
             variant == derived[i].variant
             v == RE!Chosen(ui, base, variant)
  <2>3. /\ base \in RE!Bases(derived) /\ variant \in RE!VariantButtons(derived, base) \union {RE!Simple}
        /\ \E b \in RE!SpecialButtons(derived, base, variant) : b.move = m
    BY <2>1, <2>2, SpecialHasButton
  <2> HIDE DEF base, variant
  <2>4. v \in RE!Clicked(ui) /\ v.family = base /\ v.variant = variant /\ RE!DeriveSpecialFamilies(v) = derived
    BY <2>3, ChoiceClicked
  <2> HIDE DEF v, derived
  <2>5. PICK b \in RE!SpecialButtons(derived, base, variant) : b.move = m
    BY <2>3
  <2>6. b \in RE!Buttons(v)
    BY <2>3, <2>4, <2>5, ButtonOfSpecial
  <2>7. QED
    BY <2>4, <2>5, <2>6
<1>0. 5 \in 1 .. 9 /\ FALSE \in BOOLEAN /\ TRUE \in BOOLEAN
  OBVIOUS
<1>9. /\ ~Lever(5, FALSE).rush /\ Lever(5, FALSE).entries = ui.entries /\ Lever(5, FALSE).words = ui.words
      /\ RE!InputMoves(Lever(5, FALSE)) = M
  BY LeverClicked, <1>0
<1>10. Lever(5, TRUE).rush /\ RE!InputMoves(Lever(5, TRUE)) = M
  BY LeverClicked, <1>0
<1> HIDE DEF derived, Lever, M
<1>4. ASSUME NEW m \in M, NEW k \in RE!Keys,
             NEW r \in BOOLEAN,
             m \in IF r THEN RE!ResolveDirectionalRushInput(M, ui.entries, k)
                   ELSE RE!ResolveDirectionalInput(M, ui.entries, k)
      PROVE  Reached(m)
  <2>1. k[1] \in 1 .. 9
    BY DEF RE!Keys
  <2>2. [move |-> m, flags |-> {}] \in RE!Buttons(Lever(k[1], r))
    BY <1>2, <1>4, <2>1, ButtonOfKey
  <2>3. QED
    BY <1>1, <2>1, <2>2
<1>5. ASSUME NEW m \in M, RE!IsOnUniqueTab(m, M) PROVE Reached(m)
  <2> DEFINE unique == {n \in M : n.category = "unique"}
  <2> HIDE DEF Reached
  <2>1. CASE m \in unique
    <3>1. [move |-> m, flags |-> {}] \in RE!Buttons(Lever(5, FALSE))
      BY <1>9, <2>1, ButtonOfUnique
    <3>2. QED
      BY <1>1, <1>0, <3>1
  <2>2. CASE m \in RE!RushOf(M, unique)
    <3>1. RE!HasUniqueRushVariant(M)
      BY <2>2 DEF RE!HasUniqueRushVariant
    <3>2. [move |-> m, flags |-> {}] \in RE!Buttons(Lever(5, TRUE))
      BY <1>10, <2>2, <3>1, ButtonOfUnique
    <3>3. QED
      BY <1>1, <1>0, <3>2
  <2>3. QED
    BY <1>5, <2>1, <2>2 DEF RE!IsOnUniqueTab
<1>6. ASSUME NEW m \in M,
             \/ m.category = "target_combo" \/ RE!IsOnSuperArtTab(m) \/ m.code \in RE!CommonCodes
             \/ RE!IsOnCharacterStateTab(m, ui.words)
             \/ m \notin RE!Surfaced(M, ui.entries, ui.words)
      PROVE  Reached(m)
  <2>1. [move |-> m, flags |-> {}] \in RE!Buttons(Lever(5, FALSE))
    BY <1>9, <1>6, ButtonOfRest
  <2> HIDE DEF Reached
  <2>2. QED
    BY <1>1, <1>0, <2>1
<1>7. ASSUME NEW m \in M PROVE Reached(m)
  <2>1. CASE m \in RE!NormalTabMoves(M, ui.entries)
    <3>1. PICK k \in RE!Keys : m \in RE!ResolveDirectionalInput(M, ui.entries, k)
                                  \union RE!ResolveDirectionalRushInput(M, ui.entries, k)
      BY <2>1 DEF RE!NormalTabMoves
    <3> HIDE DEF Reached
    <3>2. CASE m \in RE!ResolveDirectionalInput(M, ui.entries, k)
      BY <1>4, <3>2
    <3>3. CASE m \in RE!ResolveDirectionalRushInput(M, ui.entries, k)
      BY <1>4, <3>3
    <3>4. QED
      BY <3>1, <3>2, <3>3
  <2> HIDE DEF Reached
  <2>2. CASE m \notin RE!NormalTabMoves(M, ui.entries)
    BY <1>3, <1>5, <1>6, <2>2 DEF RE!Surfaced
  <2>3. QED
    BY <2>1, <2>2
<1>8. QED
  BY <1>7 DEF RE!AllEntered, M

-----------------------------------------------------------------------------
(* The steps of the recipe.                                                *)
Flags == OdFlags \union PlainFlags

\* What a pair of strengths needs.
Fits(flags, moves) == flags \cap OdFlags # {} => RE!IsOdVariantApplicable(moves)

\* The steps that say of their move what it has.
TrueSteps(moves) ==
  {s \in [code : Seq(STRING), flags : SUBSET Flags] : Fits(s.flags, RE!Coded(RE!Range(moves), s.code))}

OfCatalogue == \E face \in Catalogues : ui.context = face[1] /\ ui.moves = face[2]

\* The dialog is of a step and its ticks fit it; nothing else changes the steps meanwhile.
TrueDialog ==
  \/ ui.editing = None
  \/ /\ ui.editing # None /\ The(ui.editing) \in DOMAIN ui.steps /\ ui.local \subseteq Flags
     /\ Fits(ui.local, RE!MovesOfStep(ui, The(ui.editing)))

RecipeParts ==
  /\ DOMAIN ui = RecipeFields
  /\ OfCatalogue
  /\ ui.steps \in Seq(TrueSteps(ui.moves))
  /\ ui.selected \subseteq RE!Range(ui.moves) \union {RE!NonMove} /\ ui.flags \subseteq Flags
  /\ TrueDialog

RecipeInv == ui.page = "recipe" => RecipeParts

LEMMA ListIsRoster == ASSUME OfCatalogue PROVE RE!IsRoster(ui)
<1>1. PICK face \in Catalogues : ui.context = face[1] /\ ui.moves = face[2]
  BY DEF OfCatalogue
<1> DEFINE v == [context |-> face[1], moves |-> face[2]]
<1>2. RE!IsRoster(v)
  BY RecipeAssumption
<1>3. v.moves = ui.moves /\ v.context = ui.context
  BY <1>1
<1> HIDE DEF v
<1>4. RE!Specials(v) = RE!Specials(ui) /\ RE!Parsed(v) = RE!Parsed(ui) /\ RE!Families(v) = RE!Families(ui)
  <2>1. RE!InputMoves(v) = RE!InputMoves(ui)
    BY <1>3 DEF RE!InputMoves
  <2>2. RE!Specials(v) = RE!Specials(ui)
    BY <1>3, <2>1 DEF RE!Specials
  <2>3. RE!Parsed(v) = RE!Parsed(ui)
    BY <1>3, <2>2 DEF RE!Parsed
  <2>4. RE!Families(v) = RE!Families(ui)
    BY <2>2, <2>3 DEF RE!Families
  <2>5. QED
    BY <2>2, <2>3, <2>4
<1>5. QED
  BY <1>2, <1>3, <1>4 DEF RE!IsRoster

LEMMA CodeOfMove ==
  ASSUME OfCatalogue, NEW m \in RE!Range(ui.moves)
  PROVE  m.code \in Seq(STRING) /\ m \in RE!Coded(RE!Range(ui.moves), m.code)
<1> DEFINE rows == [code : Seq(STRING) \ {<< >>}, category : STRING, setupOnly : BOOLEAN, derived : BOOLEAN]
<1>1. ui.moves \in Seq(rows)
  BY ListIsRoster DEF RE!IsRoster
<1>2. m \in rows
  <2> HIDE DEF rows
  <2>1. QED
    BY <1>1 DEF RE!Range
<1>3. m.code \in Seq(STRING)
  BY <1>2
<1>4. QED
  BY <1>3 DEF RE!Coded

\* A button with a pair of strengths is of a special move with OD.
LEMMA ButtonsAreTrue ==
  ASSUME OfCatalogue, NEW b \in RE!Buttons(ui)
  PROVE  RE!MoveStep(b) \in TrueSteps(ui.moves)
<1> DEFINE derived == RE!DeriveSpecialFamilies(ui)
           M == RE!InputMoves(ui)
           D(v) == RE!SpecialButtons(derived, RE!SelectedFamily(ui, derived), v)
<1>0. RE!IsRoster(ui)
  BY ListIsRoster
<1>1. ASSUME NEW m \in M PROVE m \in RE!Range(ui.moves)
  BY DEF RE!InputMoves
<1>2. ASSUME NEW i \in RE!Specials(ui), derived[i].strength = "od"
      PROVE  RE!IsOdVariantApplicable(RE!Coded(RE!Range(ui.moves), ui.moves[i].code))
  <2>1. ui.moves[i] \in RE!Range(ui.moves) /\ ui.moves[i].category = "special"
    BY DEF RE!Specials, RE!Range
  <2>2. "od" \in RE!Range(ui.moves[i].code)
    BY <1>0, <1>2, DerivedAt, StrengthIsWord
  <2>3. QED
    BY <2>1, <2>2, CodeOfMove DEF RE!IsOdVariantApplicable
<1>3. ASSUME NEW base, NEW variant, b \in RE!SpecialButtons(derived, base, variant)
      PROVE  /\ b.move \in RE!Range(ui.moves) /\ b.flags \subseteq Flags
             /\ Fits(b.flags, RE!Coded(RE!Range(ui.moves), b.move.code))
  <2>1. \/ \E i \in DOMAIN derived : b = [move |-> derived[i].move, flags |-> {}]
        \/ \E i \in DOMAIN derived, f \in OdFlags :
             derived[i].strength = "od" /\ b = [move |-> derived[i].move, flags |-> {f}]
    <3> HIDE DEF derived
    <3>1. QED
      BY <1>3 DEF RE!SpecialButtons
  <2>2. CASE \E i \in DOMAIN derived : b = [move |-> derived[i].move, flags |-> {}]
    <3>1. PICK i \in RE!Specials(ui) : b = [move |-> ui.moves[i], flags |-> {}]
      BY <1>0, <2>2, DerivedAt DEF RE!DeriveSpecialFamilies
    <3>2. ui.moves[i] \in RE!Range(ui.moves)
      BY DEF RE!Specials, RE!Range
    <3>3. QED
      BY <3>1, <3>2 DEF Fits
  <2>3. CASE \E i \in DOMAIN derived, f \in OdFlags :
               derived[i].strength = "od" /\ b = [move |-> derived[i].move, flags |-> {f}]
    <3>1. PICK i \in RE!Specials(ui), f \in OdFlags :
             derived[i].strength = "od" /\ b = [move |-> ui.moves[i], flags |-> {f}]
      BY <1>0, <2>3, DerivedAt DEF RE!DeriveSpecialFamilies
    <3>2. ui.moves[i] \in RE!Range(ui.moves)
      BY DEF RE!Specials, RE!Range
    <3>3. QED
      BY <3>1, <3>2, <1>2 DEF Fits, Flags
  <2>4. QED
    BY <2>1, <2>2, <2>3
<1>4. \/ \E m \in M : b = [move |-> m, flags |-> {}]
      \/ b \in D(ui.variant)
  <2>1. \A k \in RE!Keys : RE!ResolveDirectionalInput(M, ui.entries, k) \subseteq M
    BY DEF RE!ResolveDirectionalInput, RE!Coded
  <2>2. \A base : RE!RushOf(M, base) \subseteq M
    BY DEF RE!RushOf, RE!Coded
  <2> QED
    BY <2>1, <2>2 DEF RE!Buttons, RE!Plain, RE!ResolveDirectionalRushInput, RE!ResolveDirectionalInput, RE!Coded
<1>5. /\ b.move \in RE!Range(ui.moves) /\ b.flags \subseteq Flags
      /\ Fits(b.flags, RE!Coded(RE!Range(ui.moves), b.move.code))
  <2>1. CASE \E m \in M : b = [move |-> m, flags |-> {}]
    BY <2>1, <1>1 DEF Fits
  <2>2. CASE b \in D(ui.variant)
    BY <2>2, <1>3
  <2>3. QED
    BY <1>4, <2>1, <2>2
<1>6. RE!MoveStep(b) = [code |-> b.move.code, flags |-> b.flags]
  BY DEF RE!MoveStep
<1>7. QED
  BY <1>5, <1>6, CodeOfMove DEF TrueSteps

\* What the user or the server does without a step.
RecipeQuiet ==
  /\ DOMAIN ui' = DOMAIN ui /\ ui'.context = ui.context /\ ui'.moves = ui.moves /\ ui'.steps = ui.steps
  /\ ui'.editing = ui.editing /\ ui'.local = ui.local /\ ui'.flags \subseteq Flags
  /\ ui'.selected \subseteq RE!Range(ui.moves) \union {RE!NonMove}

LEMMA RecipeQuietKeeps == ASSUME RecipeParts, RecipeQuiet PROVE RecipeParts'
<1>1. OfCatalogue'
  BY DEF RecipeParts, RecipeQuiet, OfCatalogue
<1>2. TrueDialog'
  BY DEF RecipeParts, RecipeQuiet, TrueDialog, Fits, RE!MovesOfStep
<1>3. QED
  BY <1>1, <1>2 DEF RecipeParts, RecipeQuiet

LEMMA HiddenCleared ==
  ASSUME NEW u, DOMAIN u = RecipeFields, u.selected \subseteq RE!Range(u.moves) \union {RE!NonMove}
  PROVE  LET v == RE!ClearHiddenSelection(u)
         IN  /\ DOMAIN v = RecipeFields /\ v.context = u.context /\ v.moves = u.moves /\ v.steps = u.steps
             /\ v.editing = u.editing /\ v.local = u.local /\ v.flags = u.flags
             /\ v.selected \subseteq RE!Range(u.moves) \union {RE!NonMove}
BY DEF RE!ClearHiddenSelection, RecipeFields

\* Levers, the list beside the controller, the flags of the next step.
RecipeElsewhere ==
  \/ \E d : RE!SetDirection(d)
  \/ RE!HandleRushToggle \/ RE!ChooseFamily \/ RE!ChooseVariant \/ RE!LeaveTab
  \/ RE!SetOmitSurfaced \/ RE!IndexArrives \/ RE!StatesArrive
  \/ \E c : RE!SetFilterCategory(c)
  \/ RE!Select
  \/ \E f \in Flags : RE!ToggleFlag(f)

LEMMA RecipeElsewhereKeeps == ASSUME RecipeParts, RecipeElsewhere PROVE RecipeParts'
<1> USE DEF RE!Does, RE!Sets
<1>0. /\ DOMAIN ui = RecipeFields /\ ui.flags \subseteq Flags
      /\ ui.selected \subseteq RE!Range(ui.moves) \union {RE!NonMove}
  BY DEF RecipeParts
<1>1. ASSUME NEW d, RE!SetDirection(d) PROVE RecipeQuiet
  BY <1>0, <1>1 DEF RecipeQuiet, RecipeFields, RE!SetDirection, RE!Turned
<1>2. CASE RE!HandleRushToggle
  BY <1>0, <1>2, RecipeQuietKeeps DEF RecipeQuiet, RecipeFields, RE!HandleRushToggle, RE!Turned
<1>3. CASE RE!ChooseFamily \/ RE!ChooseVariant \/ RE!LeaveTab
  <2>1. \E b, x : ui' = [RE!Chosen(ui, b, x) EXCEPT !.acts = @ + 1]
    BY <1>3 DEF RE!ChooseFamily, RE!ChooseVariant, RE!LeaveTab
  <2>2. RecipeQuiet
    BY <1>0, <2>1 DEF RecipeQuiet, RecipeFields, RE!Chosen
  <2>3. QED
    BY <2>2, RecipeQuietKeeps
<1>4. ASSUME NEW u, DOMAIN u = RecipeFields, u.context = ui.context, u.moves = ui.moves, u.steps = ui.steps,
             u.editing = ui.editing, u.local = ui.local, u.flags = ui.flags, u.selected = ui.selected,
             ui' = RE!ClearHiddenSelection(u) \/ ui' = [RE!ClearHiddenSelection(u) EXCEPT !.acts = @ + 1]
      PROVE  RecipeParts'
  <2> DEFINE v == RE!ClearHiddenSelection(u)
  <2>1. /\ DOMAIN v = RecipeFields /\ v.context = u.context /\ v.moves = u.moves /\ v.steps = u.steps
        /\ v.editing = u.editing /\ v.local = u.local /\ v.flags = u.flags
        /\ v.selected \subseteq RE!Range(u.moves) \union {RE!NonMove}
    BY <1>0, <1>4, HiddenCleared
  <2> HIDE DEF v
  <2>2. RecipeQuiet
    BY <1>0, <1>4, <2>1 DEF RecipeQuiet, RecipeFields, v
  <2>3. QED
    BY <2>2, RecipeQuietKeeps
<1>5. CASE RE!SetOmitSurfaced
  <2> DEFINE u == [ui EXCEPT !.omit = ~@]
  <2>1. ui' = [RE!ClearHiddenSelection(u) EXCEPT !.acts = @ + 1]
    BY <1>5 DEF RE!SetOmitSurfaced
  <2>2. /\ DOMAIN u = RecipeFields /\ u.context = ui.context /\ u.moves = ui.moves /\ u.steps = ui.steps
        /\ u.editing = ui.editing /\ u.local = ui.local /\ u.flags = ui.flags /\ u.selected = ui.selected
    BY <1>0 DEF RecipeFields
  <2> HIDE DEF u
  <2>3. QED
    BY <1>4, <2>1, <2>2
<1>6. CASE RE!IndexArrives
  <2> DEFINE u == [ui EXCEPT !.entries = EntriesOf]
  <2>1. ui' = RE!ClearHiddenSelection(u)
    BY <1>6 DEF RE!IndexArrives
  <2>2. /\ DOMAIN u = RecipeFields /\ u.context = ui.context /\ u.moves = ui.moves /\ u.steps = ui.steps
        /\ u.editing = ui.editing /\ u.local = ui.local /\ u.flags = ui.flags /\ u.selected = ui.selected
    BY <1>0 DEF RecipeFields
  <2> HIDE DEF u
  <2>3. QED
    BY <1>4, <2>1, <2>2
<1>7. CASE RE!StatesArrive
  <2> DEFINE u == [ui EXCEPT !.words = StateWords]
  <2>1. ui' = RE!ClearHiddenSelection(u)
    BY <1>7 DEF RE!StatesArrive
  <2>2. /\ DOMAIN u = RecipeFields /\ u.context = ui.context /\ u.moves = ui.moves /\ u.steps = ui.steps
        /\ u.editing = ui.editing /\ u.local = ui.local /\ u.flags = ui.flags /\ u.selected = ui.selected
    BY <1>0 DEF RecipeFields
  <2> HIDE DEF u
  <2>3. QED
    BY <1>4, <2>1, <2>2
<1>8. ASSUME NEW c, RE!SetFilterCategory(c) PROVE RecipeQuiet
  BY <1>0, <1>8 DEF RecipeQuiet, RecipeFields, RE!SetFilterCategory
<1>9. CASE RE!Select
  <2>1. PICK m \in RE!VisibleMoves(ui) \union {RE!NonMove} :
          ui' = [[ui EXCEPT !.selected = {m}] EXCEPT !.acts = @ + 1]
    BY <1>9 DEF RE!Select
  <2>2. m \in RE!Range(ui.moves) \union {RE!NonMove}
    BY DEF RE!VisibleMoves, RE!InputMoves
  <2>3. RecipeQuiet
    BY <1>0, <2>1, <2>2 DEF RecipeQuiet, RecipeFields
  <2>4. QED
    BY <2>3, RecipeQuietKeeps
<1>10. ASSUME NEW f \in Flags, RE!ToggleFlag(f) PROVE RecipeQuiet
  BY <1>0, <1>10 DEF RecipeQuiet, RecipeFields, RE!ToggleFlag, RE!Toggled
<1>11. QED
  BY <1>1, <1>2, <1>3, <1>5, <1>6, <1>7, <1>8, <1>9, <1>10, RecipeQuietKeeps DEF RecipeElsewhere

\* What changes the steps while no dialog is open.
RecipeStepped ==
  /\ DOMAIN ui' = DOMAIN ui /\ ui'.context = ui.context /\ ui'.moves = ui.moves /\ ui'.selected = ui.selected
  /\ ui.editing = None /\ ui'.editing = None /\ ui'.flags \subseteq Flags
  /\ ui'.steps \in Seq(TrueSteps(ui.moves))

LEMMA RecipeSteppedKeeps == ASSUME RecipeParts, RecipeStepped PROVE RecipeParts'
<1>1. OfCatalogue'
  BY DEF RecipeParts, RecipeStepped, OfCatalogue
<1>2. QED
  BY <1>1 DEF RecipeParts, RecipeStepped, TrueDialog

LEMMA RecipeAppends ==
  ASSUME RecipeParts, RE!Acting, NEW step \in TrueSteps(ui.moves), NEW flags \in SUBSET Flags,
         ui' = [[RE!AddStep(ui, step) EXCEPT !.flags = flags] EXCEPT !.acts = @ + 1]
  PROVE  RecipeParts'
<1>1. Append(ui.steps, step) \in Seq(TrueSteps(ui.moves))
  BY DEF RecipeParts
<1>2. RecipeStepped
  BY <1>1 DEF RecipeStepped, RecipeParts, RecipeFields, RE!AddStep, RE!Acting, RE!None, None
<1>3. QED
  BY <1>2, RecipeSteppedKeeps

LEMMA RecipeAdds ==
  ASSUME RecipeParts, RE!AddResolvedMove \/ RE!HandleSystemButton \/ RE!HandleAdd PROVE RecipeParts'
<1> USE DEF RE!Does, RE!Sets
<1>0. OfCatalogue /\ DOMAIN ui = RecipeFields /\ ui.flags \subseteq Flags
  BY DEF RecipeParts
<1>1. ASSUME NEW step \in TrueSteps(ui.moves), RE!Acting, ui' = [RE!AddStep(ui, step) EXCEPT !.acts = @ + 1]
      PROVE  RecipeParts'
  <2>1. RE!AddStep(ui, step) = [RE!AddStep(ui, step) EXCEPT !.flags = ui.flags]
    BY <1>0 DEF RE!AddStep, RecipeFields
  <2>2. QED
    BY <1>0, <1>1, <2>1, RecipeAppends
<1>2. RE!MoveStep([move |-> RE!NonMove, flags |-> {}]) \in TrueSteps(ui.moves)
  <2>1. RE!MoveStep([move |-> RE!NonMove, flags |-> {}]) = [code |-> << >>, flags |-> {}]
    BY DEF RE!MoveStep, RE!NonMove, RE!None
  <2> DEFINE step == [code |-> << >>, flags |-> {}]
  <2>2. step \in [code : Seq(STRING), flags : SUBSET Flags]
    OBVIOUS
  <2>3. Fits(step.flags, RE!Coded(RE!Range(ui.moves), step.code))
    BY DEF Fits
  <2> HIDE DEF step
  <2>4. step \in TrueSteps(ui.moves)
    BY <2>2, <2>3 DEF TrueSteps
  <2>5. QED
    BY <2>1, <2>4 DEF step
<1>3. ASSUME NEW step \in RE!StepToAdd(ui) PROVE step \in TrueSteps(ui.moves)
  <2>1. PICK m \in ui.selected :
          step = RE!MoveStep([move |-> m, flags |-> IF RE!IsOdVariantApplicable({m}) THEN ui.flags
                                                    ELSE ui.flags \ OdFlags])
    BY <1>3 DEF RE!StepToAdd
  <2> DEFINE flags == IF RE!IsOdVariantApplicable({m}) THEN ui.flags ELSE ui.flags \ OdFlags
  <2>2. step = [code |-> m.code, flags |-> flags]
    BY <2>1 DEF RE!MoveStep
  <2>3. flags \subseteq Flags /\ (flags \cap OdFlags # {} => RE!IsOdVariantApplicable({m}))
    BY <1>0
  <2> HIDE DEF flags
  <2>4. CASE m = RE!NonMove
    <3>1. m.code \in Seq(STRING) /\ ~RE!IsOdVariantApplicable({m})
      BY <2>4 DEF RE!NonMove, RE!None, RE!IsOdVariantApplicable
    <3>2. QED
      BY <2>2, <2>3, <3>1 DEF TrueSteps, Fits
  <2>5. CASE m \in RE!Range(ui.moves)
    <3>1. m.code \in Seq(STRING) /\ m \in RE!Coded(RE!Range(ui.moves), m.code)
      BY <1>0, <2>5, CodeOfMove
    <3>2. RE!IsOdVariantApplicable({m}) => RE!IsOdVariantApplicable(RE!Coded(RE!Range(ui.moves), m.code))
      BY <3>1 DEF RE!IsOdVariantApplicable
    <3>3. QED
      BY <2>2, <2>3, <3>1, <3>2 DEF TrueSteps, Fits
  <2>6. QED
    BY <2>4, <2>5 DEF RecipeParts
<1>4. CASE RE!AddResolvedMove
  BY <1>0, <1>1, <1>4, ButtonsAreTrue DEF RE!AddResolvedMove
<1>5. CASE RE!HandleSystemButton
  BY <1>1, <1>2, <1>5 DEF RE!HandleSystemButton
<1>6. CASE RE!HandleAdd
  BY <1>3, <1>6, RecipeAppends DEF RE!HandleAdd
<1>7. QED
  BY <1>4, <1>5, <1>6

LEMMA RecipeMoves ==
  ASSUME RecipeParts,
         \/ RE!HandleVCStepDelete
         \/ \E i \in 1 .. ActsInForms.recipe : RE!HandleMove(i) \/ RE!HandleDelete(i)
  PROVE  RecipeParts'
<1> USE DEF RE!Does, RE!Sets
<1> DEFINE T == TrueSteps(ui.moves)
<1>0. DOMAIN ui = RecipeFields /\ ui.flags \subseteq Flags /\ ui.steps \in Seq(T)
  BY DEF RecipeParts
<1> HIDE DEF T
<1>1. ASSUME NEW steps \in Seq(T), RE!Acting, ui' = [[ui EXCEPT !.steps = steps] EXCEPT !.acts = @ + 1]
      PROVE  RecipeParts'
  <2>1. RecipeStepped
    BY <1>0, <1>1 DEF RecipeStepped, RecipeFields, RE!Acting, RE!None, None, T
  <2>2. QED
    BY <2>1, RecipeSteppedKeeps
<1>2. CASE RE!HandleVCStepDelete
  <2>1. RE!Front(ui.steps) \in Seq(T)
    BY <1>0, <1>2 DEF RE!HandleVCStepDelete, RE!Front, RE!None
  <2>2. QED
    BY <1>1, <1>2, <2>1 DEF RE!HandleVCStepDelete
<1>3. ASSUME NEW i \in 1 .. ActsInForms.recipe, RE!HandleMove(i) PROVE RecipeParts'
  <2>0. i \in DOMAIN ui.steps /\ i + 1 \in DOMAIN ui.steps
    <3>1. i \in Int /\ 1 <= i
      OBVIOUS
    <3>2. i + 1 \in DOMAIN ui.steps
      BY <1>3 DEF RE!HandleMove
    <3>3. DOMAIN ui.steps = 1 .. Len(ui.steps) /\ Len(ui.steps) \in Nat
      BY <1>0
    <3>4. QED
      BY <3>1, <3>2, <3>3
  <2> DEFINE swapped == [[ui.steps EXCEPT ![i] = ui.steps[i + 1]] EXCEPT ![i + 1] = ui.steps[i]]
  <2>1. swapped \in Seq(T)
    BY <1>0, <2>0
  <2>2. ui' = [[ui EXCEPT !.steps = swapped] EXCEPT !.acts = @ + 1]
    BY <1>0, <1>3 DEF RE!HandleMove, RecipeFields
  <2> HIDE DEF swapped
  <2>3. QED
    BY <1>1, <1>3, <2>1, <2>2 DEF RE!HandleMove
<1>4. ASSUME NEW i \in 1 .. ActsInForms.recipe, RE!HandleDelete(i) PROVE RecipeParts'
  <2>1. RE!RemoveAt(ui.steps, i) \in Seq(T)
    <3>0. i \in DOMAIN ui.steps
      BY <1>4 DEF RE!HandleDelete
    <3>1. i \in 1 .. Len(ui.steps)
      BY <1>0, <3>0
    <3>2. /\ SubSeq(ui.steps, 1, i - 1) \in Seq(T)
          /\ SubSeq(ui.steps, i + 1, Len(ui.steps)) \in Seq(T)
      BY <1>0, <3>1
    <3>3. QED
      BY <3>2 DEF RE!RemoveAt
  <2>2. QED
    BY <1>1, <1>4, <2>1 DEF RE!HandleDelete
<1>5. QED
  BY <1>2, <1>3, <1>4

LEMMA RecipeDialog ==
  ASSUME RecipeParts,
         \/ \E i \in 1 .. ActsInForms.recipe : RE!OpenStep(i)
         \/ \E f \in Flags : RE!ToggleLocal(f)
         \/ RE!CloseStep \/ RE!HandleModifiersSave
  PROVE  RecipeParts'
<1> USE DEF RE!Does, RE!Sets
<1> DEFINE T == TrueSteps(ui.moves)
<1>0. DOMAIN ui = RecipeFields /\ ui.flags \subseteq Flags /\ ui.steps \in Seq(T)
  BY DEF RecipeParts
<1>1. ASSUME NEW i, NEW step \in T, step = ui.steps[i]
      PROVE  step.flags \subseteq Flags /\ Fits(step.flags, RE!MovesOfStep(ui, i)) /\ step.code \in Seq(STRING)
  BY <1>1 DEF TrueSteps, RE!MovesOfStep
<1>2. ASSUME NEW editing, NEW local, DOMAIN ui' = DOMAIN ui, ui'.context = ui.context, ui'.moves = ui.moves,
             ui'.steps = ui.steps, ui'.selected = ui.selected, ui'.flags = ui.flags,
             ui'.editing = editing, ui'.local = local,
             \/ editing = None
             \/ /\ editing # None /\ The(editing) \in DOMAIN ui.steps /\ local \subseteq Flags
                /\ Fits(local, RE!MovesOfStep(ui, The(editing)))
      PROVE  RecipeParts'
  <2>1. OfCatalogue'
    BY <1>2 DEF RecipeParts, OfCatalogue
  <2>2. TrueDialog'
    BY <1>2 DEF TrueDialog, Fits, RE!MovesOfStep
  <2>3. QED
    BY <1>2, <2>1, <2>2 DEF RecipeParts
<1>3. ASSUME NEW i \in 1 .. ActsInForms.recipe, RE!OpenStep(i) PROVE RecipeParts'
  <2> HIDE DEF T
  <2>0. i \in DOMAIN ui.steps
    BY <1>3 DEF RE!OpenStep
  <2>1. i \in DOMAIN ui.steps /\ ui.steps[i] \in T
    BY <1>0, <2>0
  <2>2. ui' = [[ui EXCEPT !.editing = <<i>>, !.local = ui.steps[i].flags] EXCEPT !.acts = @ + 1]
    BY <1>3 DEF RE!OpenStep, RE!Some
  <2>3. <<i>> # None /\ The(<<i>>) = i
    BY DEF None, The
  <2>4. ui.steps[i].flags \subseteq Flags /\ Fits(ui.steps[i].flags, RE!MovesOfStep(ui, i))
    BY <1>1, <2>1
  <2>5. QED
    BY <1>0, <1>2, <2>1, <2>2, <2>3, <2>4 DEF RecipeFields
<1>4. ASSUME NEW f \in Flags, RE!ToggleLocal(f) PROVE RecipeParts'
  <2> DEFINE local == RE!Toggled(ui.local, f)
             moves == RE!MovesOfStep(ui, The(ui.editing))
  <2>1. /\ ui.editing # None /\ The(ui.editing) \in DOMAIN ui.steps /\ ui.local \subseteq Flags
        /\ Fits(ui.local, moves)
    BY <1>4 DEF RE!ToggleLocal, RecipeParts, TrueDialog, RE!None, None
  <2>2. RE!MayToggle(f, ui.local, moves)
    BY <1>4 DEF RE!ToggleLocal, RE!The, The
  <2>3. local \subseteq Flags /\ Fits(local, moves)
    BY <2>1, <2>2, RecipeAssumption DEF RE!MayToggle, RE!Toggled, Fits, Flags
  <2>4. ui' = [[ui EXCEPT !.local = local] EXCEPT !.acts = @ + 1]
    BY <1>4 DEF RE!ToggleLocal
  <2> HIDE DEF local
  <2>5. QED
    BY <1>0, <1>2, <2>1, <2>3, <2>4 DEF RecipeFields
<1>5. CASE RE!CloseStep
  BY <1>0, <1>2, <1>5 DEF RE!CloseStep, RecipeFields, RE!None, None
<1>6. CASE RE!HandleModifiersSave
  <2> DEFINE i == The(ui.editing)
             step == [ui.steps[i] EXCEPT !.flags = ui.local]
             steps == [ui.steps EXCEPT ![i] = step]
  <2>1. /\ i \in DOMAIN ui.steps /\ ui.local \subseteq Flags /\ Fits(ui.local, RE!MovesOfStep(ui, i))
    BY <1>6 DEF RE!HandleModifiersSave, RecipeParts, TrueDialog, RE!None, None
  <2> HIDE DEF i
  <2>2. ui.steps[i] \in T
    <3> HIDE DEF T
    <3>1. QED
      BY <1>0, <2>1
  <2>3. step \in T
    BY <2>1, <2>2 DEF TrueSteps, RE!MovesOfStep
  <2>4. ui' = [ui EXCEPT !.steps = steps, !.editing = None, !.local = {}]
    BY <1>0, <1>6 DEF RE!HandleModifiersSave, RecipeFields, RE!The, The, i, RE!None, None
  <2> HIDE DEF step, T
  <2>5. steps \in Seq(T)
    BY <1>0, <2>1, <2>3
  <2> HIDE DEF steps
  <2>6. OfCatalogue'
    BY <1>0, <2>4 DEF RecipeParts, OfCatalogue, RecipeFields
  <2>7. QED
    BY <1>0, <2>4, <2>5, <2>6 DEF RecipeParts, RecipeFields, TrueDialog, T
<1>7. QED
  BY <1>3, <1>4, <1>5, <1>6

LEMMA RecipeStep == ASSUME RecipeParts, RE!Next PROVE RecipeParts'
<1> DEFINE Moving(i) == RE!HandleMove(i) \/ RE!HandleDelete(i)
<1>1. \/ RE!AddResolvedMove \/ RE!HandleSystemButton \/ RE!HandleAdd
      \/ RecipeElsewhere
      \/ RE!HandleVCStepDelete \/ \E i \in 1 .. ActsInForms.recipe : Moving(i)
      \/ \E i \in 1 .. ActsInForms.recipe : RE!OpenStep(i)
      \/ \E f \in Flags : RE!ToggleLocal(f)
      \/ RE!CloseStep \/ RE!HandleModifiersSave
  BY DEF RE!Next, RecipeElsewhere, Flags
<1>2. QED
  BY <1>1, RecipeAdds, RecipeElsewhereKeeps, RecipeMoves, RecipeDialog

LEMMA RecipeInit == RE!Init => RecipeParts
<1> SUFFICES ASSUME RE!Init PROVE RecipeParts
  OBVIOUS
<1>1. PICK face \in Catalogues :
        ui = [page |-> "recipe", context |-> face[1], moves |-> face[2], entries |-> << >>,
              words |-> {}, steps |-> << >>, direction |-> 5, rush |-> FALSE, family |-> << >>,
              variant |-> RE!Simple, omit |-> FALSE, filter |-> "all", selected |-> {}, flags |-> {},
              editing |-> RE!None, local |-> {}, acts |-> 0]
  BY DEF RE!Init
<1>2. OfCatalogue /\ DOMAIN ui = RecipeFields
  BY <1>1 DEF OfCatalogue, RecipeFields
<1>3. ui.steps = << >> /\ ui.selected = {} /\ ui.flags = {} /\ ui.editing = None
  BY <1>1 DEF RE!None, None
<1>4. QED
  BY <1>2, <1>3 DEF RecipeParts, TrueDialog

LEMMA RecipeInductive == RecipeInv /\ [NextForms]_vars => RecipeInv'
<1> SUFFICES ASSUME RecipeInv, [NextForms]_vars, ui'.page = "recipe" PROVE RecipeParts'
  BY DEF RecipeInv
<1>1. CASE UNCHANGED vars
  BY <1>1 DEF vars, RecipeInv, RecipeParts, OfCatalogue, TrueDialog, Fits, RE!MovesOfStep
<1>2. CASE NextForms
  <2>1. ui.page = "recipe" /\ RE!Next
    BY <1>2 DEF NextForms, Stays
  <2>2. QED
    BY <2>1, RecipeStep DEF RecipeInv
<1>3. QED
  BY <1>1, <1>2

\* Whatever the character has can be entered with the controller at any time, behind some direction and
\* rush or behind a family and a variant that the screen offers (VirtualController.tsx, its tabs): for any
\* roster in which the words of the codes tell the moves apart.
THEOREM MovesAreEnterable == SpecForms => [](ui.page = "recipe" => RE!AllEntered)
<1>1. InitForms => RecipeInv
  BY RecipeInit DEF InitForms, RecipeInv, NG!On, CE!On, BF!On, RE!On, SE!On, SI!On
<1>2. RecipeInv => (ui.page = "recipe" => RE!AllEntered)
  BY ListIsRoster, MoveHasButton DEF RecipeInv, RecipeParts
<1>3. QED
  BY <1>1, <1>2, RecipeInductive, PTL DEF SpecForms

\* What can be entered is what the character has: every move has its button, and no step carries a pair
\* of strengths that its move has not, in whatever order flags are ticked, moves chosen and steps edited.
THEOREM OnlyMovesAreEntered == SpecForms => []EntersWhatTheCharacterHas
<1>1. InitForms => RecipeInv
  BY RecipeInit DEF InitForms, RecipeInv, NG!On, CE!On, BF!On, RE!On, SE!On, SI!On
<1>2. RecipeInv => RE!OdPairsOnOdMoves
  <2> SUFFICES ASSUME RecipeParts PROVE RE!OdPairsOnOdMoves
    BY DEF RecipeInv, RE!OdPairsOnOdMoves, RE!On
  <2> DEFINE T == TrueSteps(ui.moves)
  <2>1. ui.steps \in Seq(T)
    BY DEF RecipeParts
  <2>2. ASSUME NEW i \in DOMAIN ui.steps
        PROVE  ui.steps[i].flags \cap OdFlags # {} => RE!IsOdVariantApplicable(RE!MovesOfStep(ui, i))
    <3>1. ui.steps[i] \in T
      <4> HIDE DEF T
      <4>1. QED
        BY <2>1
    <3>2. QED
      BY <3>1 DEF TrueSteps, Fits, RE!MovesOfStep
  <2>3. QED
    BY <2>2 DEF RE!OdPairsOnOdMoves
<1>3. RecipeInv => RE!EveryMoveHasButton
  BY ListIsRoster, MoveHasButton DEF RecipeInv, RecipeParts, RE!EveryMoveHasButton, RE!On
<1>4. RecipeInv => EntersWhatTheCharacterHas
  BY <1>2, <1>3 DEF EntersWhatTheCharacterHas, RE!EntersWhatTheCharacterHas
<1>5. QED
  BY <1>1, <1>4, RecipeInductive, PTL DEF SpecForms
=============================================================================
