--------------------------- MODULE NavigationGuard ---------------------------
(***************************************************************************)
(* The guard against leaving an edited page.  While a form differs from    *)
(* what it was opened with, a sentinel entry lies on top of the history,   *)
(* so that "back" removes the sentinel instead of the page.                *)
(*                                                                         *)
(* srv: `hist` and `pos` are the tab's history, `go` the traversals that   *)
(* the browser has not carried out yet.  ui: `view` is the route shown,    *)
(* `armed` says that the effect of `blocked` is mounted.                   *)
(***************************************************************************)
EXTENDS Page, Integers

CONSTANTS
  MaxDepth,  \* bound: length of the history
  MaxMarks   \* bound: sentinels pushed by one load of the page

Urls == {"list", "edit", "detail"}
Here(h) == h.hist[h.pos]

On == ui.page = "guard"

\* Empty text, null and an absent key are the same to the comparison with the initial value.
Values == {"null", "empty", "typed"}
Normalized(value) == IF value = "empty" THEN "null" ELSE value
ChangedFromInitial(form) == Normalized(form) # Normalized("null")

Blocked == ui.view = "edit" /\ ChangedFromInitial(ui.form)

\* A user acts after the last traversal and the last effect.
AtRest == On /\ srv.go = << >> /\ ui.armed = Blocked

\* The mark decides, not the ref alone: the application may have moved on meanwhile.
OnSentinelEntry == ui.token # 0 /\ Here(srv).mark = ui.token

-----------------------------------------------------------------------------
(* The history of the browser and the router that follows it.              *)

Upto(h) == SubSeq(h.hist, 1, h.pos)

Pushed(h, url, mark) ==
  [h EXCEPT !.hist = Append(Upto(h), [url |-> url, mark |-> mark]), !.pos = @ + 1]

Replaced(h, url) ==
  [h EXCEPT !.hist[h.pos] = [url |-> url, mark |-> 0]]

\* Another route unmounts the form with what was typed; the same route keeps it.
Showing(u, url) ==
  IF u.view = url THEN u ELSE [u EXCEPT !.view = url, !.form = "null"]

PushSentinel(u, h) ==
  [ui  |-> [u EXCEPT !.seq = @ + 1, !.token = u.seq + 1],
   srv |-> Pushed(h, Here(h).url, u.seq + 1)]

Becomes(pair) == ui' = pair.ui /\ srv' = pair.srv

-----------------------------------------------------------------------------
(* The effect of `blocked`.                                                *)

\* A page that was reloaded on a sentinel inherits it.
Arm ==
  /\ On /\ Blocked /\ ~ui.armed /\ ui.seq < MaxMarks
  /\ IF Here(srv).mark # 0 THEN Sets([ui EXCEPT !.armed = TRUE, !.token = Here(srv).mark])
     ELSE Becomes(PushSentinel([ui EXCEPT !.armed = TRUE], srv))

\* The clean-up takes the sentinel away unless the page has been left already.
Disarm ==
  /\ On /\ ~Blocked /\ ui.armed
  /\ ui' = [ui EXCEPT !.armed = FALSE, !.token = 0]
  /\ srv' = IF ~ui.leaving /\ OnSentinelEntry THEN [srv EXCEPT !.go = Append(@, -1)] ELSE srv

\* Mutant: a "back" shows the question without putting the sentinel back.
OnPopStateUnsealed(u, h) ==
  [ui |-> IF u.skip THEN [u EXCEPT !.skip = FALSE, !.token = 0]
          ELSE [u EXCEPT !.pending = Some("back")], srv |-> h]

\* The popstate that the guard caused itself is passed over; any other was a "back".
OnPopState(u, h) ==
  IF u.skip THEN [ui |-> [u EXCEPT !.skip = FALSE, !.token = 0], srv |-> h]
  ELSE PushSentinel([u EXCEPT !.pending = Some("back")], h)

\* A traversal beyond either end does nothing and tells nobody.
Land ==
  LET h == [srv EXCEPT !.go = Tail(@), !.pos = @ + Head(srv.go)]
  IN  /\ On /\ srv.go # << >> /\ ui.seq < MaxMarks
      /\ IF h.pos \notin DOMAIN srv.hist THEN Serves([srv EXCEPT !.go = Tail(@)])
         ELSE LET shown == Showing(ui, Here(h).url)
              IN  IF ui.armed THEN Becomes(OnPopState(shown, h))
                  ELSE ui' = shown /\ srv' = h

-----------------------------------------------------------------------------
(* Leaving.                                                                *)

Navigate(u, h, url) == [ui |-> Showing(u, url), srv |-> Pushed(h, url, 0)]

\* The one entry of the sentinel is made up for: two steps back, or replaced by the target.
PerformLeave(u, target) ==
  LET had == OnSentinelEntry
      out == [u EXCEPT !.leaving = TRUE, !.token = 0]
  IN  IF target = "back"
        THEN [ui  |-> [out EXCEPT !.skip = had],
              srv |-> [srv EXCEPT !.go = Append(@, IF had THEN -2 ELSE -1)]]
      ELSE IF had THEN [ui |-> Showing(out, target), srv |-> Replaced(srv, target)]
      ELSE Navigate(out, srv, target)

LeavingTimer == On /\ ui.leaving /\ Sets([ui EXCEPT !.leaving = FALSE])

\* Clicks with a modifier, for a download or for another window are the browser's.
Clicks == {"plain", "modified", "download", "other_window"}
Intercepts(kind, url) == kind = "plain" /\ url # ui.view

\* requestLeaveTo and a plain click on a link: asked for while blocked, done at once otherwise.
FollowLink(url, kind) ==
  /\ AtRest /\ ui.pending = None /\ Intercepts(kind, url)
  /\ IF Blocked THEN Sets([ui EXCEPT !.pending = Some(url)])
     ELSE Len(Upto(srv)) < MaxDepth /\ Becomes(Navigate([ui EXCEPT !.agreed = "no"], srv, url))

\* The browser's own back and forward; each drops what was agreed to before.  The guard is made
\* for "back": "forward" from an inherited sentinel leaves without a question.
Traverse(delta) ==
  /\ AtRest /\ srv.pos + delta \in DOMAIN srv.hist
  /\ ui' = [ui EXCEPT !.agreed = IF delta = 1 THEN "forward" ELSE "no"]
  /\ srv' = [srv EXCEPT !.go = <<delta>>]

RequestLeaveBack ==
  /\ AtRest /\ ui.view = "edit" /\ ui.pending = None
  /\ IF Blocked THEN Sets([ui EXCEPT !.pending = Some("back")])
     ELSE Traverse(-1)

\* The question stays on the screen when a save has led elsewhere in the meantime.
Stay == AtRest /\ ui.pending # None /\ Sets([ui EXCEPT !.pending = None])

Leave ==
  /\ AtRest /\ ui.pending # None /\ Len(srv.hist) < MaxDepth
  /\ LET agreed == IF Blocked THEN The(ui.pending) ELSE "too_late"
     IN  Becomes(PerformLeave([ui EXCEPT !.pending = None, !.agreed = agreed], The(ui.pending)))

\* A save is answered while the form is still there: no question, but the same correction.
SaveAnswered ==
  /\ AtRest /\ ui.view = "edit" /\ Len(srv.hist) < MaxDepth
  /\ Becomes(PerformLeave([ui EXCEPT !.agreed = "saved"], "detail"))

\* Restoring from the trash and "to the list" navigate past the guard; the sentinel stays beneath.
BareNavigate ==
  /\ AtRest /\ ui.view = "edit" /\ Len(srv.hist) < MaxDepth
  /\ Becomes(Navigate([ui EXCEPT !.agreed = "saved"], srv, "detail"))

-----------------------------------------------------------------------------
(* The user and the browser.                                               *)

Type(value) ==
  /\ AtRest /\ ui.view = "edit" /\ ui.pending = None /\ value # ui.form
  /\ Sets([ui EXCEPT !.form = value, !.agreed = "no"])

Back    == Traverse(-1)
Forward == Traverse(1)

\* The entries survive a reload, the refs and the counter do not.  A start on a sentinel of an
\* earlier load steps back from it.
Fresh(url) ==
  [page |-> "guard", view |-> url, form |-> "null", armed |-> FALSE, token |-> 0, seq |-> 0,
   leaving |-> FALSE, skip |-> FALSE, pending |-> None, agreed |-> "no"]

Reload ==
  /\ AtRest
  /\ ui' = Fresh(Here(srv).url)
  /\ srv' = [srv EXCEPT !.go = IF Here(srv).mark # 0 THEN <<-1>> ELSE << >>]

Init ==
  /\ ui = Fresh("list")
  /\ srv = [hist |-> <<[url |-> "list", mark |-> 0]>>, pos |-> 1, go |-> << >>]

Next ==
  \/ Arm \/ Disarm \/ Land \/ LeavingTimer \/ RequestLeaveBack \/ Stay \/ Leave \/ SaveAnswered
  \/ BareNavigate \/ Back \/ Forward \/ Reload
  \/ \E value \in Values : Type(value)
  \/ \E url \in Urls, kind \in Clicks : FollowLink(url, kind)

-----------------------------------------------------------------------------
(* Properties.                                                             *)

\* An edited form whose guard is up is only ever unmounted after the user agreed or the form was
\* saved: neither back, forward, links, reloads nor entries of earlier loads get past the question.
LeftOnlyWhenAgreed ==
  [][On /\ Blocked /\ ui.armed /\ ui'.view # "edit" => ui'.agreed # "no"]_vars

\* Whoever agreed to go back has left the form: the sentinel was made up for exactly, even when it
\* was inherited from an earlier load of the page.
AgreedBackLeaves == On /\ ui.agreed = "back" /\ srv.go = << >> => ui.view # "edit"

\* The guard keeps a page exactly as long as the user wants it (NavigationGuardProvider.tsx).
LeavesExactlyWhenAgreed == LeftOnlyWhenAgreed /\ []AgreedBackLeaves
=============================================================================
