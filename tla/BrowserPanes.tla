--------------------------- MODULE BrowserPanes ---------------------------
(* Browser panes of ts2: `wezterm cli web-open` has the multiplexer notify  *)
(* every window of the app; a window keeps the browsers it created, hides   *)
(* the terminals of their panes, draws what CEF has painted over them and   *)
(* closes a browser on Ctrl+C.  CEF paints when the message pump has it do  *)
(* its work.  All of this runs on the main thread, one job at a time.       *)
(* A window of the app shows one of the multiplexer, and another one when   *)
(* the user goes to another workspace.                                      *)
EXTENDS MessagePump, Sequences

CONSTANTS
  Panes,      \* panes of the multiplexer
  Windows,    \* windows of the app
  MuxWindows, \* windows of the multiplexer
  Home,       \* the window of the multiplexer and the tab each pane is in
  MaxEvents,  \* bound: requests, panes that die, tabs and windows selected
  MaxAsks     \* bound: times CEF asks for work without anything to paint

ASSUME BrowserAssumption ==
  /\ Home \in [Panes -> [win : MuxWindows, tab : Nat]]
  /\ MaxEvents \in Nat /\ MaxAsks \in Nat

VARIABLES
  live,       \* panes the multiplexer has
  active,     \* the active tab of each of its windows
  shows,      \* the one that each window of the app shows
  gone,       \* windows that were closed
  inbox,      \* WebOpen notifications on their way to each window
  browsers,   \* browser_states of each window: pane -> has it a texture
  stale,      \* windows that were invalidated and not painted since
  frame,      \* what was drawn last: overlays, terminals left out, and
              \* (history) whether the last attempt failed
  spent       \* how much of the two bounds is used

vars == <<pumpVars, live, active, shows, gone, inbox, browsers, stale, frame, spent>>
windowVars == <<live, active, shows, gone, inbox, browsers, stale, frame>>

PanesOf(m) == {p \in live : Home[p].win = m}
Of(w) == PanesOf(shows[w])
Visible(w) == {p \in Of(w) : Home[p].tab = active[shows[w]]}
Showing(m) == {w \in Windows \ gone : shows[w] = m}
Has(w) == DOMAIN browsers[w]
Painted(w) == {p \in Has(w) : browsers[w][p]}
ToPaint == {b \in Windows \X Panes : b[2] \in Has(b[1]) \ Painted(b[1])}

Blank == [over |-> {}, hidden |-> {}, failed |-> FALSE]

Init ==
  /\ PumpInit
  /\ live = Panes
  /\ active \in [MuxWindows -> {Home[p].tab : p \in Panes}]
  /\ \A p \in Panes : \E q \in PanesOf(Home[p].win) : Home[q].tab = active[Home[q].win]
  /\ shows \in [Windows -> MuxWindows]
  /\ \A v, w \in Windows : shows[v] = shows[w] => v = w
  /\ gone = {}
  /\ inbox = [w \in Windows |-> <<>>]
  /\ browsers = [w \in Windows |-> [p \in {} |-> FALSE]]
  /\ stale = {}
  /\ frame = [w \in Windows |-> Blank]
  /\ spent = [events |-> 0, asks |-> 0]

Happens ==
  /\ MainIsFree
  /\ spent.events < MaxEvents /\ spent' = [spent EXCEPT !.events = @ + 1]
  /\ UNCHANGED pumpVars

(* Pdu::WebOpen: every window subscribes to the multiplexer and forwards    *)
(* the notification to itself, whatever pane it is about.                   *)
WebOpen(p) ==
  /\ Happens
  /\ p \in live
  /\ inbox' = [w \in Windows |-> IF w \in gone THEN inbox[w] ELSE Append(inbox[w], p)]
  /\ UNCHANGED <<live, active, shows, gone, browsers, stale, frame>>

\* A mutant of HandleWebOpen: redrawn when a browser was created, only.
HandleWebOpenQuietly(w) ==
  /\ MainIsFree /\ w \notin gone /\ inbox[w] # <<>>
  /\ \E created \in BOOLEAN :
       LET p == Head(inbox[w])
           kept == Has(w) \ {p}
       IN /\ created => p \in live
          /\ browsers' = [browsers EXCEPT ![w] =
               [q \in IF created THEN kept \cup {p} ELSE kept |->
                  IF q = p THEN FALSE ELSE browsers[w][q]]]
          /\ stale' = IF created THEN stale \cup {w} ELSE stale
  /\ inbox' = [inbox EXCEPT ![w] = Tail(@)]
  /\ UNCHANGED <<pumpVars, live, active, shows, gone, frame, spent>>

(* handle_web_open: a browser that is there is closed, even when the window *)
(* has no WebGPU, the pane is gone or CEF creates none.                     *)
HandleWebOpen(w) ==
  /\ MainIsFree /\ w \notin gone /\ inbox[w] # <<>>
  /\ \E created \in BOOLEAN :
       LET p == Head(inbox[w])
           kept == Has(w) \ {p}
       IN /\ created => p \in live
          /\ browsers' = [browsers EXCEPT ![w] =
               [q \in IF created THEN kept \cup {p} ELSE kept |->
                  IF q = p THEN FALSE ELSE browsers[w][q]]]
          /\ stale' = IF created \/ p \in Has(w) THEN stale \cup {w} ELSE stale
  /\ inbox' = [inbox EXCEPT ![w] = Tail(@)]
  /\ UNCHANGED <<pumpVars, live, active, shows, gone, frame, spent>>

(* Ctrl+C in a pane of the active tab that has a browser: it is closed.     *)
(* Every other key is swallowed.                                            *)
CtrlC(w) ==
  /\ MainIsFree /\ w \notin gone
  /\ \E p \in Visible(w) \cap Has(w) :
       browsers' = [browsers EXCEPT ![w] = [q \in Has(w) \ {p} |-> browsers[w][q]]]
  /\ stale' = stale \cup {w}
  /\ UNCHANGED <<pumpVars, live, active, shows, gone, inbox, frame, spent>>

SwitchTab(w) ==
  /\ Happens
  /\ w \notin gone
  /\ active' \in {[active EXCEPT ![shows[w]] = Home[p].tab] : p \in Of(w)}
  /\ active' # active
  /\ stale' = stale \cup {w}
  /\ UNCHANGED <<live, shows, gone, inbox, browsers, frame>>

\* A mutant of PaneDies: the tab that went stays the active one.
PaneDiesActive(p) ==
  /\ Happens
  /\ p \in live
  /\ live' = live \ {p} /\ stale' = stale \cup Showing(Home[p].win)
  /\ UNCHANGED <<active, shows, gone, inbox, browsers, frame>>

(* A pane dies; windows ignore PaneRemoved.  A tab goes with its last pane. *)
PaneDies(p) ==
  /\ Happens
  /\ p \in live
  /\ LET m == Home[p].win
         tabs == {Home[q].tab : q \in PanesOf(m) \ {p}}
     IN /\ live' = live \ {p}
        /\ stale' = stale \cup Showing(m)
        /\ IF active[m] \in tabs \/ tabs = {} THEN UNCHANGED active
           ELSE active' \in {[active EXCEPT ![m] = t] : t \in tabs}
  /\ UNCHANGED <<shows, gone, inbox, browsers, frame>>

(* SwitchToMuxWindow: a window that is not needed in the workspace that the *)
(* user goes to, or has lost its last pane, is used for another window of   *)
(* the multiplexer.  It keeps its browsers.                                 *)
SwitchToMuxWindow(w, m) ==
  /\ Happens
  /\ w \notin gone /\ Showing(m) = {}
  /\ shows' = [shows EXCEPT ![w] = m]
  /\ stale' = stale \cup {w}
  /\ UNCHANGED <<live, active, gone, inbox, browsers, frame>>

(* Or else it goes, and its browsers with it (Drop).                        *)
Closes(w) ==
  /\ w \notin gone /\ gone' = gone \cup {w}
  /\ inbox' = [inbox EXCEPT ![w] = <<>>]
  /\ browsers' = [browsers EXCEPT ![w] = [p \in {} |-> FALSE]]
  /\ frame' = [frame EXCEPT ![w] = Blank]
  /\ stale' = stale \ {w}
  /\ UNCHANGED <<live, active, shows>>

WindowGoes(w) ==
  \/ MainIsFree /\ Of(w) = {} /\ Closes(w) /\ UNCHANGED <<pumpVars, spent>>
  \/ Happens /\ Of(w) # {} /\ Closes(w)

(* A frame: paint_pane leaves out the terminals that have a browser, and    *)
(* render_cef_overlays draws every browser of the window that has a texture.*)
Paint(w) ==
  /\ MainIsFree /\ w \in stale \ gone
  /\ frame' = [frame EXCEPT ![w] = [over |-> Painted(w),
                                    hidden |-> Visible(w) \cap Has(w),
                                    failed |-> FALSE]]
  /\ stale' = stale \ {w}
  /\ UNCHANGED <<pumpVars, live, active, shows, gone, inbox, browsers, spent>>

(* A frame that fails: the surface gives no texture to draw on and nothing  *)
(* changes, or paint_pass ends early and what it has is drawn, without some *)
(* of the terminals.  paint_impl drops the error, and nothing paints again  *)
(* until the window is invalidated.                                         *)
PaintFails(w) ==
  /\ MainIsFree /\ w \in stale \ gone
  /\ \/ frame' = [frame EXCEPT ![w].failed = TRUE]
     \/ \E more \in SUBSET (Visible(w) \ Has(w)) :
          frame' = [frame EXCEPT ![w] = [over |-> Painted(w),
                                         hidden |-> (Visible(w) \cap Has(w)) \cup more,
                                         failed |-> TRUE]]
  /\ stale' = stale \ {w}
  /\ UNCHANGED <<pumpVars, live, active, shows, gone, inbox, browsers, spent>>

\* A mutant of OnPaint: the invalidate callback is forgotten.
OnPaintQuietly(w, p) ==
  /\ browsers' = [browsers EXCEPT ![w][p] = TRUE]
  /\ UNCHANGED <<live, active, shows, gone, inbox, stale, frame, spent>>

(* CEF, in its work, paints a page: on_paint stores the texture and         *)
(* invalidates the window.                                                  *)
OnPaint(w, p) ==
  /\ browsers' = [browsers EXCEPT ![w][p] = TRUE]
  /\ stale' = stale \cup {w}
  /\ UNCHANGED <<live, active, shows, gone, inbox, frame, spent>>

Work ==
  /\ DoWork
  /\ IF ToPaint = {} THEN UNCHANGED <<windowVars, spent>>
     ELSE \E b \in ToPaint : OnPaint(b[1], b[2])

(* CEF asks for work when there is something to paint, and now and then.    *)
NeedsWork(t) == ToPaint # {} /\ ~due /\ Ask(t) /\ UNCHANGED <<windowVars, spent>>

AsksAnyway(t) ==
  /\ spent.asks < MaxAsks /\ spent' = [spent EXCEPT !.asks = @ + 1]
  /\ Ask(t) /\ UNCHANGED windowVars

Asks == \E t \in Threads : NeedsWork(t)
Pumps == (PumpStep /\ UNCHANGED <<windowVars, spent>>) \/ Work
Handles == \E w \in Windows : HandleWebOpen(w)
Paints == \E w \in Windows : Paint(w) \/ PaintFails(w)

Next ==
  \/ Asks \/ Pumps \/ Handles \/ Paints
  \/ \E t \in Threads : AsksAnyway(t)
  \/ \E p \in Panes : WebOpen(p) \/ PaneDies(p)
  \/ \E w \in Windows : CtrlC(w) \/ SwitchTab(w) \/ WindowGoes(w)
  \/ \E w \in Windows, m \in MuxWindows : SwitchToMuxWindow(w, m)

Spec == Init /\ [][Next]_vars

(* The threads of CEF go on, the main run loop fires its timers and lets    *)
(* windows handle and paint, and CEF asks for work when it needs it.  That  *)
(* a frame succeeds is not assumed.                                         *)
FairSpec ==
  /\ Spec
  /\ WF_vars(Asks) /\ WF_vars(Pumps) /\ WF_vars(Handles) /\ WF_vars(Paints)

----------------------------------------------------------------------------
(* The types; a window that is gone has nothing left, and one that is there *)
(* with panes shows some.                                                   *)
TypeOK ==
  /\ PumpTypeOK
  /\ live \subseteq Panes /\ gone \subseteq Windows /\ stale \subseteq Windows \ gone
  /\ \A w \in Windows :
       /\ Has(w) \subseteq Panes /\ (w \in gone => Has(w) = {} /\ inbox[w] = <<>>)
       /\ w \notin gone /\ Of(w) # {} => Visible(w) # {}

(* What a window shows is what it has, unless it is about to be painted or  *)
(* its last frame failed: every texture is drawn, and no terminal stays     *)
(* hidden behind a browser that is closed.                                  *)
FrameIsCurrent ==
  \A w \in Windows \ stale :
    \/ frame[w].over = Painted(w) /\ frame[w].hidden \subseteq Has(w)
    \/ frame[w].failed

(* A browser that was opened is shown in the end, unless it is closed or    *)
(* the frame that should have shown it failed.                              *)
FrameFailed(w, p) == p \in Painted(w) /\ w \notin stale /\ frame[w].failed

OpenIsShown ==
  \A w \in Windows, p \in Panes :
    p \in Has(w) ~> (p \in frame[w].over \/ p \notin Has(w) \/ FrameFailed(w, p))

(* "Press Ctrl+C to close the webview and return to the terminal"           *)
(* (docs/cef-mvp2.md): every browser is on a pane of its window.            *)
CtrlCReachesIt == \A w \in Windows : Has(w) \subseteq Of(w)

(* A browser overlays its pane: nothing is drawn that the user cannot see   *)
(* the pane of.                                                             *)
DrawnOnItsPane == \A w \in Windows \ stale : frame[w].over \subseteq Visible(w)

=============================================================================
