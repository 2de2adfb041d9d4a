------------------------ MODULE BrowserPanes_proofs ------------------------
(* Theorems about MessagePump and BrowserPanes, for any threads, timers,    *)
(* windows and panes.                                                       *)
EXTENDS BrowserPanes, TLAPS

(* What may happen to the pump in a step of the app.                        *)
PumpNext == (\E t \in Threads : Ask(t)) \/ PumpStep \/ DoWork \/ UNCHANGED pumpVars

PumpInv == PumpTypeOK /\ WorkIsCovered

(* The calls and callbacks of the pump, in any order, keep its types, and   *)
(* leave asked-for work with a timer, a callback or a call that sees to it. *)
LEMMA PumpKeeps == ASSUME PumpInv, PumpNext PROVE PumpInv'
<1>. USE PumpAssumption DEF PumpInv, PumpTypeOK, WorkIsCovered
<1>1. ASSUME NEW t \in Threads, Ask(t) PROVE PumpInv'
  BY <1>1 DEF Ask
<1>2. ASSUME NEW t \in Threads, Cancel(t) PROVE PumpInv'
  BY <1>2 DEF Cancel
<1>3. ASSUME NEW t \in Threads, Add(t) PROVE PumpInv'
  BY <1>3 DEF Add, Unused
<1>4. ASSUME NEW t \in Threads, Store(t) PROVE PumpInv'
  BY <1>4 DEF Store, NotCalling
<1>5. CASE Fire
  BY <1>5 DEF Fire
<1>6. CASE Clear
  BY <1>6 DEF Clear
<1>7. CASE DoWork
  BY <1>7 DEF DoWork
<1>8. CASE WorkDone
  BY <1>8 DEF WorkDone
<1>9. CASE UNCHANGED pumpVars
  BY <1>9 DEF pumpVars
<1>. QED  BY <1>1, <1>2, <1>3, <1>4, <1>5, <1>6, <1>7, <1>8, <1>9
          DEF PumpNext, PumpStep, Call

(* A step of the app is one of the pump, or leaves it alone.                *)
LEMMA StepPumps == ASSUME [Next]_vars PROVE PumpNext
<1>1. CASE Asks \/ \E t \in Threads : AsksAnyway(t)
  BY <1>1 DEF Asks, NeedsWork, AsksAnyway, PumpNext
<1>2. CASE Pumps
  BY <1>2 DEF Pumps, Work, PumpNext
<1>3. CASE Handles \/ Paints \/ UNCHANGED vars
  BY <1>3 DEF Handles, Paints, HandleWebOpen, Paint, PaintFails, vars, PumpNext
<1>4. CASE \E p \in Panes : WebOpen(p) \/ PaneDies(p)
  BY <1>4 DEF WebOpen, PaneDies, Happens, PumpNext
<1>5. CASE \E w \in Windows : CtrlC(w) \/ SwitchTab(w) \/ WindowGoes(w)
  BY <1>5 DEF CtrlC, SwitchTab, WindowGoes, Happens, PumpNext
<1>6. CASE \E w \in Windows, m \in MuxWindows : SwitchToMuxWindow(w, m)
  BY <1>6 DEF SwitchToMuxWindow, Happens, PumpNext
<1>. QED  BY <1>1, <1>2, <1>3, <1>4, <1>5, <1>6 DEF Next

(* The pump starts with nothing asked for.                                  *)
LEMMA PumpStarts == Init => PumpInv
<1>1. PumpInit => PumpTypeOK
  <2>. SUFFICES ASSUME PumpInit PROVE PumpTypeOK
    OBVIOUS
  <2>1. \A t \in Threads : call[t].pc = "idle" /\ call[t].timer = NoTimer
    BY DEF PumpInit, NotCalling
  <2>2. call \in [Threads -> [pc : {"idle", "cancel", "add", "store"},
                              timer : Timers \cup {NoTimer}]]
    BY DEF PumpInit, NotCalling
  <2>3. /\ pending \subseteq Timers /\ ref \in Timers \cup {NoTimer}
        /\ pump \in {"idle", "fired", "work", "working"} /\ due \in BOOLEAN
    BY DEF PumpInit
  <2>. QED  BY <2>1, <2>2, <2>3 DEF PumpTypeOK
<1>2. PumpInit => WorkIsCovered
  BY DEF PumpInit, WorkIsCovered
<1>. QED  BY <1>1, <1>2 DEF Init, PumpInv

(* The inductive invariant of the pump.                                     *)
THEOREM PumpInvHolds == Spec => []PumpInv
<1>1. PumpInv /\ [Next]_vars => PumpInv'
  BY StepPumps, PumpKeeps
<1>. QED  BY <1>1, PumpStarts, PTL DEF Spec

(* Work CEF has asked for is never forgotten, whatever threads ask for it,  *)
(* between the steps of one another and of the callback.                    *)
THEOREM WorkIsCoveredHolds == Spec => []WorkIsCovered
<1>1. PumpInv => WorkIsCovered
  BY DEF PumpInv
<1>. QED  BY <1>1, PumpInvHolds, PTL

----------------------------------------------------------------------------
Frames == [over : SUBSET Panes, hidden : SUBSET Panes, failed : BOOLEAN]

LEMMA BlankType == Blank \in Frames
BY DEF Blank, Frames

(* What the app keeps of its windows and panes.                             *)
Tables ==
  /\ live \subseteq Panes /\ gone \subseteq Windows /\ stale \subseteq Windows \ gone
  /\ active \in [MuxWindows -> Nat] /\ shows \in [Windows -> MuxWindows]
  /\ inbox \in [Windows -> Seq(Panes)]
  /\ DOMAIN browsers = Windows
  /\ frame \in [Windows -> Frames]

(* A window of the multiplexer that has panes has some in its active tab.   *)
Lit(m) == PanesOf(m) # {} => \E p \in PanesOf(m) : Home[p].tab = active[m]

(* A window: nothing is left of one that is gone, and what one that is not  *)
(* stale shows is what it has, unless its last frame failed.                *)
Shown(w) ==
  \/ frame[w].failed
  \/ frame[w].over = Painted(w) /\ frame[w].hidden \subseteq Has(w)

Good(w) ==
  /\ Has(w) \subseteq Panes
  /\ w \in gone => Has(w) = {} /\ inbox[w] = <<>>
  /\ w \notin stale => Shown(w)

WindowInv ==
  /\ Tables
  /\ \A m \in MuxWindows : Lit(m)
  /\ \A w \in Windows : Good(w)

(* A window that a step leaves alone stays as it is.                        *)
LEMMA OthersKeep ==
  ASSUME NEW w \in Windows, Good(w), UNCHANGED <<browsers[w], frame[w], inbox[w]>>,
         w \in stale => w \in stale', w \in gone' <=> w \in gone
  PROVE  Good(w)'
<1>1. UNCHANGED <<Has(w), Painted(w)>>
  BY DEF Has, Painted
<1>. QED  BY <1>1 DEF Good, Shown

(* So does what the multiplexer has, unless panes die or a tab is selected. *)
LEMMA LitKeeps ==
  ASSUME \A m \in MuxWindows : Lit(m), UNCHANGED <<live, active>>
  PROVE  \A m \in MuxWindows : Lit(m)'
BY DEF Lit, PanesOf

(* A notification reaches windows that are there.                           *)
LEMMA WebOpenKeeps == ASSUME WindowInv, NEW p \in Panes, WebOpen(p) PROVE WindowInv'
<1>. USE DEF WindowInv
<1>1. Tables'
  BY DEF WebOpen, Tables
<1>2. ASSUME NEW w \in Windows PROVE Good(w)'
  <2>1. UNCHANGED <<Has(w), Painted(w), frame, gone, stale>>
    BY DEF WebOpen, Has, Painted
  <2>2. w \in gone => inbox'[w] = inbox[w]
    BY DEF WebOpen
  <2>. QED  BY <2>1, <2>2 DEF Good, Shown
<1>. QED  BY <1>1, <1>2, LitKeeps DEF WebOpen

(* A request is handled: the window is stale, or its browsers are what they *)
(* were.                                                                    *)
LEMMA HandleKeeps ==
  ASSUME WindowInv, NEW w \in Windows, HandleWebOpen(w) PROVE WindowInv'
<1>. USE DEF WindowInv
<1>. DEFINE p == Head(inbox[w])
<1>0. w \notin gone /\ p \in Panes /\ Tail(inbox[w]) \in Seq(Panes)
  BY DEF HandleWebOpen, Tables
<1>1. PICK created \in BOOLEAN :
        /\ created => p \in live
        /\ browsers' = [browsers EXCEPT ![w] =
             [q \in IF created THEN (Has(w) \ {p}) \cup {p} ELSE Has(w) \ {p} |->
                IF q = p THEN FALSE ELSE browsers[w][q]]]
        /\ stale' = IF created \/ p \in Has(w) THEN stale \cup {w} ELSE stale
  BY DEF HandleWebOpen
<1>2. inbox' = [inbox EXCEPT ![w] = Tail(inbox[w])]
      /\ UNCHANGED <<live, active, shows, gone, frame>>
  BY DEF HandleWebOpen
<1>3. Tables'
  BY <1>0, <1>1, <1>2 DEF Tables
<1>4. ASSUME NEW v \in Windows, v # w PROVE Good(v)'
  <2>1. browsers'[v] = browsers[v] /\ inbox'[v] = inbox[v] /\ (v \in stale => v \in stale')
    BY <1>1, <1>2, <1>4 DEF Tables
  <2>. QED  BY <1>2, <2>1, OthersKeep
<1>5. Good(w)'
  <2>1. Has(w)' \subseteq Panes
    BY <1>0, <1>1 DEF Has, Tables, Good
  <2>2. CASE created \/ p \in Has(w)
    BY <1>0, <1>1, <1>2, <2>1, <2>2 DEF Good
  <2>3. CASE ~created /\ p \notin Has(w)
    <3>1. /\ Has(w)' = Has(w)
          /\ \A q \in Has(w) : browsers'[w][q] = browsers[w][q]
      BY <1>1, <2>3 DEF Has, Tables
    <3>2. Painted(w)' = Painted(w)
      BY <3>1 DEF Painted
    <3>. QED  BY <1>0, <1>1, <1>2, <2>1, <2>3, <3>1, <3>2 DEF Good, Shown
  <2>. QED  BY <2>2, <2>3
<1>. QED  BY <1>2, <1>3, <1>4, <1>5, LitKeeps

(* A browser is closed, and its window stale.                               *)
LEMMA CtrlCKeeps == ASSUME WindowInv, NEW w \in Windows, CtrlC(w) PROVE WindowInv'
<1>. USE DEF WindowInv
<1>1. PICK p \in Has(w) :
        browsers' = [browsers EXCEPT ![w] = [q \in Has(w) \ {p} |-> browsers[w][q]]]
  BY DEF CtrlC
<1>2. /\ w \notin gone /\ stale' = stale \cup {w}
      /\ UNCHANGED <<live, active, shows, gone, inbox, frame>>
  BY DEF CtrlC
<1>3. Tables'
  BY <1>1, <1>2 DEF Tables
<1>4. ASSUME NEW v \in Windows, v # w PROVE Good(v)'
  <2>1. browsers'[v] = browsers[v]
    BY <1>1, <1>4 DEF Tables
  <2>. QED  BY <1>2, <2>1, OthersKeep
<1>5. Good(w)'
  <2>1. Has(w)' \subseteq Panes
    BY <1>1 DEF Has, Tables, Good
  <2>. QED  BY <1>2, <2>1 DEF Good
<1>. QED  BY <1>2, <1>3, <1>4, <1>5, LitKeeps

(* Another tab with a pane is selected.                                     *)
LEMMA SwitchTabKeeps ==
  ASSUME WindowInv, NEW w \in Windows, SwitchTab(w) PROVE WindowInv'
<1>. USE DEF WindowInv
<1>1. PICK p \in Of(w) : active' = [active EXCEPT ![shows[w]] = Home[p].tab]
  BY DEF SwitchTab
<1>2. /\ w \notin gone /\ stale' = stale \cup {w}
      /\ UNCHANGED <<live, shows, gone, inbox, browsers, frame>>
  BY DEF SwitchTab
<1>3. Home[p].tab \in Nat /\ shows[w] \in MuxWindows
  BY <1>1, BrowserAssumption DEF Of, PanesOf, Tables
<1>4. Tables'
  BY <1>1, <1>2, <1>3 DEF Tables
<1>5. ASSUME NEW v \in Windows PROVE Good(v)'
  BY <1>2, OthersKeep
<1>6. ASSUME NEW m \in MuxWindows PROVE Lit(m)'
  <2>1. PanesOf(m)' = PanesOf(m)
    BY <1>2 DEF PanesOf
  <2>2. CASE m = shows[w]
    BY <1>1, <2>1, <2>2 DEF Lit, Of, Tables
  <2>3. CASE m # shows[w]
    BY <1>1, <2>1, <2>3 DEF Lit, Tables
  <2>. QED  BY <2>2, <2>3
<1>. QED  BY <1>4, <1>5, <1>6

(* Another window of the multiplexer is shown.                              *)
LEMMA SwitchToMuxWindowKeeps ==
  ASSUME WindowInv, NEW w \in Windows, NEW m \in MuxWindows, SwitchToMuxWindow(w, m)
  PROVE  WindowInv'
<1>. USE DEF WindowInv
<1>1. /\ w \notin gone /\ shows' = [shows EXCEPT ![w] = m] /\ stale' = stale \cup {w}
      /\ UNCHANGED <<live, active, gone, inbox, browsers, frame>>
  BY DEF SwitchToMuxWindow
<1>2. Tables'
  BY <1>1 DEF Tables
<1>3. ASSUME NEW v \in Windows PROVE Good(v)'
  BY <1>1, OthersKeep
<1>. QED  BY <1>1, <1>2, <1>3, LitKeeps

(* A pane dies: if its tab goes with it, another is selected that has one.  *)
LEMMA PaneDiesKeeps == ASSUME WindowInv, NEW p \in Panes, PaneDies(p) PROVE WindowInv'
<1>. USE DEF WindowInv
<1>. DEFINE m == Home[p].win
            left == PanesOf(m) \ {p}
            tabs == {Home[q].tab : q \in left}
<1>1. /\ live' = live \ {p} /\ stale' = stale \cup Showing(m)
      /\ IF active[m] \in tabs \/ tabs = {} THEN UNCHANGED active
         ELSE active' \in {[active EXCEPT ![m] = t] : t \in tabs}
      /\ UNCHANGED <<shows, gone, inbox, browsers, frame>>
  BY DEF PaneDies
<1>2. m \in MuxWindows /\ tabs \subseteq Nat
  BY BrowserAssumption DEF PanesOf, Tables
<1>3. active' \in [MuxWindows -> Nat] /\ \A n \in MuxWindows : n # m => active'[n] = active[n]
  BY <1>1, <1>2 DEF Tables
<1>4. Tables'
  BY <1>1, <1>3 DEF Tables, Showing
<1>5. ASSUME NEW v \in Windows PROVE Good(v)'
  BY <1>1, OthersKeep
<1>6. ASSUME NEW n \in MuxWindows, n # m PROVE Lit(n)'
  <2>1. PanesOf(n)' = PanesOf(n)
    BY <1>1, <1>6 DEF PanesOf
  <2>. QED  BY <1>3, <1>6, <2>1 DEF Lit
<1>7. Lit(m)'
  <2>1. PanesOf(m)' = left
    BY <1>1 DEF PanesOf
  <2>2. ASSUME left # {} PROVE active'[m] \in tabs
    <3>1. tabs # {}
      BY <2>2
    <3>. QED  BY <1>1, <1>2, <3>1 DEF Tables
  <2>. QED  BY <2>1, <2>2 DEF Lit
<1>. QED  BY <1>4, <1>5, <1>6, <1>7

(* A window goes, and all that was kept for it.                             *)
LEMMA WindowGoesKeeps ==
  ASSUME WindowInv, NEW w \in Windows, WindowGoes(w) PROVE WindowInv'
<1>. USE DEF WindowInv
<1>1. /\ gone' = gone \cup {w} /\ stale' = stale \ {w}
      /\ inbox' = [inbox EXCEPT ![w] = <<>>]
      /\ browsers' = [browsers EXCEPT ![w] = [p \in {} |-> FALSE]]
      /\ frame' = [frame EXCEPT ![w] = Blank]
      /\ UNCHANGED <<live, active, shows>>
  BY DEF WindowGoes, Closes
<1>2. Tables'
  BY <1>1, BlankType DEF Tables
<1>3. ASSUME NEW v \in Windows, v # w PROVE Good(v)'
  <2>1. UNCHANGED <<browsers[v], frame[v], inbox[v]>>
    BY <1>1, <1>3 DEF Tables
  <2>. QED  BY <1>1, <1>3, <2>1, OthersKeep
<1>4. Good(w)'
  <2>1. Has(w)' = {} /\ inbox'[w] = <<>> /\ frame'[w] = Blank
    BY <1>1 DEF Has, Tables
  <2>2. Painted(w)' = {}
    BY <2>1 DEF Painted
  <2>. QED  BY <2>1, <2>2 DEF Good, Shown, Blank
<1>. QED  BY <1>1, <1>2, <1>3, <1>4, LitKeeps

(* A frame shows what there is, or is known to have failed.                 *)
LEMMA PaintKeeps ==
  ASSUME WindowInv, NEW w \in Windows, Paint(w) \/ PaintFails(w) PROVE WindowInv'
<1>. USE DEF WindowInv
<1>1. stale' = stale \ {w} /\ UNCHANGED <<live, active, shows, gone, inbox, browsers>>
  BY DEF Paint, PaintFails
<1>2. \E f \in Frames :
        /\ frame' = [frame EXCEPT ![w] = f]
        /\ f.failed \/ (f.over = Painted(w) /\ f.hidden \subseteq Has(w))
  <2>0. /\ Painted(w) \in SUBSET Panes /\ Visible(w) \in SUBSET Panes
        /\ frame \in [Windows -> Frames]
    BY DEF Painted, Visible, Of, PanesOf, Tables, Good
  <2>1. CASE Paint(w)
    <3> DEFINE f == [over |-> Painted(w), hidden |-> Visible(w) \cap Has(w),
                     failed |-> FALSE]
    <3>1. f \in Frames /\ f.over = Painted(w) /\ f.hidden \subseteq Has(w)
      BY <2>0 DEF Frames
    <3>. QED  BY <2>1, <3>1 DEF Paint
  <2>2. CASE frame' = [frame EXCEPT ![w].failed = TRUE]
    <3> DEFINE f == [frame[w] EXCEPT !.failed = TRUE]
    <3>1. f \in Frames /\ f.failed
      BY <2>0 DEF Frames
    <3>2. frame' = [frame EXCEPT ![w] = f]
      BY <2>0, <2>2
    <3>. QED  BY <3>1, <3>2
  <2>3. ASSUME NEW more \in SUBSET (Visible(w) \ Has(w)),
               frame' = [frame EXCEPT ![w] = [over |-> Painted(w),
                           hidden |-> (Visible(w) \cap Has(w)) \cup more,
                           failed |-> TRUE]]
        PROVE  \E f \in Frames : frame' = [frame EXCEPT ![w] = f] /\ f.failed
    <3> DEFINE f == [over |-> Painted(w), hidden |-> (Visible(w) \cap Has(w)) \cup more,
                     failed |-> TRUE]
    <3>1. f \in Frames /\ f.failed
      BY <2>0 DEF Frames
    <3>. QED  BY <2>3, <3>1
  <2>. QED  BY <2>1, <2>2, <2>3 DEF PaintFails
<1>3. PICK f \in Frames :
        /\ frame' = [frame EXCEPT ![w] = f]
        /\ f.failed \/ (f.over = Painted(w) /\ f.hidden \subseteq Has(w))
  BY <1>2
<1>4. Tables'
  BY <1>1, <1>3 DEF Tables
<1>5. ASSUME NEW v \in Windows, v # w PROVE Good(v)'
  <2>1. frame'[v] = frame[v]
    BY <1>3, <1>5 DEF Tables
  <2>. QED  BY <1>1, <1>5, <2>1, OthersKeep
<1>6. Good(w)'
  <2>1. UNCHANGED <<Has(w), Painted(w)>> /\ frame'[w] = f
    BY <1>1, <1>3 DEF Has, Painted, Tables
  <2>. QED  BY <1>1, <1>3, <2>1 DEF Good, Shown
<1>. QED  BY <1>1, <1>4, <1>5, <1>6, LitKeeps

(* CEF has painted a page: the window of its browser is stale.              *)
LEMMA OnPaintKeeps ==
  ASSUME WindowInv, NEW w \in Windows, NEW p \in Has(w), OnPaint(w, p) PROVE WindowInv'
<1>. USE DEF WindowInv
<1>1. /\ browsers' = [browsers EXCEPT ![w][p] = TRUE] /\ stale' = stale \cup {w}
      /\ UNCHANGED <<live, active, shows, gone, inbox, frame>>
  BY DEF OnPaint
<1>2. w \notin gone
  BY DEF Good
<1>3. Tables'
  BY <1>1, <1>2 DEF Tables
<1>4. ASSUME NEW v \in Windows, v # w PROVE Good(v)'
  <2>1. browsers'[v] = browsers[v]
    BY <1>1, <1>4 DEF Tables
  <2>. QED  BY <1>1, <2>1, OthersKeep
<1>5. Good(w)'
  <2>1. UNCHANGED Has(w)
    BY <1>1 DEF Has, Tables
  <2>. QED  BY <1>1, <1>2, <2>1 DEF Good
<1>. QED  BY <1>1, <1>3, <1>4, <1>5, LitKeeps

----------------------------------------------------------------------------
(* Every step keeps the windows in order.                                   *)
LEMMA StepKeeps == ASSUME WindowInv, [Next]_vars PROVE WindowInv'
<1>1. CASE UNCHANGED windowVars
  <2>1. Tables'
    BY <1>1 DEF windowVars, WindowInv, Tables
  <2>2. \A w \in Windows : Good(w)'
    BY <1>1, OthersKeep DEF windowVars, WindowInv
  <2>. QED  BY <1>1, <2>1, <2>2, LitKeeps DEF windowVars, WindowInv
<1>2. CASE Work
  <2>1. ASSUME NEW b \in ToPaint, OnPaint(b[1], b[2]) PROVE WindowInv'
    BY <2>1, OnPaintKeeps DEF ToPaint
  <2>. QED  BY <1>1, <1>2, <2>1 DEF Work, windowVars
<1>3. CASE Handles \/ Paints
  BY <1>3, HandleKeeps, PaintKeeps DEF Handles, Paints
<1>4. CASE \E p \in Panes : WebOpen(p) \/ PaneDies(p)
  BY <1>4, WebOpenKeeps, PaneDiesKeeps
<1>5. CASE \E w \in Windows : CtrlC(w) \/ SwitchTab(w) \/ WindowGoes(w)
  BY <1>5, CtrlCKeeps, SwitchTabKeeps, WindowGoesKeeps
<1>6. CASE \E w \in Windows, m \in MuxWindows : SwitchToMuxWindow(w, m)
  BY <1>6, SwitchToMuxWindowKeeps
<1>7. CASE Asks \/ (\E t \in Threads : AsksAnyway(t)) \/ UNCHANGED vars
  BY <1>1, <1>7 DEF Asks, NeedsWork, AsksAnyway, vars, windowVars
<1>8. CASE PumpStep /\ UNCHANGED <<windowVars, spent>>
  BY <1>1, <1>8
<1>. QED  BY <1>2, <1>3, <1>4, <1>5, <1>6, <1>7, <1>8 DEF Next, Pumps

(* The inductive invariant about the windows.                               *)
THEOREM WindowInvHolds == Spec => []WindowInv
<1>1. ASSUME Init PROVE WindowInv
  <2>1. \A p \in Panes : Home[p].tab \in Nat /\ Home[p].win \in MuxWindows
    BY BrowserAssumption
  <2>2. Tables
    BY <1>1, <2>1, BlankType DEF Init, Tables
  <2>3. ASSUME NEW w \in Windows PROVE Good(w)
    <3>1. Has(w) = {} /\ frame[w] = Blank /\ w \notin gone
      BY <1>1 DEF Init, Has
    <3>. QED  BY <3>1 DEF Good, Shown, Painted, Blank
  <2>4. ASSUME NEW m \in MuxWindows, NEW p \in PanesOf(m) PROVE Lit(m)
    <3>1. p \in Panes /\ Home[p].win = m
      BY <1>1, <2>4 DEF Init, PanesOf
    <3>2. PICK q \in PanesOf(m) : Home[q].tab = active[Home[q].win]
      BY <1>1, <3>1 DEF Init
    <3>3. Home[q].win = m
      BY <3>2 DEF PanesOf
    <3>. QED  BY <3>2, <3>3 DEF Lit
  <2>. QED  BY <2>2, <2>3, <2>4 DEF WindowInv, Lit
<1>2. WindowInv /\ [Next]_vars => WindowInv'
  BY StepKeeps
<1>. QED  BY <1>1, <1>2, PTL DEF Spec

(* Types, with what is left of a window that is gone (nothing), and that a  *)
(* window with panes shows some.                                            *)
THEOREM TypeCorrect == Spec => []TypeOK
<1>1. ASSUME PumpInv, WindowInv PROVE TypeOK
  <2>1. ASSUME NEW w \in Windows, Of(w) # {} PROVE Visible(w) # {}
    <3>1. shows[w] \in MuxWindows
      BY <1>1 DEF WindowInv, Tables
    <3>. QED  BY <1>1, <2>1, <3>1 DEF WindowInv, Lit, Of, Visible
  <2>. QED  BY <1>1, <2>1 DEF PumpInv, WindowInv, Tables, Good, TypeOK
<1>. QED  BY <1>1, PumpInvHolds, WindowInvHolds, PTL

(* Whatever is opened, closed, painted or selected, whichever panes and     *)
(* windows go or are used again, and whichever frames fail: a window that   *)
(* is not about to be painted shows what it has, or its last frame failed.  *)
THEOREM FrameIsCurrentHolds == Spec => []FrameIsCurrent
<1>1. WindowInv => FrameIsCurrent
  BY DEF WindowInv, Good, Shown, FrameIsCurrent
<1>. QED  BY <1>1, WindowInvHolds, PTL

=============================================================================
