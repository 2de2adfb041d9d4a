---------------------------- MODULE WebViewFocus ----------------------------
(***************************************************************************)
(* Who gets the keys: the focus modes of the webviews on one pane of the   *)
(* ts1 app (WebViewContainer.swift, ControlBar.swift) against the first    *)
(* responder of the window (SurfaceView_AppKit.swift).  The two are kept   *)
(* in step by hand, in handlers of keys, clicks and main-queue blocks, by  *)
(* a container that may lie under others on the same surface.              *)
(*                                                                         *)
(* The window is the key window.  AppKit is external: makeFirstResponder   *)
(* succeeds; a first responder that leaves the window is replaced by the   *)
(* window itself; and when becomeFirstResponder makes another view first   *)
(* responder before it returns, either of the two may end up as it.        *)
(***************************************************************************)
EXTENDS Naturals, Sequences

CONSTANTS
  Views,       \* the webviews that may be opened on the pane, one id each
  Habits       \* what users and pages do beyond keys on a webview and opening
               \* one: "exit" (pages close themselves), "edit" (users edit the
               \* URL), "away" (users go to another pane and come back)

ASSUME HabitsAssumption == Habits \subseteq {"exit", "edit", "away"}

VARIABLES
  stack,       \* the containers among the surface's subviews, the last on top
  focusMode,   \* `focusMode` of each container
  isInsertMode,\* the containers whose control bar has isInsertMode set
  first,       \* the first responder: see Responders
  closed,      \* views that closeWebView took out of `containers`
  mainQueue    \* blocks of DispatchQueue.main that create a view, focus it, or
               \* take it down

vars == <<stack, focusMode, isInsertMode, first, closed, mainQueue>>

Surface == [at |-> "surface"]          \* the terminal, with its keybindings
Window == [at |-> "window"]            \* nobody
Elsewhere == [at |-> "elsewhere"]      \* another pane
Web(v) == [at |-> "web", view |-> v]   \* the page
Field(v) == [at |-> "field", view |-> v] \* the URL field of a control bar

Responders ==
  {Surface, Window, Elsewhere} \cup {Web(v) : v \in Views}
    \cup {Field(v) : v \in Views}

\* A "remove" block knows whether a container was left when it was queued.
Blocks ==
  [kind : {"create", "focus"}, view : Views]
    \cup [kind : {"remove"}, view : Views, last : {"yes", "no"}]

\* The types of the views, their modes and the queue.
TypeOK ==
  /\ stack \in Seq(Views)
  /\ focusMode \in [Views -> {"control", "browse", "insert"}]
  /\ isInsertMode \subseteq Views
  /\ first \in Responders
  /\ closed \subseteq Views
  /\ mainQueue \in Seq(Blocks)

Init ==
  /\ stack = <<>>
  /\ focusMode = [v \in Views |-> "control"]
  /\ isInsertMode = {}
  /\ first = Surface
  /\ closed = {}
  /\ mainQueue = <<>>

-----------------------------------------------------------------------------
(* Helpers.                                                                *)

OnPane(v) == \E i \in DOMAIN stack : stack[i] = v
Top == stack[Len(stack)]               \* subviews.last(where: WebViewContainer)
Opened(v) ==
  \/ OnPane(v) \/ v \in closed
  \/ \E i \in DOMAIN mainQueue : mainQueue[i].view = v

Runs(kind) == mainQueue # <<>> /\ Head(mainQueue).kind = kind

\* removeFromSuperview: a container is among the subviews at most once.
Without(s, e) ==
  IF \E i \in DOMAIN s : s[i] = e
  THEN LET k == CHOOSE i \in DOMAIN s : s[i] = e
       IN  [i \in 1..(Len(s) - 1) |-> IF i < k THEN s[i] ELSE s[i + 1]]
  ELSE s

\* The first responder is inside this container.
Within(v) == first \in {Web(v), Field(v)}

\* A mutant of FocusSurface: the container at the bottom, subviews.first, as
\* docs/keybindings.md has it.
FocusSurfaceFromBelow(r, mode, views) ==
  first' \in IF r # Surface /\ views # <<>> /\ mode[views[1]] = "browse"
             THEN {Web(views[1]), Surface} ELSE {Surface}

\* makeFirstResponder(surface): SurfaceView.becomeFirstResponder hands on to
\* the page when the topmost container is in browse mode.  It is not asked
\* when the surface is the first responder already.
FocusSurface(r, mode, views) ==
  first' \in IF r # Surface /\ views # <<>> /\ mode[views[Len(views)]] = "browse"
             THEN {Web(views[Len(views)]), Surface} ELSE {Surface}

\* A mutant of focusBrowser: the container takes the focus for its page.
FocusesContainer(v) ==
  /\ focusMode' = [focusMode EXCEPT ![v] = "browse"]
  /\ first' = [at |-> "container", view |-> v]

focusBrowser(v) ==
  /\ focusMode' = [focusMode EXCEPT ![v] = "browse"]
  /\ first' = Web(v)

\* Mutants of focusControlBar: the responder first, then the mode; and the
\* responder alone.
FocusesThenSetsMode(v) ==
  /\ FocusSurface(first, focusMode, stack)
  /\ focusMode' = [focusMode EXCEPT ![v] = "control"]

ForgetsMode(v) ==
  /\ UNCHANGED focusMode
  /\ FocusSurface(first, focusMode, stack)

focusControlBar(v) ==
  /\ focusMode' = [focusMode EXCEPT ![v] = "control"]
  /\ FocusSurface(first, focusMode', stack)

focusURLField(v) ==
  /\ focusMode' = [focusMode EXCEPT ![v] = "insert"]
  /\ isInsertMode' = isInsertMode \cup {v}
  /\ first' = Field(v)

-----------------------------------------------------------------------------
(* Opening and closing, as far as the focus goes.                          *)

\* createWebView queues the block that creates the view.
Open(v) ==
  /\ ~Opened(v)
  /\ mainQueue' = Append(mainQueue, [kind |-> "create", view |-> v])
  /\ UNCHANGED <<stack, focusMode, isInsertMode, first, closed>>

\* The block itself.  addSubview makes viewDidMoveToWindow queue a second
\* focusBrowser behind whatever is queued by now.
Create ==
  /\ Runs("create")
  /\ LET v == Head(mainQueue).view
     IN  /\ stack' = Append(stack, v)
         /\ focusBrowser(v)
         /\ mainQueue' = Append(Tail(mainQueue), [kind |-> "focus", view |-> v])
  /\ UNCHANGED <<isInsertMode, closed>>

\* That second focusBrowser.
FocusAgain ==
  /\ Runs("focus")
  /\ focusBrowser(Head(mainQueue).view)
  /\ mainQueue' = Tail(mainQueue)
  /\ UNCHANGED <<stack, isInsertMode, closed>>

\* closeWebView: a second close finds no container.
closeWebView(v) ==
  /\ v \notin closed
  /\ closed' = closed \cup {v}
  /\ mainQueue' =
       Append(mainQueue,
              [kind |-> "remove", view |-> v,
               last |-> IF \E u \in Views \ closed' : OnPane(u) THEN "no" ELSE "yes"])
  /\ UNCHANGED <<stack, focusMode, isInsertMode, first>>

\* A mutant of Remove: the surface is asked only when the page that goes was
\* the first responder.
RemoveRestoresItsOwn ==
  /\ Runs("remove")
  /\ LET v == Head(mainQueue).view
         rest == Without(stack, v)
     IN  /\ stack' = rest
         /\ IF Head(mainQueue).last = "yes" /\ Within(v)
            THEN FocusSurface(first, focusMode, rest)
            ELSE first' = IF Within(v) THEN Window ELSE first
  /\ mainQueue' = Tail(mainQueue)
  /\ UNCHANGED <<focusMode, isInsertMode, closed>>

\* The block it queues.  The surface gets the focus back when no container was
\* left at the time of the close, and only then.
Remove ==
  /\ Runs("remove")
  /\ LET v == Head(mainQueue).view
         rest == Without(stack, v)
         left == IF Within(v) THEN Window ELSE first
     IN  /\ stack' = rest
         /\ IF Head(mainQueue).last = "yes"
            THEN FocusSurface(left, focusMode, rest)
            ELSE first' = left
  /\ mainQueue' = Tail(mainQueue)
  /\ UNCHANGED <<focusMode, isInsertMode, closed>>

\* window.termsurf.exit(), of any page on the pane.
PageExits(v) == "exit" \in Habits /\ OnPane(v) /\ closeWebView(v)

-----------------------------------------------------------------------------
(* Keys.                                                                   *)

\* The containers whose key monitor takes Ctrl+C: in browse mode, with the
\* first responder inside them or on the surface that all of them share.
Takers ==
  {v \in Views : OnPane(v) /\ focusMode[v] = "browse"
                   /\ (first = Surface \/ Within(v))}

\* The monitors see Ctrl+C before any view, in an order that is AppKit's.
CtrlCLeavesPage ==
  /\ \E v \in Takers : focusControlBar(v)
  /\ UNCHANGED <<stack, isInsertMode, closed, mainQueue>>

\* Otherwise performKeyEquivalent of the surface: the topmost container closes
\* when it is in control mode; in insert mode the key is swallowed.
CtrlCCloses ==
  /\ Takers = {}
  /\ stack # <<>>
  /\ first = Surface \/ Within(Top)
  /\ focusMode[Top] = "control"
  /\ closeWebView(Top)

CtrlC == CtrlCLeavesPage \/ CtrlCCloses

\* keyDown of the surface, with the topmost container in control mode.
Enter ==
  /\ first = Surface /\ stack # <<>> /\ focusMode[Top] = "control"
  /\ focusBrowser(Top)
  /\ UNCHANGED <<stack, isInsertMode, closed, mainQueue>>

TypeI ==
  /\ "edit" \in Habits
  /\ first = Surface /\ stack # <<>> /\ focusMode[Top] = "control"
  /\ focusURLField(Top)
  /\ UNCHANGED <<stack, closed, mainQueue>>

\* Enter in the URL field: exitInsertMode, and on to the page, or to the control
\* bar when the text is no URL.
SubmitURL(v) ==
  /\ first = Field(v)
  /\ isInsertMode' = isInsertMode \ {v}
  /\ focusBrowser(v) \/ focusControlBar(v)
  /\ UNCHANGED <<stack, closed, mainQueue>>

\* Esc in the URL field.
CancelURL(v) ==
  /\ first = Field(v)
  /\ isInsertMode' = isInsertMode \ {v}
  /\ focusControlBar(v)
  /\ UNCHANGED <<stack, closed, mainQueue>>

-----------------------------------------------------------------------------
(* The mouse, on the topmost container, and other panes.                   *)

\* The page itself in browse mode; the dim overlay above it in the others.
ClickPage ==
  /\ stack # <<>>
  /\ IF focusMode[Top] = "browse"
     THEN first' = Web(Top) /\ UNCHANGED focusMode
     ELSE focusBrowser(Top)
  /\ UNCHANGED <<stack, isInsertMode, closed, mainQueue>>

\* The dim overlay above the control bar.
ClickBar ==
  /\ stack # <<>> /\ focusMode[Top] = "browse"
  /\ focusControlBar(Top)
  /\ UNCHANGED <<stack, isInsertMode, closed, mainQueue>>

\* The URL field, once nothing covers it: ControlBar.mouseDown asks for insert
\* mode, unless it believes to be in it.  The field is editable then and takes
\* the focus by itself.
ClickField ==
  /\ "edit" \in Habits
  /\ stack # <<>> /\ focusMode[Top] # "browse"
  /\ IF Top \in isInsertMode
     THEN first' = Field(Top) /\ UNCHANGED <<focusMode, isInsertMode>>
     ELSE focusURLField(Top)
  /\ UNCHANGED <<stack, closed, mainQueue>>

\* Another pane takes the focus.  No code ends the editing of a URL for that.
GoAway ==
  /\ "away" \in Habits /\ first # Elsewhere
  /\ first' = Elsewhere
  /\ UNCHANGED <<stack, focusMode, isInsertMode, closed, mainQueue>>

\* Ghostty.moveFocus to this pane.
ComeBack ==
  /\ first = Elsewhere
  /\ FocusSurface(first, focusMode, stack)
  /\ UNCHANGED <<stack, focusMode, isInsertMode, closed, mainQueue>>

-----------------------------------------------------------------------------

RunBlock == Create \/ FocusAgain \/ Remove

Keys ==
  \/ CtrlC \/ Enter \/ TypeI
  \/ \E v \in Views : SubmitURL(v) \/ CancelURL(v)

Clicks == ClickPage \/ ClickBar \/ ClickField

Next ==
  \/ RunBlock \/ Keys \/ Clicks \/ GoAway \/ ComeBack
  \/ \E v \in Views : Open(v) \/ PageExits(v)

Spec == Init /\ [][Next]_vars /\ WF_vars(RunBlock)

-----------------------------------------------------------------------------
(* Properties.                                                             *)

\* Keys go to a page only while its container is in browse mode: no order of
\* blocks, keys and clicks leaves the page first responder in another mode,
\* where the control bar says otherwise and the monitor lets Ctrl+C through.
OnlyBrowsedPagesGetKeys ==
  \A v \in Views : first = Web(v) => focusMode[v] = "browse"

\* A page under another one does not have the keyboard once the blocks have
\* run, although each container focuses itself twice and is woken by the
\* surface they share.
KeyboardIsOnTop ==
  \A v \in Views : Within(v) /\ mainQueue = <<>> => v = Top

\* When the last webview is gone so is its hold on the keyboard: the terminal
\* has it, unless another pane does.
TerminalGetsFocusBack ==
  stack = <<>> /\ mainQueue = <<>> => first \in {Surface, Elsewhere}

\* Ctrl+C on a page that has the keyboard always leaves it, whichever monitor
\* takes it.  Which one takes a Ctrl+C on the terminal is not part of this.
CtrlCEscapes ==
  [][\A v \in Views :
       CtrlC /\ first = Web(v) => focusMode'[v] = "control" /\ first' # Web(v)]_vars

\* "User can always exit browse mode via Ctrl+C" (docs/keybindings.md:362),
\* unless the keyboard is in another pane.
CtrlCGuarantee ==
  stack # <<>> /\ mainQueue = <<>> /\ focusMode[Top] = "browse"
    => first = Elsewhere \/ Takers # {}

\* "ctrl+c closes the webview" in control mode (docs/keybindings.md:39), where
\* the surface has the keyboard.
ControlModeCtrlCCloses ==
  [][CtrlC /\ first = Surface /\ focusMode[Top] = "control"
       => closed' = closed \cup {Top}]_vars

\* "Whether we're currently in insert mode" (ControlBar.swift:22).
BarKnowsItsMode ==
  \A v \in Views : v \in isInsertMode => focusMode[v] = "insert"

\* Insert mode: "URL text field is the first responder" (docs/keybindings.md:50),
\* unless the keyboard is in another pane.
InsertModeHasTheField ==
  stack # <<>> /\ mainQueue = <<>> /\ focusMode[Top] = "insert"
    => first \in {Field(Top), Elsewhere}

=============================================================================
