------------------------ MODULE WebViewFocus_proofs ------------------------
(***************************************************************************)
(* Theorems of WebViewFocus, for any number of webviews on a pane: a page  *)
(* has the keyboard in browse mode only, and Ctrl+C takes it away; once    *)
(* the blocks have run the keyboard is with the page on top, and with the  *)
(* terminal, or another pane, when there is none.                          *)
(***************************************************************************)
EXTENDS WebViewFocus, TLAPS

Modes == {"control", "browse", "insert"}

\* What is inductive: every handler sets the mode before, or with, the
\* responder.
Browsed == focusMode \in [Views -> Modes] /\ OnlyBrowsedPagesGetKeys

\* Pages are told apart from each other and from every other responder.
LEMMA Distinct ==
  /\ \A u, v : Web(u) = Web(v) => u = v
  /\ \A u, v : Web(u) # Field(v)
  /\ \A v : Web(v) \notin {Surface, Window, Elsewhere}
  BY DEF Web, Field, Surface, Window, Elsewhere

\* makeFirstResponder(surface) gives the keyboard to a page in browse mode or
\* to the terminal.
LEMMA FocusSurfaceGives ==
  ASSUME NEW r, NEW mode, NEW views, FocusSurface(r, mode, views)
  PROVE  \/ first' = Surface
         \/ first' = Web(views[Len(views)]) /\ mode[views[Len(views)]] = "browse"
  BY DEF FocusSurface

\* A handler that asks for the surface under the new modes keeps Browsed.
LEMMA SurfaceKeeps ==
  ASSUME NEW r, NEW views, focusMode' \in [Views -> Modes],
         FocusSurface(r, focusMode', views)
  PROVE  Browsed'
  BY FocusSurfaceGives, Distinct DEF Browsed, OnlyBrowsedPagesGetKeys

\* focusBrowser gives the page the keyboard along with browse mode.
LEMMA FocusBrowserKeeps == ASSUME Browsed, NEW v, focusBrowser(v) PROVE Browsed'
  BY Distinct DEF Browsed, OnlyBrowsedPagesGetKeys, focusBrowser, Modes

\* focusControlBar leaves browse mode before it asks for the surface.
LEMMA FocusControlBarKeeps == ASSUME Browsed, NEW v, focusControlBar(v) PROVE Browsed'
  <1>1. focusMode' \in [Views -> Modes]
    BY DEF Browsed, focusControlBar, Modes
  <1> QED
    BY <1>1, SurfaceKeeps DEF focusControlBar

\* focusURLField gives the URL field the keyboard.
LEMMA FocusURLFieldKeeps == ASSUME Browsed, NEW v, focusURLField(v) PROVE Browsed'
  BY Distinct DEF Browsed, OnlyBrowsedPagesGetKeys, focusURLField, Modes

\* The block that takes a view down hands the keyboard on, or to nobody.
LEMMA RemoveKeeps == ASSUME Browsed, Remove PROVE Browsed'
  <1>1. focusMode' = focusMode
    BY DEF Remove
  <1> DEFINE v == Head(mainQueue).view
             rest == Without(stack, v)
             left == IF Within(v) THEN Window ELSE first
  <1>2. FocusSurface(left, focusMode, rest) \/ first' = left
    BY DEF Remove
  <1>3. CASE FocusSurface(left, focusMode, rest)
    <2>1. FocusSurface(left, focusMode', rest) /\ focusMode' \in [Views -> Modes]
      BY <1>1, <1>3 DEF Browsed
    <2> HIDE DEF left, rest
    <2> QED
      BY <2>1, SurfaceKeeps
  <1>4. CASE first' = left
    BY <1>1, <1>4, Distinct DEF Browsed, OnlyBrowsedPagesGetKeys
  <1> QED
    BY <1>2, <1>3, <1>4

\* Every handler of keys and clicks, and every block, keeps Browsed.
LEMMA StepKeeps == ASSUME Browsed, [Next]_vars PROVE Browsed'
  <1>1. CASE Create \/ FocusAgain \/ Enter
    BY <1>1, FocusBrowserKeeps DEF Create, FocusAgain, Enter
  <1>2. CASE Remove
    BY <1>2, RemoveKeeps
  <1>3. CASE CtrlCLeavesPage \/ ClickBar
    BY <1>3, FocusControlBarKeeps DEF CtrlCLeavesPage, ClickBar
  <1>4. CASE TypeI
    BY <1>4, FocusURLFieldKeeps DEF TypeI
  <1>5. ASSUME NEW v \in Views, SubmitURL(v) \/ CancelURL(v) PROVE Browsed'
    BY <1>5, FocusBrowserKeeps, FocusControlBarKeeps DEF SubmitURL, CancelURL
  <1>6. CASE ClickPage
    <2>1. CASE focusMode[Top] = "browse" /\ first' = Web(Top) /\ UNCHANGED focusMode
      BY <2>1, Distinct DEF Browsed, OnlyBrowsedPagesGetKeys
    <2> QED
      BY <1>6, <2>1, FocusBrowserKeeps DEF ClickPage
  <1>7. CASE ClickField
    <2>1. CASE first' = Field(Top) /\ UNCHANGED <<focusMode, isInsertMode>>
      BY <2>1, Distinct DEF Browsed, OnlyBrowsedPagesGetKeys
    <2> QED
      BY <1>7, <2>1, FocusURLFieldKeeps DEF ClickField
  <1>8. CASE GoAway
    BY <1>8, Distinct DEF GoAway, Browsed, OnlyBrowsedPagesGetKeys
  <1>9. CASE ComeBack
    <2>1. focusMode' = focusMode /\ FocusSurface(first, focusMode', stack)
      BY <1>9 DEF ComeBack
    <2> QED
      BY <2>1, SurfaceKeeps DEF Browsed
  <1>10. CASE CtrlCCloses \/ \E v \in Views : Open(v) \/ PageExits(v)
    <2>1. UNCHANGED <<focusMode, first>>
      BY <1>10 DEF CtrlCCloses, Open, PageExits, closeWebView
    <2> QED
      BY <2>1 DEF Browsed, OnlyBrowsedPagesGetKeys
  <1>11. CASE UNCHANGED vars
    BY <1>11 DEF vars, Browsed, OnlyBrowsedPagesGetKeys
  <1> QED
    BY <1>1, <1>2, <1>3, <1>4, <1>5, <1>6, <1>7, <1>8, <1>9, <1>10, <1>11
       DEF Next, RunBlock, Keys, CtrlC, Clicks

\* The inductive invariant: modes, and the page that has the keyboard is in
\* browse mode.
THEOREM BrowsedHolds == Spec => []Browsed
  <1>1. Init => Browsed
    BY Distinct DEF Init, Browsed, OnlyBrowsedPagesGetKeys, Modes
  <1> QED
    BY <1>1, StepKeeps, PTL DEF Spec

\* No order of blocks, keys and clicks, over any number of webviews, leaves the
\* keyboard with a page that is not in browse mode.
THEOREM OnlyBrowsedPagesGetKeysHolds == Spec => []OnlyBrowsedPagesGetKeys
  <1>1. Browsed => OnlyBrowsedPagesGetKeys
    BY DEF Browsed
  <1> QED
    BY <1>1, BrowsedHolds, PTL

\* Ctrl+C on a page that has the keyboard leaves it: the page is in browse mode,
\* so that its own container takes the key, and no other.
THEOREM CtrlCEscapesHolds == Spec => CtrlCEscapes
  <1>1. ASSUME Browsed, CtrlC, NEW v \in Views, first = Web(v)
        PROVE  focusMode'[v] = "control" /\ first' # Web(v)
    <2>1. focusMode[v] = "browse" /\ first # Surface
      BY <1>1, Distinct DEF Browsed, OnlyBrowsedPagesGetKeys
    <2>2. \A u : Within(u) => u = v
      BY <1>1, Distinct DEF Within
    <2>3. CtrlCLeavesPage
      BY <1>1, <2>1, <2>2 DEF CtrlC, CtrlCCloses
    <2>4. focusControlBar(v)
      BY <2>1, <2>2, <2>3 DEF CtrlCLeavesPage, Takers
    <2>5. focusMode'[v] = "control"
      BY <1>1, <2>4 DEF focusControlBar, Browsed
    <2>6. FocusSurface(first, focusMode', stack)
      BY <2>4 DEF focusControlBar
    <2>7. \/ first' = Surface
          \/ first' = Web(Top) /\ focusMode'[Top] = "browse"
      BY <2>6, FocusSurfaceGives DEF Top
    <2> QED
      BY <2>5, <2>7, Distinct
  <1>2. Browsed => [\A v \in Views : CtrlC /\ first = Web(v) =>
                      focusMode'[v] = "control" /\ first' # Web(v)]_vars
    BY <1>1
  <1> QED
    BY <1>2, BrowsedHolds, PTL DEF Spec, CtrlCEscapes

-----------------------------------------------------------------------------
(* Types, the page on top and the way back to the terminal.  What makes    *)
(* these true is the order of the blocks: every container that is created  *)
(* later focuses itself later, and the last close comes last.              *)

At(q, i, kind, v) == i \in DOMAIN q /\ q[i].kind = kind /\ q[i].view = v
Waits(kind, v) == \E i \in DOMAIN mainQueue : At(mainQueue, i, kind, v)
On(s, v) == \E i \in DOMAIN s : s[i] = v
Below(s, u, v) == \E i, j \in DOMAIN s : i < j /\ s[i] = u /\ s[j] = v

\* No view is twice among the subviews.
Apart(s) == \A i, j \in DOMAIN s : s[i] = s[j] => i = j

\* A view that waits to be created is known from nowhere else.
ToCreate ==
  \A v \in Views : Waits("create", v) =>
    /\ ~OnPane(v) /\ v \notin closed
    /\ ~Waits("focus", v) /\ ~Waits("remove", v)
    /\ \A i, j \in DOMAIN mainQueue :
         At(mainQueue, i, "create", v) /\ At(mainQueue, j, "create", v) => i = j

\* What is taken down was closed.
ToRemove == \A v \in Views : Waits("remove", v) => v \in closed

\* A container focuses itself while it is on the pane, before it is taken down.
ToFocus ==
  \A v \in Views : Waits("focus", v) =>
    /\ OnPane(v)
    /\ \A i, j \in DOMAIN mainQueue :
         At(mainQueue, i, "focus", v) /\ At(mainQueue, j, "remove", v) => i < j

\* The containers focus themselves from the bottom to the top.
UpwardsFrom(m, v) ==
  \E n \in DOMAIN mainQueue : m < n /\ At(mainQueue, n, "focus", v)
InOrder ==
  \A u, v \in Views : Below(stack, u, v) =>
    \A m \in DOMAIN mainQueue : At(mainQueue, m, "focus", u) => UpwardsFrom(m, v)

\* A container under others has the keyboard only until the topmost one
\* focuses itself again.
Keyboard ==
  \A v \in Views : Within(v) => OnPane(v) /\ (v = Top \/ Waits("focus", Top))

\* A container was not closed yet.
SomeOpen == \E u \in Views \ closed : OnPane(u)

\* The block of a close that found no container left.
Restores(q, i) == i \in DOMAIN q /\ q[i].kind = "remove" /\ q[i].last = "yes"
Leaves(q, i) == i \in DOMAIN q /\ q[i].kind = "remove" /\ q[i].last = "no"

\* A close that found others left is not the last one.
Deferred ==
  \A m \in DOMAIN mainQueue : Leaves(mainQueue, m) =>
    SomeOpen \/ \E n \in DOMAIN mainQueue : m < n /\ Restores(mainQueue, n)

\* When nobody has the keyboard it will be given back.
NobodyForNow ==
  first = Window => SomeOpen \/ \E n \in DOMAIN mainQueue : Restores(mainQueue, n)

\* What is inductive.
Inv ==
  /\ TypeOK
  /\ Apart(stack)
  /\ ToCreate /\ ToRemove /\ ToFocus /\ InOrder
  /\ Keyboard /\ Deferred /\ NobodyForNow

\* Taking a container out leaves the others, in their order.
LEMMA WithoutTakesOut ==
  ASSUME NEW s \in Seq(Views), NEW e, Apart(s)
  PROVE  /\ Without(s, e) \in Seq(Views) /\ Apart(Without(s, e))
         /\ \A u : On(Without(s, e), u) <=> On(s, u) /\ u # e
         /\ \A u, v : Below(Without(s, e), u, v) => Below(s, u, v)
         /\ s # <<>> /\ s[Len(s)] # e =>
              /\ Without(s, e) # <<>>
              /\ Without(s, e)[Len(Without(s, e))] = s[Len(s)]
  <1> DEFINE Goal(r) ==
        /\ r \in Seq(Views) /\ Apart(r)
        /\ \A u : On(r, u) <=> On(s, u) /\ u # e
        /\ \A u, v : Below(r, u, v) => Below(s, u, v)
        /\ s # <<>> /\ s[Len(s)] # e => r # <<>> /\ r[Len(r)] = s[Len(s)]
  <1>1. CASE ~On(s, e)
    <2>1. Goal(s)
      BY <1>1 DEF On
    <2> QED
      BY <1>1, <2>1 DEF Without, On
  <1>2. CASE On(s, e)
    <2> DEFINE k == CHOOSE i \in DOMAIN s : s[i] = e
               r == [i \in 1..(Len(s) - 1) |-> IF i < k THEN s[i] ELSE s[i + 1]]
    <2>1. Without(s, e) = r
      BY <1>2 DEF Without, On
    <2>2. k \in DOMAIN s /\ s[k] = e
      BY <1>2 DEF On
    <2>3. Len(s) \in Nat /\ DOMAIN s = 1..Len(s) /\ k \in 1..Len(s) /\ Len(s) - 1 \in Nat
      BY <2>2
    <2> HIDE DEF k
    <2>4. /\ DOMAIN r = 1..(Len(s) - 1)
          /\ \A i \in 1..(Len(s) - 1) : r[i] = IF i < k THEN s[i] ELSE s[i + 1]
      OBVIOUS
    <2>5. r \in Seq(Views) /\ Len(r) = Len(s) - 1
      BY <2>3
    <2> HIDE DEF r
    <2>6. \A i \in DOMAIN r : \E m \in DOMAIN s :
            m # k /\ r[i] = s[m] /\ m = IF i < k THEN i ELSE i + 1
      BY <2>3, <2>4
    <2>7. \A m \in DOMAIN s : m # k =>
            \E i \in DOMAIN r : r[i] = s[m] /\ m = IF i < k THEN i ELSE i + 1
      <3> SUFFICES ASSUME NEW m \in DOMAIN s, m # k
                   PROVE  \E i \in DOMAIN r :
                            r[i] = s[m] /\ m = IF i < k THEN i ELSE i + 1
        OBVIOUS
      <3>1. CASE m < k
        BY <2>3, <2>4, <3>1
      <3>2. CASE m > k
        <4>1. m - 1 \in 1..(Len(s) - 1) /\ ~(m - 1 < k) /\ m - 1 + 1 = m
          BY <2>3, <3>2
        <4> QED
          BY <2>4, <4>1
      <3> QED
        BY <2>3, <3>1, <3>2
    <2>8. Apart(r)
      <3> SUFFICES ASSUME NEW i \in DOMAIN r, NEW j \in DOMAIN r, r[i] = r[j]
                   PROVE  i = j
        BY DEF Apart
      <3>1. PICK m \in DOMAIN s : r[i] = s[m] /\ m = IF i < k THEN i ELSE i + 1
        BY <2>6
      <3>2. PICK n \in DOMAIN s : r[j] = s[n] /\ n = IF j < k THEN j ELSE j + 1
        BY <2>6
      <3>3. m = n
        BY <3>1, <3>2 DEF Apart
      <3> QED
        BY <2>3, <2>4, <3>1, <3>2, <3>3
    <2>9. \A u : On(r, u) <=> On(s, u) /\ u # e
      BY <2>2, <2>6, <2>7 DEF On, Apart
    <2>10. ASSUME NEW i \in DOMAIN r, NEW j \in DOMAIN r, i < j
           PROVE  Below(s, r[i], r[j])
      <3>1. PICK m \in DOMAIN s : r[i] = s[m] /\ m = IF i < k THEN i ELSE i + 1
        BY <2>6
      <3>2. PICK n \in DOMAIN s : r[j] = s[n] /\ n = IF j < k THEN j ELSE j + 1
        BY <2>6
      <3>3. m < n
        BY <2>3, <2>4, <2>10, <3>1, <3>2
      <3> QED
        BY <3>1, <3>2, <3>3 DEF Below
    <2>11. ASSUME s[Len(s)] # e
           PROVE  r # <<>> /\ r[Len(r)] = s[Len(s)]
      <3>1. k < Len(s) /\ Len(s) - 1 \in 1..(Len(s) - 1) /\ Len(s) - 1 + 1 = Len(s)
        BY <2>2, <2>3, <2>11
      <3> QED
        BY <2>3, <2>4, <2>5, <3>1
    <2>12. Goal(r)
      BY <2>5, <2>8, <2>9, <2>10, <2>11 DEF Below
    <2> QED
      BY <2>1, <2>12
  <1> QED
    BY <1>1, <1>2

\* What is queued behind a block that runs stays queued, one place further on.
LEMMA BehindHead ==
  ASSUME NEW S, NEW q \in Seq(S), q # <<>>
  PROVE  /\ Head(q) \in S /\ Head(q) = q[1] /\ 1 \in DOMAIN q
         /\ Tail(q) \in Seq(S)
         /\ \A i \in DOMAIN Tail(q) :
              i + 1 \in DOMAIN q /\ Tail(q)[i] = q[i + 1] /\ i + 1 # 1
         /\ \A i \in DOMAIN q : i # 1 =>
              i - 1 \in DOMAIN Tail(q) /\ Tail(q)[i - 1] = q[i] /\ i - 1 + 1 = i
  OBVIOUS

\* A new entry goes to the end, behind the others, which stay.
LEMMA AtTheEnd ==
  ASSUME NEW S, NEW q \in Seq(S), NEW b \in S
  PROVE  /\ Append(q, b) \in Seq(S)
         /\ Len(q) + 1 \in DOMAIN Append(q, b) /\ Append(q, b)[Len(q) + 1] = b
         /\ \A i \in DOMAIN q :
              i \in DOMAIN Append(q, b) /\ Append(q, b)[i] = q[i] /\ i < Len(q) + 1
         /\ \A i \in DOMAIN Append(q, b) :
              (i \in DOMAIN q /\ Append(q, b)[i] = q[i])
                \/ (i = Len(q) + 1 /\ Append(q, b)[i] = b)
         /\ Len(Append(q, b)) = Len(q) + 1 /\ Append(q, b) # <<>>
         /\ DOMAIN q \subseteq Nat
  OBVIOUS

\* A block that has run is off the queue, the others are in their places.
LEMMA AtBehind ==
  ASSUME NEW S, NEW q \in Seq(S), q # <<>>
  PROVE  /\ \A i, kind, v : At(Tail(q), i, kind, v) => At(q, i + 1, kind, v)
         /\ \A i, kind, v : At(q, i, kind, v) /\ i # 1 =>
              At(Tail(q), i - 1, kind, v)
         /\ \A i : Restores(Tail(q), i) => Restores(q, i + 1)
         /\ \A i : Restores(q, i) /\ i # 1 => Restores(Tail(q), i - 1)
         /\ \A i : Leaves(Tail(q), i) => Leaves(q, i + 1)
         /\ DOMAIN Tail(q) \subseteq Nat \ {0} /\ DOMAIN q \subseteq Nat \ {0}
  <1>1. DOMAIN Tail(q) \subseteq Nat \ {0} /\ DOMAIN q \subseteq Nat \ {0}
    OBVIOUS
  <1> QED
    BY <1>1, BehindHead DEF At, Restores, Leaves

\* A block that is queued is behind the others, which keep their places.
LEMMA AtAppended ==
  ASSUME NEW S, NEW q \in Seq(S), NEW b \in S
  PROVE  /\ \A i, kind, v : At(q, i, kind, v) =>
              At(Append(q, b), i, kind, v) /\ i < Len(q) + 1
         /\ \A i, kind, v : At(Append(q, b), i, kind, v) =>
              \/ At(q, i, kind, v)
              \/ i = Len(q) + 1 /\ b.kind = kind /\ b.view = v
         /\ At(Append(q, b), Len(q) + 1, b.kind, b.view)
         /\ \A i : Restores(q, i) => Restores(Append(q, b), i) /\ i < Len(q) + 1
         /\ \A i : Leaves(Append(q, b), i) =>
              \/ Leaves(q, i)
              \/ i = Len(q) + 1 /\ b.kind = "remove" /\ b.last = "no"
         /\ b.kind = "remove" /\ b.last = "yes" => Restores(Append(q, b), Len(q) + 1)
         /\ DOMAIN q \subseteq Nat
  BY AtTheEnd DEF At, Restores, Leaves

\* The blocks by their kinds.
LEMMA BlockTypes ==
  /\ \A v \in Views : [kind |-> "create", view |-> v] \in Blocks
  /\ \A v \in Views : [kind |-> "focus", view |-> v] \in Blocks
  /\ \A v \in Views, l \in {"yes", "no"} :
       [kind |-> "remove", view |-> v, last |-> l] \in Blocks
  /\ \A b \in Blocks : b.view \in Views /\ b.kind \in {"create", "focus", "remove"}
  /\ \A b \in Blocks : b.kind = "remove" => b.last \in {"yes", "no"}
  BY DEF Blocks

\* What keys, clicks and other panes do: the keyboard goes to the terminal, to
\* another pane, or to a container that is on top or has it already.
Handed ==
  /\ UNCHANGED <<stack, closed, mainQueue>>
  /\ focusMode' \in [Views -> Modes] /\ isInsertMode' \subseteq Views
  /\ \/ first' \in {Surface, Elsewhere, first}
     \/ \E v \in Views :
          /\ Within(v) \/ (stack # <<>> /\ v = Top)
          /\ first' \in {Web(v), Field(v)}

\* A container that is inside the first responder is told from every other.
LEMMA Responding ==
  /\ \A u, v : first = Web(v) => (Within(u) <=> u = v)
  /\ \A u, v : first = Field(v) => (Within(u) <=> u = v)
  /\ first \in {Surface, Window, Elsewhere} => \A u : ~Within(u)
  /\ \A v : Window \notin {Web(v), Field(v), Surface, Elsewhere}
  BY DEF Within, Web, Field, Surface, Window, Elsewhere

\* The same of the next first responder.
LEMMA RespondingNext ==
  /\ \A u, v : first' = Web(v) => (Within(u)' <=> u = v)
  /\ \A u, v : first' = Field(v) => (Within(u)' <=> u = v)
  /\ first' \in {Surface, Window, Elsewhere} => \A u : ~Within(u)'
  /\ first' = first => \A u : Within(u)' <=> Within(u)
  BY DEF Within, Web, Field, Surface, Window, Elsewhere

\* Handing the keyboard over keeps the invariant.
LEMMA HandedKeeps == ASSUME Inv, Handed PROVE Inv'
  <1>1. /\ TypeOK /\ Apart(stack) /\ ToCreate /\ ToRemove /\ ToFocus /\ InOrder
        /\ Keyboard /\ Deferred /\ NobodyForNow
    BY DEF Inv
  <1>2. stack' = stack /\ closed' = closed /\ mainQueue' = mainQueue
    BY DEF Handed
  <1>3. stack # <<>> => Top \in Views /\ OnPane(Top)
    BY <1>1 DEF TypeOK, Top, OnPane
  <1>4. \/ first' \in {Surface, Elsewhere, first}
        \/ \E v \in Views : /\ Within(v) \/ (stack # <<>> /\ v = Top)
                            /\ first' \in {Web(v), Field(v)}
    BY DEF Handed
  <1>5. TypeOK'
    <2>1. first' \in Responders
      BY <1>1, <1>4 DEF Responders, TypeOK
    <2> QED
      BY <1>1, <1>2, <2>1 DEF Handed, TypeOK, Modes
  <1>6. /\ \A v : OnPane(v)' <=> OnPane(v)
        /\ \A kind, v : Waits(kind, v)' <=> Waits(kind, v)
        /\ Top' = Top /\ (SomeOpen' <=> SomeOpen)
    BY <1>2 DEF OnPane, Waits, Top, SomeOpen
  <1>7. Keyboard'
    <2> SUFFICES ASSUME NEW v \in Views, Within(v)'
                 PROVE  OnPane(v) /\ (v = Top \/ Waits("focus", Top))
      BY <1>6 DEF Keyboard
    <2>1. Within(v) \/ (stack # <<>> /\ v = Top)
      BY <1>4, RespondingNext
    <2> QED
      BY <1>1, <1>3, <2>1 DEF Keyboard
  <1>8. NobodyForNow'
    <2>1. first' = Window => first = Window
      BY <1>4, Responding
    <2> QED
      BY <1>1, <1>2, <1>6, <2>1 DEF NobodyForNow
  <1>9. Apart(stack)' /\ ToCreate' /\ ToRemove' /\ ToFocus' /\ InOrder' /\ Deferred'
    BY <1>1, <1>2, <1>6
       DEF ToCreate, ToRemove, ToFocus, InOrder, Deferred, UpwardsFrom
  <1> QED
    BY <1>5, <1>7, <1>8, <1>9 DEF Inv

\* A page or URL field that gets the keyboard through the surface is on top.
LEMMA SurfaceHands ==
  ASSUME TypeOK, FocusSurface(first, focusMode', stack)
  PROVE  \/ first' = Surface
         \/ stack # <<>> /\ Top \in Views /\ first' = Web(Top)
  BY DEF FocusSurface, Top, TypeOK

\* Every handler of keys and clicks hands the keyboard over.
LEMMA HandlersHand ==
  ASSUME TypeOK,
         \/ CtrlCLeavesPage \/ Enter \/ TypeI \/ ClickPage \/ ClickBar \/ ClickField
         \/ \E v \in Views : SubmitURL(v) \/ CancelURL(v)
         \/ GoAway \/ ComeBack \/ UNCHANGED vars
  PROVE  Handed
  <1>1. /\ focusMode \in [Views -> Modes] /\ isInsertMode \subseteq Views
        /\ stack # <<>> => Top \in Views
    BY DEF TypeOK, Modes, Top
  <1>2. ASSUME NEW v \in Views, UNCHANGED <<stack, closed, mainQueue>>,
               isInsertMode' \subseteq Views, focusControlBar(v)
        PROVE  Handed
    <2>1. focusMode' \in [Views -> Modes]
      BY <1>1, <1>2 DEF focusControlBar, Modes
    <2>2. FocusSurface(first, focusMode', stack)
      BY <1>2 DEF focusControlBar
    <2> QED
      BY <1>2, <2>1, <2>2, SurfaceHands DEF Handed
  <1>3. ASSUME NEW v \in Views, UNCHANGED <<stack, closed, mainQueue>>,
               isInsertMode' \subseteq Views,
               Within(v) \/ (stack # <<>> /\ v = Top),
               focusBrowser(v) \/ focusURLField(v)
        PROVE  Handed
    BY <1>1, <1>3 DEF Handed, focusBrowser, focusURLField, Modes
  <1>4. CASE CtrlCLeavesPage
    BY <1>1, <1>2, <1>4 DEF CtrlCLeavesPage, Takers
  <1>5. CASE ClickBar
    BY <1>1, <1>2, <1>5 DEF ClickBar
  <1>6. CASE Enter
    BY <1>1, <1>3, <1>6 DEF Enter
  <1>7. CASE TypeI
    <2>1. isInsertMode' \subseteq Views
      BY <1>1, <1>7 DEF TypeI, focusURLField
    <2> QED
      BY <1>1, <1>3, <1>7, <2>1 DEF TypeI
  <1>8. CASE ClickPage
    <2>1. CASE first' = Web(Top) /\ UNCHANGED focusMode
      BY <1>1, <1>8, <2>1 DEF ClickPage, Handed
    <2> QED
      BY <1>1, <1>3, <1>8, <2>1 DEF ClickPage
  <1>9. CASE ClickField
    <2>1. CASE first' = Field(Top) /\ UNCHANGED <<focusMode, isInsertMode>>
      BY <1>1, <1>9, <2>1 DEF ClickField, Handed
    <2>2. CASE focusURLField(Top)
      <3>1. isInsertMode' \subseteq Views
        BY <1>1, <1>9, <2>2 DEF ClickField, focusURLField
      <3> QED
        BY <1>1, <1>3, <1>9, <2>2, <3>1 DEF ClickField
    <2> QED
      BY <1>9, <2>1, <2>2 DEF ClickField
  <1>10. ASSUME NEW v \in Views, SubmitURL(v) \/ CancelURL(v)
         PROVE  Handed
    <2>1. /\ isInsertMode' \subseteq Views /\ Within(v)
          /\ UNCHANGED <<stack, closed, mainQueue>>
          /\ focusBrowser(v) \/ focusControlBar(v)
      BY <1>1, <1>10 DEF SubmitURL, CancelURL, Within
    <2> QED
      BY <1>2, <1>3, <2>1
  <1>11. CASE ComeBack
    <2>1. FocusSurface(first, focusMode', stack)
      BY <1>11 DEF ComeBack
    <2> QED
      BY <1>1, <1>11, <2>1, SurfaceHands DEF ComeBack, Handed
  <1>12. CASE GoAway \/ UNCHANGED vars
    BY <1>1, <1>12 DEF GoAway, vars, Handed
  <1> QED
    BY <1>4, <1>5, <1>6, <1>7, <1>8, <1>9, <1>10, <1>11, <1>12

\* createWebView: the view is nowhere yet.
LEMMA OpenKeeps == ASSUME Inv, NEW v \in Views, Open(v) PROVE Inv'
  <1> DEFINE b == [kind |-> "create", view |-> v]
  <1>1. /\ TypeOK /\ Apart(stack) /\ ToCreate /\ ToRemove /\ ToFocus /\ InOrder
        /\ Keyboard /\ Deferred /\ NobodyForNow
    BY DEF Inv
  <1>2. /\ mainQueue' = Append(mainQueue, b)
        /\ stack' = stack /\ closed' = closed /\ first' = first
        /\ focusMode' = focusMode /\ isInsertMode' = isInsertMode
    BY DEF Open
  <1>3. b \in Blocks /\ b.kind = "create" /\ b.view = v /\ mainQueue \in Seq(Blocks)
    BY <1>1, BlockTypes DEF TypeOK
  <1>4. ~OnPane(v) /\ v \notin closed /\ \A kind : ~Waits(kind, v)
    BY DEF Open, Opened, Waits, At
  <1> HIDE DEF b
  <1>5. /\ \A i, kind, u : At(mainQueue, i, kind, u) => At(mainQueue', i, kind, u)
        /\ \A i, kind, u : At(mainQueue', i, kind, u) =>
             \/ At(mainQueue, i, kind, u)
             \/ i = Len(mainQueue) + 1 /\ kind = "create" /\ u = v
        /\ \A i : Restores(mainQueue, i) => Restores(mainQueue', i)
        /\ \A i : Leaves(mainQueue', i) => Leaves(mainQueue, i)
    BY <1>2, <1>3, AtAppended
  <1>6. /\ \A u : OnPane(u)' <=> OnPane(u)
        /\ \A u : Within(u)' <=> Within(u)
        /\ \A u : Waits("create", u)' => Waits("create", u) \/ u = v
        /\ \A u : Waits("focus", u)' <=> Waits("focus", u)
        /\ \A u : Waits("remove", u)' <=> Waits("remove", u)
        /\ Top' = Top /\ (SomeOpen' <=> SomeOpen)
    <2>1. \A i, kind, u : At(mainQueue, i, kind, u) => i \in DOMAIN mainQueue
      BY DEF At
    <2>2. \A i, kind, u : At(mainQueue', i, kind, u) => i \in DOMAIN mainQueue'
      BY DEF At
    <2> QED
      BY <1>2, <1>5, <2>1, <2>2 DEF OnPane, Within, Waits, Top, SomeOpen
  <1>7. TypeOK' /\ Apart(stack)' /\ ToRemove'
    BY <1>1, <1>2, <1>3, <1>6, AtTheEnd DEF TypeOK, ToRemove
  <1>8. ToCreate'
    <2>1. \A i : ~At(mainQueue, i, "create", v)
      BY <1>4 DEF Waits, At
    <2>2. \A i, u : At(mainQueue, i, "create", u) => i \in DOMAIN mainQueue
      BY DEF At
    <2> QED
      BY <1>1, <1>2, <1>4, <1>5, <1>6, <2>1, <2>2 DEF ToCreate
  <1>9. ToFocus' /\ InOrder'
    <2>1. \A i, u : /\ At(mainQueue', i, "focus", u) <=> At(mainQueue, i, "focus", u)
                    /\ At(mainQueue', i, "remove", u) <=> At(mainQueue, i, "remove", u)
      BY <1>5
    <2>2. \A i, kind, u : At(mainQueue, i, kind, u) => i \in DOMAIN mainQueue
      BY DEF At
    <2>3. \A i, kind, u : At(mainQueue', i, kind, u) => i \in DOMAIN mainQueue'
      BY DEF At
    <2> QED
      BY <1>1, <1>2, <1>6, <2>1, <2>2, <2>3 DEF ToFocus, InOrder, UpwardsFrom
  <1>10. Keyboard'
    BY <1>1, <1>6 DEF Keyboard
  <1>11. Deferred' /\ NobodyForNow'
    <2>1. \A i : Restores(mainQueue', i) => i \in DOMAIN mainQueue'
      BY DEF Restores
    <2>2. \A i : Leaves(mainQueue, i) => i \in DOMAIN mainQueue
      BY DEF Leaves
    <2> QED
      BY <1>1, <1>2, <1>5, <1>6, <2>1, <2>2 DEF Deferred, NobodyForNow
  <1> QED
    BY <1>7, <1>8, <1>9, <1>10, <1>11 DEF Inv

\* The block that creates a view: the new container is on top, has the
\* keyboard, and will focus itself after all others.
LEMMA CreateKeeps == ASSUME Inv, Create PROVE Inv'
  <1> DEFINE v == Head(mainQueue).view
             b == [kind |-> "focus", view |-> v]
             q == Tail(mainQueue)
  <1>1. /\ TypeOK /\ Apart(stack) /\ ToCreate /\ ToRemove /\ ToFocus /\ InOrder
        /\ Keyboard /\ Deferred /\ NobodyForNow
    BY DEF Inv
  <1>2. /\ mainQueue # <<>> /\ Head(mainQueue).kind = "create"
        /\ mainQueue' = Append(q, b)
        /\ stack' = Append(stack, v) /\ closed' = closed
        /\ focusBrowser(v) /\ isInsertMode' = isInsertMode
    BY DEF Create, Runs
  <1>3. mainQueue \in Seq(Blocks) /\ stack \in Seq(Views)
    BY <1>1 DEF TypeOK
  <1>4. /\ Head(mainQueue) \in Blocks /\ q \in Seq(Blocks) /\ v \in Views
        /\ At(mainQueue, 1, "create", v)
    BY <1>2, <1>3, BehindHead, BlockTypes DEF At
  <1>5. b \in Blocks /\ b.kind = "focus" /\ b.view = v
    BY <1>4, BlockTypes
  <1>6. ~OnPane(v) /\ v \notin closed /\ \A kind : kind # "create" => ~Waits(kind, v)
    <2>1. Waits("create", v)
      BY <1>4 DEF Waits, At
    <2>2. \A kind : Waits(kind, v) => kind \in {"create", "focus", "remove"}
      BY <1>3, BlockTypes DEF Waits, At
    <2> QED
      BY <1>1, <1>4, <2>1, <2>2 DEF ToCreate
  <1> HIDE DEF v, b
  <1>7. /\ \A i, kind, u : At(q, i, kind, u) =>
             At(mainQueue', i, kind, u) /\ i < Len(q) + 1
        /\ \A i, kind, u : At(mainQueue', i, kind, u) =>
             \/ At(q, i, kind, u)
             \/ i = Len(q) + 1 /\ kind = "focus" /\ u = v
        /\ At(mainQueue', Len(q) + 1, "focus", v)
        /\ \A i : Restores(q, i) => Restores(mainQueue', i)
        /\ \A i : Leaves(mainQueue', i) => Leaves(q, i)
    BY <1>2, <1>4, <1>5, AtAppended
  <1>8. /\ \A i, kind, u : At(q, i, kind, u) => At(mainQueue, i + 1, kind, u)
        /\ \A i, kind, u : At(mainQueue, i, kind, u) /\ i # 1 => At(q, i - 1, kind, u)
        /\ \A i : Restores(mainQueue, i) /\ i # 1 => Restores(q, i - 1)
        /\ \A i : Leaves(q, i) => Leaves(mainQueue, i + 1)
        /\ DOMAIN q \subseteq Nat \ {0} /\ DOMAIN mainQueue \subseteq Nat \ {0}
    BY <1>2, <1>3, AtBehind
  <1>9. /\ \A i, kind, u : At(mainQueue, i, kind, u) => i \in DOMAIN mainQueue
        /\ \A i, kind, u : At(mainQueue', i, kind, u) => i \in DOMAIN mainQueue'
        /\ \A i, kind, u : At(q, i, kind, u) => i \in DOMAIN q
        /\ \A i : Restores(mainQueue', i) => i \in DOMAIN mainQueue'
        /\ \A i : Leaves(mainQueue, i) => i \in DOMAIN mainQueue
        /\ \A i : Leaves(q, i) => i \in DOMAIN q
    BY DEF At, Restores, Leaves
  <1> HIDE DEF q
  <1>10. Len(q) \in Nat
    BY <1>4
  <1>11. /\ \A u : OnPane(u)' <=> OnPane(u) \/ u = v
         /\ \A u, w : Below(stack, u, w)' => Below(stack, u, w) \/ (OnPane(u) /\ w = v)
         /\ Top' = v
    <2>1. /\ \A u : On(Append(stack, v), u) <=> On(stack, u) \/ u = v
          /\ \A u, w : Below(Append(stack, v), u, w) =>
               Below(stack, u, w) \/ (On(stack, u) /\ w = v)
          /\ Append(stack, v)[Len(Append(stack, v))] = v
      BY <1>3, <1>4, AtTheEnd DEF On, Below
    <2> QED
      BY <1>2, <2>1 DEF OnPane, On, Below, Top
  <1>12. /\ \A kind, u : Waits(kind, u)' =>
              Waits(kind, u) \/ (kind = "focus" /\ u = v)
         /\ SomeOpen => SomeOpen'
    BY <1>2, <1>7, <1>8, <1>9, <1>11 DEF Waits, SomeOpen
  <1>13. TypeOK' /\ Apart(stack)' /\ ToRemove'
    <2>1. first' \in Responders
      BY <1>2, <1>4 DEF focusBrowser, Responders
    <2>2. focusMode' \in [Views -> {"control", "browse", "insert"}]
      BY <1>1, <1>2 DEF focusBrowser, TypeOK
    <2>3. mainQueue' \in Seq(Blocks) /\ stack' \in Seq(Views)
      BY <1>2, <1>3, <1>4, <1>5, AtTheEnd
    <2>4. Apart(stack)'
      BY <1>1, <1>2, <1>3, <1>4, <1>6, AtTheEnd DEF Apart, OnPane
    <2> QED
      BY <1>1, <1>2, <1>12, <2>1, <2>2, <2>3, <2>4 DEF TypeOK, ToRemove
  <1>14. ToCreate'
    <2> SUFFICES ASSUME NEW u \in Views, Waits("create", u)'
                 PROVE  /\ ~OnPane(u)' /\ u \notin closed
                        /\ ~Waits("focus", u)' /\ ~Waits("remove", u)'
                        /\ \A i, j : At(mainQueue', i, "create", u)
                             /\ At(mainQueue', j, "create", u) => i = j
      BY <1>2 DEF ToCreate
    <2>1. \A i, j : At(mainQueue, i, "create", u) /\ At(mainQueue, j, "create", u) =>
            i = j
      BY <1>1, <1>9 DEF ToCreate, Waits
    <2>2. \A i : At(mainQueue', i, "create", u) =>
            At(q, i, "create", u) /\ At(mainQueue, i + 1, "create", u) /\ i \in Nat \ {0}
      BY <1>7, <1>8, <1>9
    <2>3. u # v
      <3>1. PICK i : At(mainQueue', i, "create", u)
        BY DEF Waits
      <3> QED
        BY <1>4, <2>1, <2>2, <3>1
    <2>4. Waits("create", u)
      BY <1>12
    <2>5. /\ ~OnPane(u) /\ u \notin closed
          /\ ~Waits("focus", u) /\ ~Waits("remove", u)
      BY <1>1, <2>4 DEF ToCreate
    <2>6. \A i, j : At(mainQueue', i, "create", u) /\ At(mainQueue', j, "create", u) =>
            i = j
      <3> SUFFICES ASSUME NEW i, NEW j, At(mainQueue', i, "create", u),
                          At(mainQueue', j, "create", u)
                   PROVE  i = j
        OBVIOUS
      <3>1. i + 1 = j + 1 /\ i \in Nat /\ j \in Nat
        BY <2>1, <2>2
      <3> QED
        BY <3>1
    <2> QED
      BY <1>11, <1>12, <2>3, <2>5, <2>6
  <1>15. ToFocus'
    <2> SUFFICES ASSUME NEW u \in Views, Waits("focus", u)'
                 PROVE  /\ OnPane(u)'
                        /\ \A i, j : At(mainQueue', i, "focus", u)
                             /\ At(mainQueue', j, "remove", u) => i < j
      BY DEF ToFocus
    <2>1. OnPane(u)'
      BY <1>1, <1>11, <1>12 DEF ToFocus
    <2>2. ASSUME NEW i, NEW j, At(mainQueue', i, "focus", u),
                 At(mainQueue', j, "remove", u)
          PROVE  i < j
      <3>1. At(q, j, "remove", u) /\ At(mainQueue, j + 1, "remove", u) /\ j \in Nat
        BY <1>7, <1>8, <1>9, <2>2
      <3>2. u # v
        BY <1>6, <1>9, <3>1 DEF Waits
      <3>3. At(q, i, "focus", u) /\ At(mainQueue, i + 1, "focus", u) /\ i \in Nat
        BY <1>7, <1>8, <1>9, <2>2, <3>2
      <3>4. i + 1 < j + 1
        BY <1>1, <1>9, <3>1, <3>3 DEF ToFocus, Waits
      <3> QED
        BY <3>1, <3>3, <3>4
    <2> QED
      BY <2>1, <2>2
  <1>16. InOrder'
    <2> SUFFICES ASSUME NEW u \in Views, NEW w \in Views, Below(stack, u, w)',
                        NEW m, At(mainQueue', m, "focus", u)
                 PROVE  \E n : m < n /\ At(mainQueue', n, "focus", w)
      BY <1>9 DEF InOrder, UpwardsFrom
    <2>1. OnPane(u)
      BY <1>11 DEF Below, OnPane
    <2>2. At(q, m, "focus", u) /\ m < Len(q) + 1 /\ m \in Nat
      BY <1>6, <1>7, <1>8, <1>9, <2>1
    <2>3. CASE w = v
      BY <1>7, <2>2, <2>3
    <2>4. CASE w # v
      <3>1. Below(stack, u, w) /\ At(mainQueue, m + 1, "focus", u)
        BY <1>8, <1>11, <2>2, <2>4
      <3>2. PICK n \in DOMAIN mainQueue : m + 1 < n /\ At(mainQueue, n, "focus", w)
        BY <1>1, <1>9, <3>1 DEF InOrder, UpwardsFrom
      <3>3. n \in Nat /\ m < n - 1 /\ n # 1
        BY <1>8, <2>2, <3>2
      <3> QED
        BY <1>7, <1>8, <3>2, <3>3
    <2> QED
      BY <2>3, <2>4
  <1>17. Keyboard' /\ NobodyForNow'
    <2>1. first' = Web(v)
      BY <1>2 DEF focusBrowser
    <2> QED
      BY <1>11, <2>1, RespondingNext, Responding DEF Keyboard, NobodyForNow
  <1>18. Deferred'
    <2> SUFFICES ASSUME NEW m, Leaves(mainQueue', m)
                 PROVE  SomeOpen' \/ \E n : m < n /\ Restores(mainQueue', n)
      BY <1>9 DEF Deferred
    <2>1. Leaves(mainQueue, m + 1) /\ m \in Nat
      BY <1>7, <1>8, <1>9
    <2>2. CASE SomeOpen
      BY <1>12, <2>2
    <2>3. CASE ~SomeOpen
      <3>1. PICK n \in DOMAIN mainQueue : m + 1 < n /\ Restores(mainQueue, n)
        BY <1>1, <1>9, <2>1, <2>3 DEF Deferred
      <3>2. n \in Nat /\ m < n - 1 /\ n # 1
        BY <1>8, <2>1, <3>1
      <3> QED
        BY <1>7, <1>8, <3>1, <3>2
    <2> QED
      BY <2>2, <2>3
  <1> QED
    BY <1>13, <1>14, <1>15, <1>16, <1>17, <1>18 DEF Inv

\* A block has run that adds none: what is said of pairs of blocks is kept.
LEMMA PopKeeps ==
  ASSUME Inv, mainQueue # <<>>, mainQueue' = Tail(mainQueue), closed' = closed,
         \A u : OnPane(u)' => OnPane(u),
         \A u \in Views : Waits("focus", u)' => OnPane(u)',
         \A u, w : Below(stack, u, w)' => Below(stack, u, w)
  PROVE  /\ mainQueue' \in Seq(Blocks)
         /\ ToCreate' /\ ToRemove' /\ ToFocus' /\ InOrder'
         /\ \A kind, u : Waits(kind, u)' => Waits(kind, u)
         /\ \A n, kind, u : At(mainQueue, n, kind, u) /\ n > 1 => Waits(kind, u)'
         /\ \A n : Restores(mainQueue, n) /\ n > 1 =>
              \E i \in DOMAIN mainQueue' : Restores(mainQueue', i)
         /\ (SomeOpen => SomeOpen') => Deferred'
  <1>1. /\ TypeOK /\ ToCreate /\ ToRemove /\ ToFocus /\ InOrder /\ Deferred
        /\ mainQueue \in Seq(Blocks)
    BY DEF Inv, TypeOK
  <1> DEFINE q == Tail(mainQueue)
  <1>2. /\ \A i, kind, u : At(q, i, kind, u) => At(mainQueue, i + 1, kind, u)
        /\ \A i, kind, u : At(mainQueue, i, kind, u) /\ i # 1 => At(q, i - 1, kind, u)
        /\ \A i : Restores(mainQueue, i) /\ i # 1 => Restores(q, i - 1)
        /\ \A i : Leaves(q, i) => Leaves(mainQueue, i + 1)
        /\ DOMAIN q \subseteq Nat \ {0} /\ DOMAIN mainQueue \subseteq Nat \ {0}
        /\ q \in Seq(Blocks)
    BY <1>1, AtBehind, BehindHead
  <1>3. /\ \A i, kind, u : At(mainQueue, i, kind, u) => i \in DOMAIN mainQueue
        /\ \A i, kind, u : At(q, i, kind, u) => i \in DOMAIN q
        /\ \A i : Restores(mainQueue, i) => i \in DOMAIN mainQueue
        /\ \A i : Restores(q, i) => i \in DOMAIN q
        /\ \A i : Leaves(mainQueue, i) => i \in DOMAIN mainQueue
        /\ \A i : Leaves(q, i) => i \in DOMAIN q
    BY DEF At, Restores, Leaves
  <1>4. mainQueue' = q
    OBVIOUS
  <1> HIDE DEF q
  <1>5. \A kind, u : Waits(kind, u)' => Waits(kind, u)
    <2> SUFFICES ASSUME NEW kind, NEW u, NEW i, At(q, i, kind, u)
                 PROVE  Waits(kind, u)
      BY <1>4 DEF Waits
    <2>1. At(mainQueue, i + 1, kind, u)
      BY <1>2
    <2> QED
      BY <1>3, <2>1 DEF Waits
  <1>6. ToCreate'
    <2> SUFFICES ASSUME NEW u \in Views, Waits("create", u)'
                 PROVE  /\ ~OnPane(u)' /\ u \notin closed
                        /\ ~Waits("focus", u)' /\ ~Waits("remove", u)'
                        /\ \A i, j : At(q, i, "create", u)
                             /\ At(q, j, "create", u) => i = j
      BY <1>4 DEF ToCreate
    <2>1. \A i, j : At(mainQueue, i, "create", u) /\ At(mainQueue, j, "create", u) =>
            i = j
      BY <1>1, <1>3 DEF ToCreate, Waits
    <2>2. ASSUME NEW i, NEW j, At(q, i, "create", u), At(q, j, "create", u)
          PROVE  i = j
      <3>1. i + 1 = j + 1 /\ i \in Nat /\ j \in Nat
        BY <1>2, <1>3, <2>1, <2>2
      <3> QED
        BY <3>1
    <2>3. /\ ~OnPane(u) /\ u \notin closed
          /\ ~Waits("focus", u) /\ ~Waits("remove", u)
      BY <1>1, <1>5 DEF ToCreate
    <2> QED
      BY <1>5, <2>2, <2>3
  <1>7. ToRemove'
    BY <1>1, <1>5 DEF ToRemove
  <1>8. ToFocus'
    <2> SUFFICES ASSUME NEW u \in Views, Waits("focus", u)',
                        NEW i, NEW j, At(q, i, "focus", u), At(q, j, "remove", u)
                 PROVE  i < j
      BY <1>4 DEF ToFocus
    <2>1. /\ At(mainQueue, i + 1, "focus", u) /\ i \in Nat
          /\ At(mainQueue, j + 1, "remove", u) /\ j \in Nat
      BY <1>2, <1>3
    <2>2. i + 1 < j + 1
      BY <1>1, <1>3, <2>1 DEF ToFocus, Waits
    <2> QED
      BY <2>1, <2>2
  <1>9. InOrder'
    <2> SUFFICES ASSUME NEW u \in Views, NEW w \in Views, Below(stack, u, w),
                        NEW m, At(q, m, "focus", u)
                 PROVE  \E n : m < n /\ At(q, n, "focus", w)
      BY <1>3, <1>4 DEF InOrder, UpwardsFrom
    <2>1. At(mainQueue, m + 1, "focus", u) /\ m \in Nat
      BY <1>2, <1>3
    <2>2. PICK n \in DOMAIN mainQueue : m + 1 < n /\ At(mainQueue, n, "focus", w)
      BY <1>1, <1>3, <2>1 DEF InOrder, UpwardsFrom
    <2>3. n \in Nat /\ m < n - 1 /\ n # 1
      BY <1>2, <2>1, <2>2
    <2> QED
      BY <1>2, <2>2, <2>3
  <1>10. \A n, kind, u : At(mainQueue, n, kind, u) /\ n > 1 => Waits(kind, u)'
    <2> SUFFICES ASSUME NEW n, NEW kind, NEW u, At(mainQueue, n, kind, u), n > 1
                 PROVE  \E i \in DOMAIN q : At(q, i, kind, u)
      BY <1>4 DEF Waits
    <2>1. n # 1
      BY <1>2, <1>3
    <2> QED
      BY <1>2, <1>3, <2>1
  <1>11. \A n : Restores(mainQueue, n) /\ n > 1 =>
           \E i \in DOMAIN mainQueue' : Restores(mainQueue', i)
    <2> SUFFICES ASSUME NEW n, Restores(mainQueue, n), n > 1
                 PROVE  \E i \in DOMAIN q : Restores(q, i)
      BY <1>4
    <2>1. n # 1
      BY <1>2, <1>3
    <2> QED
      BY <1>2, <1>3, <2>1
  <1>12. ASSUME SomeOpen => SomeOpen'
         PROVE  Deferred'
    <2> SUFFICES ASSUME NEW m, Leaves(q, m), ~SomeOpen
                 PROVE  \E n : m < n /\ Restores(q, n)
      BY <1>3, <1>4, <1>12 DEF Deferred
    <2>1. Leaves(mainQueue, m + 1) /\ m \in Nat
      BY <1>2, <1>3
    <2>2. PICK n \in DOMAIN mainQueue : m + 1 < n /\ Restores(mainQueue, n)
      BY <1>1, <1>3, <2>1 DEF Deferred
    <2>3. n \in Nat /\ m < n - 1 /\ n # 1
      BY <1>2, <2>1, <2>2
    <2> QED
      BY <1>2, <2>2, <2>3
  <1> QED
    BY <1>2, <1>4, <1>5, <1>6, <1>7, <1>8, <1>9, <1>10, <1>11, <1>12

\* The second focusBrowser: a container that lies under another takes the
\* keyboard only until that one focuses itself again.
LEMMA FocusAgainKeeps == ASSUME Inv, FocusAgain PROVE Inv'
  <1> DEFINE v == Head(mainQueue).view
  <1>1. /\ TypeOK /\ Apart(stack) /\ ToFocus /\ InOrder /\ Keyboard
        /\ mainQueue \in Seq(Blocks) /\ stack \in Seq(Views)
    BY DEF Inv, TypeOK
  <1>2. /\ mainQueue # <<>> /\ Head(mainQueue).kind = "focus"
        /\ mainQueue' = Tail(mainQueue)
        /\ focusBrowser(v) /\ first' = Web(v)
        /\ stack' = stack /\ closed' = closed /\ isInsertMode' = isInsertMode
    BY DEF FocusAgain, Runs, focusBrowser
  <1>3. v \in Views /\ At(mainQueue, 1, "focus", v)
    BY <1>1, <1>2, BehindHead, BlockTypes DEF At
  <1> HIDE DEF v
  <1>4. \A i, kind, u : At(mainQueue, i, kind, u) => i \in DOMAIN mainQueue
    BY DEF At
  <1>5. /\ \A u : OnPane(u)' <=> OnPane(u)
        /\ \A u, w : Below(stack, u, w)' <=> Below(stack, u, w)
        /\ Top' = Top /\ (SomeOpen' <=> SomeOpen)
    BY <1>2 DEF OnPane, Top, SomeOpen
  <1>6. \A u \in Views : Waits("focus", u)' => OnPane(u)'
    <2>1. \A i, u : At(Tail(mainQueue), i, "focus", u) => At(mainQueue, i + 1, "focus", u)
      BY <1>1, <1>2, AtBehind
    <2> QED
      BY <1>1, <1>2, <1>4, <1>5, <2>1 DEF ToFocus, Waits
  <1>7. /\ mainQueue' \in Seq(Blocks)
        /\ ToCreate' /\ ToRemove' /\ ToFocus' /\ InOrder' /\ Deferred'
        /\ \A n, kind, u : At(mainQueue, n, kind, u) /\ n > 1 => Waits(kind, u)'
    BY <1>2, <1>5, <1>6, PopKeeps
  <1>8. TypeOK'
    <2>1. first' \in Responders
      BY <1>2, <1>3 DEF Responders
    <2>2. focusMode' \in [Views -> {"control", "browse", "insert"}]
      BY <1>1, <1>2 DEF focusBrowser, TypeOK
    <2> QED
      BY <1>1, <1>2, <1>7, <2>1, <2>2 DEF TypeOK
  <1>9. Keyboard'
    <2>1. OnPane(v)
      BY <1>1, <1>3, <1>4 DEF ToFocus, Waits
    <2>2. v = Top \/ \E u : u = Top /\ Waits("focus", u)'
      <3>1. CASE v # Top
        <4>1. PICK i \in DOMAIN stack : stack[i] = v
          BY <2>1 DEF OnPane
        <4>2. i < Len(stack) /\ Len(stack) \in DOMAIN stack /\ Top \in Views
          BY <1>1, <3>1, <4>1 DEF Top
        <4>3. Below(stack, v, Top)
          BY <4>1, <4>2 DEF Below, Top
        <4>4. PICK n : 1 < n /\ n \in DOMAIN mainQueue /\ At(mainQueue, n, "focus", Top)
          BY <1>1, <1>3, <1>4, <4>2, <4>3 DEF InOrder, UpwardsFrom
        <4>5. n > 1
          BY <1>1, <4>4
        <4> QED
          BY <1>7, <4>4, <4>5
      <3> QED
        BY <3>1
    <2> QED
      BY <1>2, <1>5, <2>1, <2>2, RespondingNext DEF Keyboard
  <1>10. NobodyForNow'
    BY <1>2, Responding DEF NobodyForNow
  <1> QED
    BY <1>1, <1>2, <1>7, <1>8, <1>9, <1>10 DEF Inv

\* A close takes down a container that is on the pane.
LEMMA CloseKeeps ==
  ASSUME Inv, NEW v \in Views, OnPane(v), closeWebView(v)
  PROVE  Inv'
  <1> DEFINE l == IF \E u \in Views \ closed' : OnPane(u) THEN "no" ELSE "yes"
             b == [kind |-> "remove", view |-> v, last |-> l]
  <1>1. /\ TypeOK /\ Apart(stack) /\ ToCreate /\ ToRemove /\ ToFocus /\ InOrder
        /\ Keyboard /\ Deferred /\ NobodyForNow
    BY DEF Inv
  <1>2. /\ mainQueue' = Append(mainQueue, b)
        /\ closed' = closed \cup {v}
        /\ stack' = stack /\ first' = first
        /\ focusMode' = focusMode /\ isInsertMode' = isInsertMode
    BY DEF closeWebView
  <1>3. /\ b \in Blocks /\ b.kind = "remove" /\ b.view = v /\ b.last = l
        /\ l \in {"yes", "no"} /\ mainQueue \in Seq(Blocks)
    BY <1>1, BlockTypes DEF TypeOK
  <1>4. /\ \A u : OnPane(u)' <=> OnPane(u)
        /\ \A u : Within(u)' <=> Within(u)
        /\ \A u, w : Below(stack, u, w)' <=> Below(stack, u, w)
        /\ Top' = Top
    BY <1>2 DEF OnPane, Within, Top
  <1>5. l = "no" <=> SomeOpen'
    BY <1>2 DEF SomeOpen, OnPane
  <1> HIDE DEF b, l
  <1>6. /\ \A i, kind, u : At(mainQueue, i, kind, u) =>
             At(mainQueue', i, kind, u) /\ i < Len(mainQueue) + 1
        /\ \A i, kind, u : At(mainQueue', i, kind, u) =>
             \/ At(mainQueue, i, kind, u)
             \/ i = Len(mainQueue) + 1 /\ kind = "remove" /\ u = v
        /\ \A i : Restores(mainQueue, i) => Restores(mainQueue', i)
        /\ \A i : Leaves(mainQueue', i) =>
             Leaves(mainQueue, i) \/ (i = Len(mainQueue) + 1 /\ l = "no")
        /\ l = "yes" => Restores(mainQueue', Len(mainQueue) + 1)
    BY <1>2, <1>3, AtAppended
  <1>7. /\ \A i, kind, u : At(mainQueue, i, kind, u) => i \in DOMAIN mainQueue
        /\ \A i, kind, u : At(mainQueue', i, kind, u) => i \in DOMAIN mainQueue'
        /\ \A i : Restores(mainQueue', i) => i \in DOMAIN mainQueue'
        /\ \A i : Leaves(mainQueue, i) =>
             i \in DOMAIN mainQueue /\ i < Len(mainQueue) + 1
    BY <1>3 DEF At, Restores, Leaves
  <1>8. /\ \A kind, u : Waits(kind, u)' =>
             Waits(kind, u) \/ (kind = "remove" /\ u = v)
        /\ \A kind, u : Waits(kind, u) => Waits(kind, u)'
    BY <1>6, <1>7 DEF Waits
  <1>9. TypeOK' /\ Apart(stack)' /\ ToRemove'
    BY <1>1, <1>2, <1>3, <1>8, AtTheEnd DEF TypeOK, ToRemove
  <1>10. ToCreate'
    <2>1. ~Waits("create", v)
      BY <1>1 DEF ToCreate
    <2>2. \A i, u : At(mainQueue', i, "create", u) => At(mainQueue, i, "create", u)
      BY <1>6
    <2> QED
      BY <1>1, <1>2, <1>4, <1>7, <1>8, <2>1, <2>2 DEF ToCreate
  <1>11. ToFocus'
    <2>1. \A i, u : At(mainQueue', i, "focus", u) => At(mainQueue, i, "focus", u)
      BY <1>6
    <2> QED
      BY <1>1, <1>4, <1>6, <1>7, <1>8, <2>1 DEF ToFocus
  <1>12. InOrder'
    <2>1. \A i, u : At(mainQueue', i, "focus", u) <=> At(mainQueue, i, "focus", u)
      BY <1>6
    <2> QED
      BY <1>1, <1>4, <1>7, <2>1 DEF InOrder, UpwardsFrom
  <1>13. Keyboard'
    BY <1>1, <1>4, <1>8 DEF Keyboard
  <1>14. Deferred'
    <2> SUFFICES ASSUME NEW m, Leaves(mainQueue', m), ~SomeOpen'
                 PROVE  \E n : m < n /\ Restores(mainQueue', n)
      BY <1>7 DEF Deferred
    <2>1. l = "yes" /\ Leaves(mainQueue, m)
      BY <1>3, <1>5, <1>6
    <2> QED
      BY <1>6, <1>7, <2>1
  <1>15. NobodyForNow'
    <2>1. SomeOpen' \/ l = "yes"
      BY <1>3, <1>5
    <2> QED
      BY <1>6, <1>7, <2>1 DEF NobodyForNow
  <1> QED
    BY <1>9, <1>10, <1>11, <1>12, <1>13, <1>14, <1>15 DEF Inv

\* Taking a container down leaves no hold of it on the keyboard, and nobody has
\* the keyboard only when another close is to come.
LEMMA TakeDownKeeps == ASSUME Inv, Remove PROVE Inv'
  <1> DEFINE v == Head(mainQueue).view
             rest == Without(stack, v)
             left == IF Within(v) THEN Window ELSE first
  <1>1. /\ TypeOK /\ Apart(stack) /\ ToCreate /\ ToRemove /\ ToFocus /\ InOrder
        /\ Keyboard /\ Deferred /\ NobodyForNow
        /\ mainQueue \in Seq(Blocks) /\ stack \in Seq(Views)
    BY DEF Inv, TypeOK
  <1>2. /\ mainQueue # <<>> /\ Head(mainQueue).kind = "remove"
        /\ mainQueue' = Tail(mainQueue) /\ stack' = rest /\ closed' = closed
        /\ focusMode' = focusMode /\ isInsertMode' = isInsertMode
    BY DEF Remove, Runs
  <1>3. IF Head(mainQueue).last = "yes"
        THEN FocusSurface(left, focusMode, rest) ELSE first' = left
    BY DEF Remove
  <1>4. /\ v \in Views /\ At(mainQueue, 1, "remove", v)
        /\ Head(mainQueue).last # "yes" => Leaves(mainQueue, 1)
    BY <1>1, <1>2, BehindHead, BlockTypes DEF At, Leaves
  <1>5. /\ \A i, kind, u : At(mainQueue, i, kind, u) =>
             i \in DOMAIN mainQueue /\ i \in Nat \ {0}
        /\ \A i : Leaves(mainQueue, i) => i \in DOMAIN mainQueue
    BY <1>1 DEF At, Leaves
  <1>6. /\ rest \in Seq(Views) /\ Apart(rest)
        /\ \A u : On(rest, u) <=> On(stack, u) /\ u # v
        /\ \A u, w : Below(rest, u, w) => Below(stack, u, w)
        /\ stack # <<>> /\ Top # v => rest # <<>> /\ rest[Len(rest)] = Top
    BY <1>1, WithoutTakesOut DEF Top
  <1> HIDE DEF rest, v
  <1>7. v \in closed /\ ~Waits("focus", v)
    <2>1. v \in closed
      BY <1>1, <1>4, <1>5 DEF ToRemove, Waits
    <2>2. \A i : At(mainQueue, i, "focus", v) => i < 1
      BY <1>1, <1>4, <1>5 DEF ToFocus, Waits
    <2> QED
      BY <1>5, <2>1, <2>2 DEF Waits
  <1>8. /\ \A u : OnPane(u)' <=> OnPane(u) /\ u # v
        /\ \A u, w : Below(stack, u, w)' => Below(stack, u, w)
        /\ SomeOpen => SomeOpen'
    BY <1>2, <1>6, <1>7 DEF OnPane, On, SomeOpen
  <1>9. \A u \in Views : Waits("focus", u)' => OnPane(u)'
    <2>1. \A i, u : At(Tail(mainQueue), i, "focus", u) => At(mainQueue, i + 1, "focus", u)
      BY <1>1, <1>2, AtBehind
    <2>2. \A u : Waits("focus", u)' => Waits("focus", u)
      BY <1>2, <1>5, <2>1 DEF Waits
    <2> QED
      BY <1>1, <1>7, <1>8, <2>2 DEF ToFocus
  <1>10. /\ mainQueue' \in Seq(Blocks)
         /\ ToCreate' /\ ToRemove' /\ ToFocus' /\ InOrder' /\ Deferred'
         /\ \A n, kind, u : At(mainQueue, n, kind, u) /\ n > 1 => Waits(kind, u)'
         /\ \A n : Restores(mainQueue, n) /\ n > 1 =>
              \E i \in DOMAIN mainQueue' : Restores(mainQueue', i)
    BY <1>2, <1>8, <1>9, PopKeeps
  <1>11. \/ first' = Surface
         \/ stack' # <<>> /\ Top' \in Views /\ OnPane(Top)' /\ first' = Web(Top')
         \/ first' = left /\ Head(mainQueue).last # "yes"
    BY <1>2, <1>3, <1>6 DEF FocusSurface, Top, OnPane
  <1>12. TypeOK'
    <2>1. first' \in Responders
      BY <1>1, <1>11 DEF Responders, TypeOK
    <2> QED
      BY <1>1, <1>2, <1>6, <1>10, <2>1 DEF TypeOK
  <1>13. Keyboard'
    <2> SUFFICES ASSUME NEW u \in Views, Within(u)'
                 PROVE  OnPane(u)' /\ (u = Top' \/ Waits("focus", Top)')
      BY DEF Keyboard
    <2>1. CASE first' = Surface
      BY <2>1, RespondingNext
    <2>2. CASE OnPane(Top)' /\ first' = Web(Top')
      <3>1. u = Top'
        BY <2>2, RespondingNext
      <3> QED
        BY <2>2, <3>1
    <2>3. CASE first' = left
      <3>1. first' = first /\ ~Within(v) /\ Within(u)
        BY <2>3, RespondingNext
      <3>2. OnPane(u) /\ u # v /\ (u = Top \/ Waits("focus", Top))
        BY <1>1, <3>1 DEF Keyboard
      <3>3. Top # v /\ stack # <<>>
        BY <1>7, <3>2 DEF OnPane
      <3>4. Top' = Top
        BY <1>2, <1>6, <3>3 DEF Top
      <3>5. ASSUME Waits("focus", Top)
            PROVE  \E w : w = Top /\ Waits("focus", w)'
        <4>1. PICK i : At(mainQueue, i, "focus", Top)
          BY <3>5 DEF Waits
        <4>2. i > 1
          BY <1>4, <1>5, <4>1 DEF At
        <4> QED
          BY <1>10, <4>1, <4>2
      <3> QED
        BY <1>8, <3>2, <3>4, <3>5
    <2> QED
      BY <1>11, <2>1, <2>2, <2>3
  <1>14. NobodyForNow'
    <2> SUFFICES ASSUME first' = Window, ~SomeOpen
                 PROVE  \E i \in DOMAIN mainQueue' : Restores(mainQueue', i)
      BY <1>8 DEF NobodyForNow
    <2>1. Leaves(mainQueue, 1)
      BY <1>4, <1>11, Responding
    <2>2. PICK n : 1 < n /\ Restores(mainQueue, n)
      BY <1>1, <1>5, <2>1 DEF Deferred
    <2>3. n > 1
      BY <1>1, <2>2 DEF Restores
    <2> QED
      BY <1>10, <2>2, <2>3
  <1> QED
    BY <1>2, <1>6, <1>10, <1>12, <1>13, <1>14 DEF Inv

\* The blocks of the main queue, the keys, the clicks and the pages keep it.
LEMMA EveryStepKeeps == ASSUME Inv, [Next]_vars PROVE Inv'
  <1>1. TypeOK
    BY DEF Inv
  <1>2. stack # <<>> => Top \in Views /\ OnPane(Top)
    BY <1>1 DEF TypeOK, Top, OnPane
  <1>3. CASE Create
    BY <1>3, CreateKeeps
  <1>4. CASE FocusAgain
    BY <1>4, FocusAgainKeeps
  <1>5. CASE Remove
    BY <1>5, TakeDownKeeps
  <1>6. CASE CtrlCCloses
    BY <1>2, <1>6, CloseKeeps DEF CtrlCCloses
  <1>7. ASSUME NEW v \in Views, Open(v) \/ PageExits(v)
        PROVE  Inv'
    BY <1>7, OpenKeeps, CloseKeeps DEF PageExits
  <1>8. CASE \/ CtrlCLeavesPage \/ Enter \/ TypeI \/ ClickPage \/ ClickBar \/ ClickField
             \/ \E v \in Views : SubmitURL(v) \/ CancelURL(v)
             \/ GoAway \/ ComeBack \/ UNCHANGED vars
    <2>1. Handed
      BY <1>1, <1>8, HandlersHand
    <2> QED
      BY <2>1, HandedKeeps
  <1> QED
    BY <1>3, <1>4, <1>5, <1>6, <1>7, <1>8
       DEF Next, RunBlock, Keys, CtrlC, Clicks

\* At first the terminal has the keyboard, and nothing is queued.
LEMMA Starts == ASSUME Init PROVE Inv
  <1>1. /\ stack = <<>> /\ mainQueue = <<>> /\ first = Surface
        /\ DOMAIN stack = {} /\ DOMAIN mainQueue = {}
    BY DEF Init
  <1>2. TypeOK
    BY <1>1 DEF Init, TypeOK, Responders
  <1>3. \A u : ~Within(u)
    BY <1>1, Responding
  <1> QED
    BY <1>1, <1>2, <1>3, Responding
       DEF Inv, Apart, ToCreate, ToRemove, ToFocus, InOrder, Keyboard, Deferred,
           NobodyForNow, Waits, Below

\* The invariant of the blocks and the keyboard.
THEOREM InvHolds == Spec => []Inv
  BY Starts, EveryStepKeeps, PTL DEF Spec

\* Views, modes, responders and blocks are what they are declared to be.
THEOREM TypeCorrect == Spec => []TypeOK
  <1>1. Inv => TypeOK
    BY DEF Inv
  <1> QED
    BY <1>1, InvHolds, PTL

\* Once the blocks have run, a container that has the keyboard is the one on
\* top, however many were opened and closed in the meantime.
THEOREM KeyboardIsOnTopHolds == Spec => []KeyboardIsOnTop
  <1>1. Inv => KeyboardIsOnTop
    BY DEF Inv, Keyboard, KeyboardIsOnTop, Waits
  <1> QED
    BY <1>1, InvHolds, PTL

\* Once the last container is gone, the terminal has the keyboard, or another
\* pane.
THEOREM TerminalGetsFocusBackHolds == Spec => []TerminalGetsFocusBack
  <1>1. ASSUME Inv, stack = <<>>, mainQueue = <<>>
        PROVE  first \in {Surface, Elsewhere}
    <2>1. (\A u : ~OnPane(u)) /\ ~SomeOpen
      BY <1>1 DEF OnPane, SomeOpen
    <2>2. first # Window
      BY <1>1, <2>1 DEF Inv, NobodyForNow
    <2>3. \A v \in Views : first # Web(v) /\ first # Field(v)
      BY <1>1, <2>1 DEF Inv, Keyboard, Within
    <2> QED
      BY <1>1, <2>2, <2>3 DEF Inv, TypeOK, Responders
  <1>2. Inv => TerminalGetsFocusBack
    BY <1>1 DEF TerminalGetsFocusBack
  <1> QED
    BY <1>2, InvHolds, PTL

=============================================================================
