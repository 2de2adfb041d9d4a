--------------------------- MODULE WebViewManager ---------------------------
(***************************************************************************)
(* The webviews of the ts1 app: the tables of WebViewManager.swift, the    *)
(* requests that CommandHandler.swift serves, and the view hierarchy of    *)
(* the panes.  All of it runs on the main thread, one block of             *)
(* DispatchQueue.main or one user-interface event at a time, so every      *)
(* action is a whole block.  What makes it hard is that an operation is    *)
(* spread over several blocks: `open` answers at once and creates the view *)
(* later, a close tells the client at once and takes the view down later,  *)
(* and panes, pages and clients come and go in between.                    *)
(*                                                                         *)
(* A client is one connection.  What it has received is `out`, the lines   *)
(* written to its socket; who reads them is the subject of WebSession.     *)
(* Keyboard focus is modelled in WebViewFocus.                             *)
(***************************************************************************)
EXTENDS Integers, Sequences

CONSTANTS
  Panes,       \* pane ids, one for each surface ever created
  WebViews,    \* the webview ids that createWebView may generate
  Conns,       \* socket connections
  Requests,    \* the requests a client may send (see RequestType)
  ExitCodes,   \* the codes a page may pass to window.termsurf.exit
  Messages,    \* what pages log
  MaxRequests, \* bound: requests that one connection carries
  MaxLines     \* bound: lines the app writes to one connection before the
               \* pages stop logging

NoPane == "no pane"
NoConn == "no connection"
NoView == "no view"

\* What TermsurfRequest carries, as far as the handlers look at it: "close",
\* "show" and "hide" name a webview or none, "open" names a pane or none.
\* "ping" stands for the actions that only answer.
RequestType ==
  [action : {"ping", "open", "close", "show", "hide"},
   pane : Panes \cup {NoPane}, view : WebViews \cup {NoView}]

ASSUME RequestsAssumption == Requests \subseteq RequestType
ASSUME NamesAssumption ==
  /\ NoPane \notin Panes
  /\ NoConn \notin Conns
  /\ NoView \notin WebViews
  /\ ExitCodes \subseteq Int /\ 0 \in ExitCodes
  /\ MaxRequests \in Nat /\ MaxLines \in Nat

VARIABLES
  surface,             \* paneRegistry: the weak reference of each pane id
  containers,          \* keys of `containers`
  webviewToPaneId,     \* `webviewToPaneId`, NoPane for no entry
  webviewConnections,  \* `webviewConnections` and `webviewRequestIds`, which
                       \* are set and removed together; NoConn for no entry
  paneStacks,          \* `paneStacks`, <<>> for no entry
  stackInfo,           \* stackPosition and stackTotal of each container
  subviews,            \* the containers in each surface, the last on top
  used,                \* webview ids generated so far
  conn,                \* "up", "eof" once the reader saw the end of it,
                       \* "freed" when the weak references to it are nil
  received,            \* requests read from each connection so far
  out,                 \* lines written to each connection
  mainQueue,           \* blocks of DispatchQueue.main
  main                 \* "running", or "stuck" for good

vars == <<surface, containers, webviewToPaneId, webviewConnections,
          paneStacks, stackInfo, subviews, used, conn, received, out, mainQueue,
          main>>

\* The blocks.  A "remove" block captures at the time of the close the surface
\* (NoPane when it is gone), the stack that remains and those views of it that
\* have a container.
Blocks ==
  [kind : {"handle"}, conn : Conns, req : Requests]
    \cup [kind : {"create"}, view : WebViews, pane : Panes]
    \cup [kind : {"remove"}, view : WebViews, pane : Panes \cup {NoPane},
          rest : Seq(WebViews), known : SUBSET WebViews]
    \cup [kind : {"forget"}, conn : Conns]

Lines ==
  [kind : {"ok", "error"}, view : WebViews \cup {NoView}]
    \cup [kind : {"console"}, view : WebViews, msg : Messages]
    \cup [kind : {"closed"}, view : WebViews, code : ExitCodes]

\* The types of the tables, the views, the streams and the queue.
TypeOK ==
  /\ surface \in [Panes -> {"unborn", "alive", "dead"}]
  /\ containers \subseteq WebViews
  /\ webviewToPaneId \in [WebViews -> Panes \cup {NoPane}]
  /\ webviewConnections \in [WebViews -> Conns \cup {NoConn}]
  /\ paneStacks \in [Panes -> Seq(WebViews)]
  /\ stackInfo \in [WebViews -> [pos : Nat, total : Nat]]
  /\ subviews \in [Panes -> Seq(WebViews)]
  /\ used \subseteq WebViews
  /\ conn \in [Conns -> {"up", "eof", "freed"}]
  /\ received \in [Conns -> Nat]
  /\ out \in [Conns -> Seq(Lines)]
  /\ mainQueue \in Seq(Blocks)
  /\ main \in {"running", "stuck"}

Init ==
  /\ surface = [p \in Panes |-> "unborn"]
  /\ containers = {}
  /\ webviewToPaneId = [v \in WebViews |-> NoPane]
  /\ webviewConnections = [v \in WebViews |-> NoConn]
  /\ paneStacks = [p \in Panes |-> <<>>]
  /\ stackInfo = [v \in WebViews |-> [pos |-> 1, total |-> 1]]
  /\ subviews = [p \in Panes |-> <<>>]
  /\ used = {}
  /\ conn = [c \in Conns |-> "up"]
  /\ received = [c \in Conns |-> 0]
  /\ out = [c \in Conns |-> <<>>]
  /\ mainQueue = <<>>
  /\ main = "running"

-----------------------------------------------------------------------------
(* Helpers.                                                                *)

In(s, e) == \E i \in DOMAIN s : s[i] = e
Top(s) == s[Len(s)]

\* removeAll { $0 == e }: an id occurs at most once in the stacks and views
\* this is used on.
Without(s, e) ==
  IF In(s, e)
  THEN LET k == CHOOSE i \in DOMAIN s : s[i] = e
       IN  [i \in 1..(Len(s) - 1) |-> IF i < k THEN s[i] ELSE s[i + 1]]
  ELSE s

\* Some block of this kind waits for this view.
Waits(kind, v) ==
  \E i \in DOMAIN mainQueue :
    mainQueue[i].kind = kind /\ mainQueue[i].view = v

\* The page of a view runs from the creation of its container to the block
\* that takes it down, and without end when its surface dies under it:
\* `containers` holds on to it.
Live(v) == v \in containers \/ Waits("remove", v)

\* updateStackInfo for the views of `known`, by their place in the stack s.
Relabel(s, known) ==
  stackInfo' =
    [v \in WebViews |->
       IF v \in known /\ In(s, v)
       THEN [pos |-> CHOOSE i \in DOMAIN s : s[i] = v, total |-> Len(s)]
       ELSE stackInfo[v]]

\* sendResponse and sendEvent: a line to a peer that is gone is lost, and the
\* error caught.
Send(c, line) ==
  out' = IF conn[c] = "up"
         THEN [out EXCEPT ![c] = Append(@, line)] ELSE out

\* The next block of the main queue is of this kind.
Runs(kind) ==
  /\ main = "running"
  /\ mainQueue # <<>>
  /\ Head(mainQueue).kind = kind

tables == <<containers, webviewToPaneId, webviewConnections, paneStacks>>
views == <<surface, stackInfo, subviews>>
clients == <<conn, received>>

-----------------------------------------------------------------------------
(* Requests: the block that processLine queues runs a handler and sends    *)
(* its answer.  The weak reference to the connection is still good: the    *)
(* block that frees it was queued behind.                                  *)

Request == Head(mainQueue).req
Client == Head(mainQueue).conn

\* open: the answer carries the new id, the tables know the client and the
\* place in the stack, and a block that creates the view is queued.
HandleOpen ==
  /\ Runs("handle") /\ Request.action = "open"
  /\ Request.pane \in Panes /\ surface[Request.pane] = "alive"
  /\ \E v \in WebViews \ used :
       /\ used' = used \cup {v}
       /\ webviewConnections' = [webviewConnections EXCEPT ![v] = Client]
       /\ paneStacks' = [paneStacks EXCEPT ![Request.pane] = Append(@, v)]
       /\ mainQueue' = Append(Tail(mainQueue),
                              [kind |-> "create", view |-> v, pane |-> Request.pane])
       /\ Send(Client, [kind |-> "ok", view |-> v])
  /\ UNCHANGED <<views, containers, webviewToPaneId, clients, main>>

\* A mutant of HandleOpenRefused: guard let paneId ... else { return }, without
\* an answer.
RefusesSilently ==
  /\ Runs("handle") /\ Request.action = "open"
  /\ Request.pane \in Panes => surface[Request.pane] # "alive"
  /\ mainQueue' = Tail(mainQueue)
  /\ UNCHANGED <<tables, views, used, clients, out, main>>

\* open without a pane, or with one whose surface is gone or was never there.
HandleOpenRefused ==
  /\ Runs("handle") /\ Request.action = "open"
  /\ Request.pane \in Panes => surface[Request.pane] # "alive"
  /\ mainQueue' = Tail(mainQueue)
  /\ Send(Client, [kind |-> "error", view |-> NoView])
  /\ UNCHANGED <<tables, views, used, clients, main>>

\* The handlers that only answer: ping, close without an id (not implemented),
\* show and hide without one (an error).
HandleAnswerOnly ==
  /\ Runs("handle") /\ Request.action # "open"
  /\ Request.action = "ping" \/ Request.view = NoView
  /\ mainQueue' = Tail(mainQueue)
  /\ Send(Client,
          [kind |-> IF Request.action \in {"ping", "close"} THEN "ok" ELSE "error",
           view |-> NoView])
  /\ UNCHANGED <<tables, views, used, clients, main>>

\* close, show and hide of a webview: DispatchQueue.main.sync on the main
\* queue waits for a block that cannot run before this one has returned.
HandleSync ==
  /\ Runs("handle") /\ Request.action \in {"close", "show", "hide"}
  /\ Request.view # NoView
  /\ main' = "stuck"
  /\ UNCHANGED <<tables, views, used, clients, out, mainQueue>>

-----------------------------------------------------------------------------
(* The block that createWebView leaves behind.                             *)

\* Mutants of Create: the new view goes below the others; only the new view
\* gets a label, the others keep theirs.
CreatesBelow ==
  /\ Runs("create")
  /\ LET v == Head(mainQueue).view
         p == Head(mainQueue).pane
     IN  /\ surface[p] = "alive"
         /\ subviews' = [subviews EXCEPT ![p] = <<v>> \o @]
         /\ containers' = containers \cup {v}
         /\ webviewToPaneId' = [webviewToPaneId EXCEPT ![v] = p]
         /\ Relabel(paneStacks[p], containers')
  /\ mainQueue' = Tail(mainQueue)
  /\ UNCHANGED <<surface, webviewConnections, paneStacks, used, clients, out, main>>

LabelsOnlyTheNewOne ==
  /\ Runs("create")
  /\ LET v == Head(mainQueue).view
         p == Head(mainQueue).pane
     IN  /\ surface[p] = "alive"
         /\ subviews' = [subviews EXCEPT ![p] = Append(@, v)]
         /\ containers' = containers \cup {v}
         /\ webviewToPaneId' = [webviewToPaneId EXCEPT ![v] = p]
         /\ Relabel(paneStacks[p], {v})
  /\ mainQueue' = Tail(mainQueue)
  /\ UNCHANGED <<surface, webviewConnections, paneStacks, used, clients, out, main>>

\* The surface is still there: the container goes on top of its subviews, and
\* every container of the stack gets its new place.  The place computed when
\* the block was queued, and passed to the initialiser, is overwritten here.
Create ==
  /\ Runs("create")
  /\ LET v == Head(mainQueue).view
         p == Head(mainQueue).pane
     IN  /\ surface[p] = "alive"
         /\ subviews' = [subviews EXCEPT ![p] = Append(@, v)]
         /\ containers' = containers \cup {v}
         /\ webviewToPaneId' = [webviewToPaneId EXCEPT ![v] = p]
         /\ Relabel(paneStacks[p], containers')
  /\ mainQueue' = Tail(mainQueue)
  /\ UNCHANGED <<surface, webviewConnections, paneStacks, used, clients, out, main>>

\* A mutant of CreateFails: the early return forgets the stack.
KeepsPlaceOfFailed ==
  /\ Runs("create")
  /\ surface[Head(mainQueue).pane] # "alive"
  /\ mainQueue' = Tail(mainQueue)
  /\ UNCHANGED <<views, tables, used, clients, out, main>>

\* The surface died in the meantime: only the stack entry is taken back.
CreateFails ==
  /\ Runs("create")
  /\ LET v == Head(mainQueue).view
         p == Head(mainQueue).pane
     IN  /\ surface[p] # "alive"
         /\ paneStacks' = [paneStacks EXCEPT ![p] = Without(@, v)]
  /\ mainQueue' = Tail(mainQueue)
  /\ UNCHANGED <<views, containers, webviewToPaneId, webviewConnections, used,
                 clients, out, main>>

-----------------------------------------------------------------------------
(* Closing.                                                                *)

\* A mutant of QueueRemoval: the block is queued for the labels of the
\* remaining views, and forgotten when there are none.
QueueRemovalForLabels(v, p, rest) ==
  mainQueue' =
    IF rest = <<>> THEN mainQueue
    ELSE Append(mainQueue,
           [kind |-> "remove", view |-> v,
            pane |-> IF p \in Panes /\ surface[p] = "alive" THEN p ELSE NoPane,
            rest |-> rest,
            known |-> {u \in containers \ {v} : In(rest, u)}])

\* What closeWebView leaves for later: a block that takes the view down and
\* gives the remaining ones the places they have now.
QueueRemoval(v, p, rest) ==
  mainQueue' =
    Append(mainQueue,
           [kind |-> "remove", view |-> v,
            pane |-> IF p \in Panes /\ surface[p] = "alive" THEN p ELSE NoPane,
            rest |-> rest,
            known |-> {u \in containers \ {v} : In(rest, u)}])

\* Mutants of TellClosed: the entry is read where it should be removed, and
\* removed before it is read.
TellsAndRemembers(v, code) ==
  /\ UNCHANGED webviewConnections
  /\ IF webviewConnections[v] # NoConn
     THEN Send(webviewConnections[v],
               [kind |-> "closed", view |-> v, code |-> code])
     ELSE UNCHANGED out

ForgetsFirst(v, code) ==
  /\ webviewConnections' = [webviewConnections EXCEPT ![v] = NoConn]
  /\ UNCHANGED out

\* The client that is told, if any, and the entry that is left for it.
TellClosed(v, code) ==
  /\ webviewConnections' = [webviewConnections EXCEPT ![v] = NoConn]
  /\ IF v \in containers /\ webviewConnections[v] # NoConn
     THEN Send(webviewConnections[v],
               [kind |-> "closed", view |-> v, code |-> code])
     ELSE UNCHANGED out

\* closeWebView: every table forgets the view, the client is told, and the
\* view is taken down later.  A view that was closed before is left alone.
CloseWebView(v, code) ==
  /\ main = "running"
  /\ LET p == webviewToPaneId[v]
         rest == IF p = NoPane THEN <<>> ELSE Without(paneStacks[p], v)
     IN  /\ paneStacks' = IF p = NoPane THEN paneStacks
                          ELSE [paneStacks EXCEPT ![p] = rest]
         /\ IF v \in containers THEN QueueRemoval(v, p, rest)
            ELSE UNCHANGED mainQueue
  /\ containers' = containers \ {v}
  /\ webviewToPaneId' = [webviewToPaneId EXCEPT ![v] = NoPane]
  /\ TellClosed(v, code)
  /\ UNCHANGED <<views, used, clients, main>>

\* A mutant of UserCloses: what Ctrl+C interrupts exits with 130, as in a
\* shell.
UserInterrupts(p) ==
  /\ surface[p] = "alive" /\ subviews[p] # <<>>
  /\ CloseWebView(Top(subviews[p]), 130)

\* Ctrl+C in control mode, on the topmost container of a pane.
UserCloses(p) ==
  /\ surface[p] = "alive" /\ subviews[p] # <<>>
  /\ CloseWebView(Top(subviews[p]), 0)

\* window.termsurf.exit(code): the script message of any page that still runs,
\* be it covered, being closed, or in a surface that is gone.
PageExits(v, code) == Live(v) /\ CloseWebView(v, code)

\* The block that closeWebView leaves behind.
Remove ==
  /\ Runs("remove")
  /\ LET b == Head(mainQueue)
     IN  /\ subviews' = [p \in Panes |-> Without(subviews[p], b.view)]
         /\ Relabel(b.rest, b.known)
  /\ mainQueue' = Tail(mainQueue)
  /\ UNCHANGED <<tables, surface, used, clients, out, main>>

-----------------------------------------------------------------------------
(* Pages, panes and connections.                                           *)

\* A mutant of PageLogs: clients are looked up by pane, and the one on top of
\* it hears everything.
LogsToTopClient(v, m) ==
  /\ main = "running"
  /\ v \in containers
  /\ LET c == webviewConnections[Top(paneStacks[webviewToPaneId[v]])]
     IN  /\ c # NoConn /\ Len(out[c]) < MaxLines
         /\ Send(c, [kind |-> "console", view |-> v, msg |-> m])
  /\ UNCHANGED <<tables, views, used, clients, mainQueue, main>>

\* A page logs, and sendConsoleEvent finds a client for it.
PageLogs(v, m) ==
  /\ main = "running"
  /\ Live(v) /\ webviewConnections[v] # NoConn
  /\ Len(out[webviewConnections[v]]) < MaxLines
  /\ Send(webviewConnections[v], [kind |-> "console", view |-> v, msg |-> m])
  /\ UNCHANGED <<tables, views, used, clients, mainQueue, main>>

\* registerPane, called for each new surface.
PaneOpens(p) ==
  /\ main = "running"
  /\ surface[p] = "unborn"
  /\ surface' = [surface EXCEPT ![p] = "alive"]
  /\ UNCHANGED <<tables, stackInfo, subviews, used, clients, out, mainQueue, main>>

\* The last strong reference to a surface is dropped, and its subviews have no
\* superview any more.  A queued "remove" block may hold one.  Nothing tells
\* the manager: no code calls unregisterPane or closeWebViewsForPane.
PaneDies(p) ==
  /\ main = "running"
  /\ surface[p] = "alive"
  /\ \A i \in DOMAIN mainQueue :
       mainQueue[i].kind = "remove" => mainQueue[i].pane # p
  /\ surface' = [surface EXCEPT ![p] = "dead"]
  /\ subviews' = [subviews EXCEPT ![p] = <<>>]
  /\ UNCHANGED <<tables, stackInfo, used, clients, out, mainQueue, main>>

\* A reader thread decodes a request and queues the block that handles it.
Receive(c, r) ==
  /\ conn[c] = "up" /\ received[c] < MaxRequests
  /\ received' = [received EXCEPT ![c] = @ + 1]
  /\ mainQueue' = Append(mainQueue, [kind |-> "handle", conn |-> c, req |-> r])
  /\ UNCHANGED <<tables, views, used, conn, out, main>>

\* It finds the end of the stream and queues onDisconnect.
Hangup(c) ==
  /\ conn[c] = "up"
  /\ conn' = [conn EXCEPT ![c] = "eof"]
  /\ mainQueue' = Append(mainQueue, [kind |-> "forget", conn |-> c])
  /\ UNCHANGED <<tables, views, used, received, out, main>>

\* onDisconnect: the server drops the connection, nobody else holds it.
Forget ==
  /\ Runs("forget")
  /\ conn' = [conn EXCEPT ![Head(mainQueue).conn] = "freed"]
  /\ mainQueue' = Tail(mainQueue)
  /\ UNCHANGED <<tables, views, used, received, out, main>>

-----------------------------------------------------------------------------

RunBlock ==
  \/ HandleOpen \/ HandleOpenRefused \/ HandleAnswerOnly \/ HandleSync
  \/ Create \/ CreateFails \/ Remove \/ Forget

\* The events that the main thread handles between two blocks.
UserEvent ==
  \/ \E p \in Panes : UserCloses(p) \/ PaneOpens(p) \/ PaneDies(p)
  \/ \E v \in WebViews, code \in ExitCodes : PageExits(v, code)
  \/ \E v \in WebViews, m \in Messages : PageLogs(v, m)

Next ==
  \/ RunBlock
  \/ UserEvent
  \/ \E c \in Conns : Hangup(c) \/ \E r \in Requests : Receive(c, r)

\* The main thread keeps taking blocks off its queue.  Everything else is up
\* to the user, the pages and the clients.
Spec == Init /\ [][Next]_vars /\ WF_vars(RunBlock)

-----------------------------------------------------------------------------
(* Properties.                                                             *)

Distinct(s) == \A i, j \in DOMAIN s : s[i] = s[j] => i = j

\* u is in s, and v as well: at the same place or above it.
Before(s, u, v) == \E i, j \in DOMAIN s : i <= j /\ s[i] = u /\ s[j] = v

Sent(c, kind, v) ==
  \E i \in DOMAIN out[c] : out[c][i].kind = kind /\ out[c][i].view = v

\* The four tables describe the same webviews at the end of every block: a
\* container has a pane and a place in its stack, and a place in a stack
\* belongs to a container of that pane or to one that is about to be created.
TableIntegrity ==
  /\ \A v \in WebViews :
       v \in containers <=> webviewToPaneId[v] # NoPane
  /\ \A v \in containers : In(paneStacks[webviewToPaneId[v]], v)
  /\ \A p \in Panes : \A i \in DOMAIN paneStacks[p] :
       LET v == paneStacks[p][i]
       IN  \/ webviewToPaneId[v] = p
           \/ \E k \in DOMAIN mainQueue :
                mainQueue[k] = [kind |-> "create", view |-> v, pane |-> p]

\* A client that was granted a webview, and is still there, is either known to
\* the manager as the one to tell, or was told: in no order of blocks and events
\* does its entry go without its `closed`.  That the entry is used in the end is
\* another matter: when the view cannot be created it stays for good.
NoSilentDrop ==
  \A c \in Conns, v \in WebViews :
    Sent(c, "ok", v) /\ conn[c] = "up" =>
      webviewConnections[v] = c \/ Sent(c, "closed", v)

\* `closed` is the last word about a webview, and is said once: no console
\* line and no second `closed` follows, although the page runs on until the
\* block that removes it and may log or exit again.
NothingAfterClosed ==
  \A c \in Conns : \A i, j \in DOMAIN out[c] :
    i < j /\ out[c][i].kind = "closed" => out[c][j].view # out[c][i].view

\* The order of paneStacks, made when requests are handled, is the order of
\* the subviews, made when the views are created: of the views that have a
\* container, a living pane shows those of its stack, each once, with the same
\* ones above the same others.
StackMatchesViews ==
  \A p \in Panes : surface[p] = "alive" =>
    /\ Distinct(subviews[p])
    /\ \A u, v \in containers :
         Before(subviews[p], u, v) <=> Before(paneStacks[p], u, v)

\* Whatever the blocks captured, once the last one for a living pane has run
\* each of its views shows its true place: "(2/3)" in the control bar.
LabelsSettle ==
  \A p \in Panes :
    /\ surface[p] = "alive"
    /\ \A i \in DOMAIN mainQueue :
         mainQueue[i].kind \in {"create", "remove"} => mainQueue[i].pane # p
    => \A i \in DOMAIN paneStacks[p] :
         stackInfo[paneStacks[p][i]]
           = [pos |-> i, total |-> Len(paneStacks[p])]

\* A webview that was closed leaves the screen, and stays away.
ClosedLeaves ==
  \A v \in WebViews :
    (v \in used /\ webviewConnections[v] = NoConn)
      ~> [](\A p \in Panes : ~In(subviews[p], v))

\* Every request is answered, unless its client has left.
EveryRequestAnswered ==
  \A c \in Conns : \A n \in 1..MaxRequests :
    received[c] = n ~>
      \/ conn[c] # "up"
      \/ Len(SelectSeq(out[c], LAMBDA l : l.kind \in {"ok", "error"})) >= n

=============================================================================
