# TermSurf: a verification development

TermSurf puts web pages into terminal panes. This directory holds TLA+ models
of the program's own logic, the TLC configurations that check them on small
instances, and theorems that TLAPS proves for all instances. Everything is
written from the source; `PROJECT.json` names, for each definition, the lines
it stands for.

Contents: [the system](#the-system), [the modules](#the-modules),
[the runs](#the-runs), [fairness](#fairness), [the proofs](#the-proofs),
[where the code and its documents disagree](#where-the-code-and-its-documents-disagree),
[what is not modelled](#what-is-not-modelled), [plan](#plan),
[how to run it](#how-to-run-it).

## The system

The repository holds two generations. `ts1` is a fork of Ghostty for macOS,
with the feature complete and documented in `docs/`: a page lies over a pane,
and the command `web` in that pane controls it. `ts2` is a fork of WezTerm that
renders pages with CEF and is under construction. The work of this repository,
as opposed to the two terminals it builds on, is the web side of ts1 and the
browser panes of ts2; of WezTerm itself the development takes the part that
browser panes depend on, the multiplexer between client and server.

ts1:

```
   shell in a pane                      the app (one process)
  +----------------+   Unix socket    +------------------------------------+
  | web open URL   | ---- request --> | reader thread of the connection    |
  | (web.zig)      |                  |    | DispatchQueue.main.async      |
  |                | <--- answer ---- | main thread: CommandHandler        |
  |  eventLoop     | <--- events ---- |    WebViewManager, ProfileManager  |
  +----------------+                  |    WebViewContainer, SurfaceView   |
                                      | accept thread: SocketServer        |
                                      +------------------------------------+
```

ts2:

```
   wezterm cli web-open          server                    GUI client
  +--------------------+   +---------------------+   +--------------------------+
  | Pdu::WebOpen  -----|-->| SessionHandler      |   | client thread (MuxRpc)   |
  |               <----|---|  process_one        |<->|  serials, promises       |
  +--------------------+   |  compute_changes ---|-->| RenderableInner: cache   |
                           | Terminal (lock)     |   |  of lines (RenderSync)   |
                           | Mux::notify --------|-->| TermWindow: browsers     |
                           +---------------------+   |  CEF, one timer (pump)   |
                                                     +--------------------------+
```

### Components

**Socket server** (`Socket/SocketServer.swift`). State: the listening socket,
`isRunning`, the table of connections under `connectionLock`. Operations: start,
stop, the accept loop, and a block on the main queue for each connection that
ends. Three kinds of threads share the table. Correct when every connection
that ends is taken out of the table, no other is, and stop comes to an end.

**Socket connection** (`Socket/SocketConnection.swift`, `TermsurfProtocol.swift`).
State: a descriptor and a buffer. A reader thread cuts the stream into lines,
decodes requests and hands each to the main queue; the main thread handles it
and writes the answer; events are written by the main thread too, with blocking
writes. Correct when no line is lost, split or repeated, answers come in the
order of the requests, and the main thread is not held up for good.

**Command handler and webview manager** (`Socket/CommandHandler.swift`,
`WebView/WebViewManager.swift`). State: six dictionaries, from panes, webviews
and connections to each other. Operations: the requests open, close, show, hide
and ping; the close of a webview by its user or its page; console output; panes
that come and go. An operation is spread over several blocks of the main queue.
Correct when the dictionaries agree with each other and with the views on the
screen, and each client hears exactly what concerns its webview.

**The command** (`ts1/src/cli/web.zig`). One process for each invocation.
`web open` writes a request, reads an answer, and then prints events until its
webview closes, whose exit code becomes its own. Correct when it prints what
the page logged, in order, and exits with the page's code.

**Focus** (`WebView/WebViewContainer.swift`, `ControlBar.swift`, and the hooks
in `SurfaceView_AppKit.swift`). Each webview is in control, browse or insert
mode; AppKit has one first responder for the window. Handlers of keys, mouse
clicks and main-queue blocks keep the two in step. Correct when the keys go
where the mode says, and the user can always get out of a page.

**Bookmarks** (`Bookmarks/ProfileManager.swift`). State: a JSON file for each
profile and a cache of it in each app. Operations: add, get, list, update,
delete, and the creation of a profile for a webview. Correct when each request
happens entirely or not at all and survives a restart.

**Browser panes** (ts2: `cef_integration.rs`, `cef_browser/mod.rs`, `termwindow/`).
State: the timer of the main run loop that makes CEF work, under a lock; for each
window, the browsers it created and the texture of each. Operations: CEF asks
for work from any thread; the timer fires; a window opens, redraws or closes a
browser. Correct when work that was asked for is done, and what a window shows
is what it has.

**Lines of a pane** (ts2: `sessionhandler.rs`, `pane/renderable.rs`,
`pane/clientpane.rs`, and `term/` for the terminal). State: the terminal, under a
lock, with a sequence number in each line; what a session believes its client
was told; the client's cache of lines, each up to date, stale or being fetched.
Operations: output; computing and applying deltas; fetches; predictions of keys;
reconnection. Correct when a line that the client calls up to date is.

**Requests to the multiplexer** (ts2: `client.rs`, `dispatch.rs`). State: a queue
of requests, the promises under their serials, what the session has to write.
Correct when each task gets the answer to its own request, or an error.

**Overlay** (`WebView/WebViewOverlay.swift`), **environment**
(`Socket/TermsurfEnvironment.swift`), **titles** (`BaseTerminalController.swift`),
**split tree** (`Splits/SplitTree.swift`): see
[what is not modelled](#what-is-not-modelled).

### What makes it hard

- *Work spread over blocks.* `open` answers before the view exists; a close
  tells its client before the view is gone. Panes, pages, users and clients act
  in between.
- *Threads.* The accept loop, one reader for each connection and the main
  thread share tables, locks and queues.
- *Processes that stop at any point.* The command may be killed, the app may
  crash, a disk may be full in the middle of a save.
- *State kept twice.* Focus mode and first responder; mode of the container and
  mode of its bar; cache and file; stack of ids and stack of views; a terminal
  and the client's cache of it.
- *Locks that are let go between two questions.* `compute_changes` and the message
  pump take theirs for each access, so that others act between.
- *Waiting in circles.* A lock taken twice, the main queue waiting for itself, a
  write that waits for a reader who waits for the writer.

The list of hazards in `PROJECT.json` gives each at its line, with the
properties that would catch it.

## The modules

| module | stands for | kind |
|---|---|---|
| `SocketServer` | SocketServer.swift, life cycle of connections | concurrent, three kinds of threads |
| `SocketConnection` | SocketConnection.swift, framing and order | concurrent, client / reader / main |
| `ConsoleStream` | the path of console lines, with buffers that fill | flow control |
| `WebViewManager` | WebViewManager.swift, CommandHandler.swift | event loop |
| `BlockingOpen` | what `web open` promises | abstract |
| `WebSession` | web.zig and WebViewManager together | composition, implements `BlockingOpen` |
| `WebViewFocus` | WebViewContainer, ControlBar, the hooks in SurfaceView | event loop |
| `Bookmarks` | requests, answers, effects of the bookmark commands | operators |
| `BookmarkStore` | what the bookmark commands promise | abstract |
| `ProfileManager` | ProfileManager.swift, cache and file | event loop, crashes, implements `BookmarkStore` |
| `MessagePump` | cef_integration.rs, the timer of CEF's work | concurrent, any number of threads |
| `BrowserPanes` | the browsers of the windows, on top of `MessagePump` | event loop, composition |
| `RenderSync` | sessionhandler.rs and renderable.rs, the lines of a pane | server, client, network |
| `MuxRpc` | client.rs and dispatch.rs, requests and answers | client, server, failing connection |
| `Connection_proofs` | theorems about `SocketConnection` and `ConsoleStream` | proofs |
| `Mux_proofs` | theorems about `MuxRpc` and `RenderSync` | proofs |
| other `*_proofs` | theorems about the module named | proofs |
| `MC*` | constants and symmetry for TLC | instances |

Names follow the source where they can: `paneStacks`, `webviewConnections`,
`focusMode`, `isInsertMode`, `focusBrowser`, `closeWebView`. An operator called
a mutant in its comment is a plausible mistake in the definition that follows it:
substituting it must break the property it was written for. The specifications
do not use it.

### SocketServer

One action is what a thread does between two points where another can interfere:
`AcceptChecks`, `AcceptReturns`, `AcceptRegisters`, `AcceptAssigns` and
`AcceptStarts` are the accept loop, cut where it takes the lock, assigns the
callback and starts the reader; `StopBegins`, `StopLocks`, `StopCloses`,
`StopUnlocks` and `StopEnds` are `stop()`, with the call of `onDisconnect` inside
`close()`. `lockOwner` is the NSLock, which its owner must not take again.
`ReaderEnds` is the end of `readLoop`, which queues the block that `RunDisconnect`
runs. Short critical sections that hold the lock over nothing that can wait are
one step.

### WebViewManager

All of it runs on the main thread, so each action is a whole block or a whole
event, with every call it makes. `mainQueue` holds the blocks with what they
captured: a `handle` block the request and the connection; a `create` block the
webview and its pane; a `remove` block the surface, the remaining stack and the
containers it had at the time. `surface` is the weak reference of `paneRegistry`
(unborn, alive, dead). `conn` goes from `up` to `eof` to `freed`, when the weak
references to the connection turn nil. `out` is what was written to each client.

`webviewRequestIds` is set and removed with `webviewConnections`, so one variable
stands for both. A dictionary without an entry maps to `NoPane`, `NoConn` or the
empty sequence. `HandleSync` is what close, show and hide of a named webview do:
`DispatchQueue.main.sync` on the main queue, after which `main` is stuck. What
those three would do otherwise is never reached through a request and is not
invented here; `CloseWebView` is reached by users and pages.

### WebSession and BlockingOpen

`BlockingOpen` describes a command as its shell sees it: blocked while its
webview is open, printing in order, gone with the page's code; and the only
other ways out: refused, killed, the app gone, or an answer it could not read.
`WebSession` extends `WebViewManager` with the command at the other end of each
connection: it has `taken` a prefix of `out`, reads events one by one, clamps
the exit code, and ends on end of file. Two history variables keep what each
page logged and how it ended. The refinement maps these to the variables of
`BlockingOpen`, and `KeepsPromise` is the whole of it, fairness included.

### WebViewFocus

`stack` is the containers among the subviews of one surface. `first` is the
first responder, of which the code distinguishes the surface, the window, another
pane, a page and a URL field. `FocusSurface` is `makeFirstResponder(surface)`
with `becomeFirstResponder` of SurfaceView, which hands the keyboard to the page
of the topmost container when that is in browse mode; AppKit may leave either of
the two as first responder when one asks for another inside its own
`becomeFirstResponder`, so both outcomes are allowed. The monitor that sees a
key first among those of several containers is a choice too. `Habits` says what
else users and pages do, so that each finding is shown by the smallest cause.

### ProfileManager and BookmarkStore

One profile. `file` is absent, empty, torn or a set of bookmarks; `cache` is that
of each app; `queue` is the requests that wait for the main thread of an app,
which handles bookmarks like every other request. A save is two steps, as
`Data.write(to:)` without `.atomic` is: `OpensFile` truncates and `WritesFile`
writes, and `SaveFails` and `Restarts` may happen at either. Two apps may have
their writes overlap, which leaves a torn file. `BookmarkStore` has one set of
bookmarks and requests that happen at one instant; `Quit` may lose the set as a
whole, because a crash during a save loses the file.

### SocketConnection

A line is two pieces, so that a read can end inside it; a blank line is a lone
newline. `Reads` takes any number of pieces up to `MaxChunk`, `TakesLine` is one
turn of the loop in `processBuffer`. Lines are requests, which go to the main
queue, or garbage, which the reader thread answers itself. What is in order is said
by `StartOf(S, lines)`: the members of S among some lines are its first ones, each
once and in order.

### ConsoleStream

Lines are counted, not named: on the main thread's hands, in the socket, in the
command's hands, in the pipe, on the screen. `Sends` is a write that waits while
the socket is full. A pager shows `Screen` lines and waits for a key, and keys
come through the main thread. `setting`, chosen once, is how the command was
run: through a pager or not, stoppable or not, and how much its socket holds. The
specification is `ConsoleSpec`, so that one module can speak of both views of a
connection.

### MessagePump and BrowserPanes

`MessagePump` cuts `schedule_cef_work` into its critical sections: `Cancel` takes
the reference and invalidates its timer, `Add` gives a new timer to the run
loop, `Store` keeps the reference. `Fire`, `Clear`, `DoWork` and `WorkDone` are
`timer_callback`. Delays are left out: a pending timer may fire at any time.
The main thread runs one thing at a time, but CEF may ask for work on it while
it works. `BrowserPanes` extends this with windows: `inbox` is the `WebOpen`
notifications on their way to each, `browsers` its `browser_states` with
whether a texture is there, `stale` the windows that were invalidated, `frame`
what each has drawn. `HandleWebOpen`, `CtrlC` and `Paint` are whole handlers.
CEF is external: it asks for work when it has something to paint
(`NeedsWork`), and sometimes for nothing (`AsksAnyway`).

### RenderSync

Each read of `compute_changes` that takes the terminal's lock is a step
(`ReadCursor`, `ReadSeqno`, `ReadDirty`, `ReadLines`, `PushDelta`), and a batch of
output may come between any two. The text of a line is the screen it belongs to
and the sequence number of its last change. `StableRange` is
`Screen::stable_range` with what it does to a range that is not there. The client
is `ApplyDelta`, `FetchDone`, `Paint` and the acts of a user; entries of the cache
are those of `LineEntry`, with the start time of a fetch as its name. Pushed deltas
are applied in order unless lines carry images (`Hydrates`). `NewSession` starts a
session afresh, drops what is on its way and fails what was asked for.
Left out: the `dead` flag, the predictions of pasted text, titles, palettes, how
long a poll waits, and the limit of the scrollback.

### MuxRpc

The client thread is one action for each turn of its loop, except that a write
may have to wait for room (`TakeRequest`, `WriteRequest`). `Broken` is the end of
`client_thread_async`: the promises are dropped and fail. Whether the thread then
connects again (`retry`) or ends is decided as in `Client::new`: by the kind of
error and of domain. `Receive`, `CarryOut`, `Push` and `WriteItem` are the session;
handlers run on the main thread of the server, and answers leave in any order.

## The runs

`expect pass`:

| run | instance | shows |
|---|---|---|
| `server` | 2 connections, backlog 2 | no connection stays in the table after its end; a callback is in place when it is needed; only gone clients are deregistered; every gone client is forgotten |
| `views` | 1 pane, 3 webviews, 3 commands that open, or close with or without an id | a granted client is known or told; `closed` is the last word; the tables agree, the order of ids is the order of views, labels are right once the blocks have run |
| `views_live` | 2 panes, 2 webviews, 2 clients that name no webview | requests are answered, closed webviews leave and stay away |
| `session` | 2 commands on one pane, 2 webviews, exit codes 0 and 300, 2 messages, 3 lines | each `web open` implements `BlockingOpen`, and hears of its own webview only |
| `focus` | 3 webviews, all habits | pages have the keyboard only in browse mode; it is at the top; the terminal gets it back; Ctrl+C leaves a page |
| `profile` | 1 app, 2 callers, 2 names, 2 texts, 12 requests | the profile implements `BookmarkStore`; file and cache agree between saves |
| `connection` | all scripts of up to 3 lines, reads of up to 3 pieces | lines and answers are complete and in order |
| `console` | 8 lines: a terminal with a socket of 2; a pager, and Ctrl+Z with fg, with room for all | no line is lost, everything is seen, the main thread comes back from each write |
| `render` | 2 rows, 1 row of scrollback, 2 fetches, 2 batches or acts, predictions | no line that is called up to date is wrong without a correction under way; a quiet window shows the terminal |
| `browser` | 1 window, 2 tabs with a pane each, 2 threads, 3 timers, 3 events | work asked for is covered; frames are current; an opened browser comes to be seen |
| `rpc` | 3 requests, 1 of them given up, room for 2 PDUs each way, 1 push, 2 lost connections | answers go to their requests; nobody waits for ever |

`expect violation`: `views_close`, one of the disagreements listed
[below](#where-the-code-and-its-documents-disagree). The others have a
configuration each, named there, that ends in a counterexample; they are not part
of the list of runs, to keep that short.

### The bounds, and why they are enough

- *Two connections to the server.* The threads of different connections meet only
  in the table and on the main queue; two show every order of one connection's
  events against another's. The theorems about the server hold for any number.
- *Three webviews on a pane* (`views`, `focus`): one on top, one below, one
  between; the positions of labels and the choice of the topmost need three.
  Three clients with one request each are three commands: a command writes one
  request on its connection. `MaxLines` 2 stops the page, not the app: it has
  room for an answer and a console line, and `closed` comes on top of it; a
  fourth line could only be another console line.
- *Two panes* (`views_live`): one may die while the other goes on. A third would
  be a second pane that goes on.
- *Two commands on a pane* (`session`): a line of one may go to the other.
  `FirstComesFirst` looks at one of the behaviours that differ only in names, and
  has the page of the second webview log nothing and exit with 0, which is a bound:
  the two still open, close and die in every order.
- *Exit codes 0 and 300*: an ordinary one and one outside a byte; negative ones, which
  `Clamp` makes 0, are not among the instances.
- *Two names, two texts* (`profile`): a write to one bookmark must leave the other
  alone, and two texts tell an update from what it replaced. The requests include
  the complete, partial and malformed forms of each operation.
- *Three lines, three pieces a read* (`connection`): a read may hold the end of
  one line, a whole line and the start of a third.
- *Buffers of two* (`console`): the least at which a buffer is neither empty nor
  full; 8 lines overrun the buffers on the way several times, and the pager's
  screen twice.

- *Two batches* (`render`): the second falls between the reads of a delta about
  the first, or the user acts while the first travels. Two rows and one of
  scrollback are a row that scrolls out of view and one that the alternate screen
  lacks. `MCRenderSync` has two reductions. `ClientBetweenJobs`: steps of the client
  commute with the reads of `compute_changes`, which touch other variables.
  `PollsThatMatter`: a poll when nothing was pushed yet is the only one that asks
  for what is not asked for already. A third batch is within reach of an
  invariant only, and finds the first of the counterexamples about lines below.
- *Three timers, two threads* (`browser`): one timer pending, one just added by each
  thread that lost its reference. The theorems about the pump hold for any number.
- *Three requests, two lost connections* (`rpc`): one answered, one being written and
  one in the queue when the connection goes, twice. With room for two PDUs in each
  direction and one push the sockets never fill on both sides at once; with less
  they do, see below.

Symmetry is used for panes, webviews and connections in runs that check
invariants and step properties only, never where liveness is checked.
Configurations turn deadlock checking off because each of these systems may
come to rest: clients stop asking, the bounds are reached, the app has quit.
Every request counter and line counter is bounded by a named constant.

## Fairness

- *Main thread.* `WF(RunBlock)`: the run loop takes the blocks off its queue.
  Users, pages, panes and clients are under no fairness: they may do nothing.
- *Socket server.* Threads take their next step; where an accept or a lock may be
  taken away in between, strongly (`AcceptReturns`, `AcceptRegisters`): a waiting
  client is accepted and NSLock is not withheld for ever. Clients and the user
  are free, and `stop` is not forced.
- *Session.* A command that can read does (`WF(Command)`), and its app handles
  requests. Kills, crashes and page events are free, and `BlockingOpen` asks for
  no more than the code can give: a command need not end when nobody closes its
  webview.
- *Profiles.* `WF(Runs)` for each app; failing saves and restarts are free.
- *Console stream.* The writes and the pager weakly, the command and the user
  strongly, since a user who stops and resumes the command for ever would
  otherwise stop it for good. The user is assumed to press a key for the pager
  and to type `fg` some time: without that a full screen stays full, which is
  nobody's error.
- *Lines.* The queues of the two main threads are fair to each kind of work:
  computing deltas, answering fetches, applying deltas, taking in answers,
  painting. Output, users and reconnections are free.
- *Browser panes.* The run loop fires timers, windows handle notifications and
  paint, a call of CEF comes to its end, and CEF asks for work while it has
  something to paint. Requests, keys, tabs and panes are free.
- *Requests.* The client thread and the server go on. A new connection need not
  come, and the server need not push.

## The proofs

TLAPS checks, for every value of the constants that satisfies the named
assumptions:

| theorem | says |
|---|---|
| `SocketServer_proofs!TypeCorrect` | the types, with who holds the lock and what the accept thread carries |
| `SocketServer_proofs!NoZombieHolds` | a registered connection has somebody who will take it out |
| `SocketServer_proofs!DisconnectIsNeverLostHolds` | a reader that ends has a callback to report to |
| `SocketServer_proofs!OnlyGoneDeregisteredHolds` | no step deregisters a connection that is still read |
| `WebViewManager_proofs!TypeCorrect` | the types of the tables, the queue and the streams |
| `WebViewManager_proofs!HearingHolds` | the invariant `Hearing`, below |
| `WebViewManager_proofs!NoSilentDropHolds` | a granted client is known or was told |
| `WebViewManager_proofs!NothingAfterClosedHolds` | nothing about a webview follows its `closed` |
| `WebViewManager_proofs!TablesHold` | the invariant `Tables`, below |
| `WebViewManager_proofs!TableIntegrityHolds` | the tables agree with each other |
| `WebViewManager_proofs!LayoutHolds` | the invariant `Layout`, below |
| `WebViewManager_proofs!StackMatchesViewsHolds` | a living pane has its views on the screen in the order of its stack |
| `WebViewManager_proofs!LabelsHold` | the invariant `Labels`, below |
| `WebViewManager_proofs!LabelsSettleHolds` | once the blocks have run, each label is right |
| `WebSession_proofs!SessionHolds` | the invariant `Session` of the app with its commands, below |
| `WebSession_proofs!SessionTypeCorrect` | the types of the composition; exit codes fit a byte |
| `WebSession_proofs!KeepsPromiseStepwise` | each step is a step of `BlockingOpen`, or none |
| `ProfileManager_proofs!TypeCorrect` | the types of file, caches, queues and answers, for any number of apps |
| `ProfileManager_proofs!DurableHolds` | with one app, cache and file agree between saves |
| `ProfileManager_proofs!KeepsBookmarksStepwise` | with one app, each step is a step of `BookmarkStore`, or none |
| `Connection_proofs!ConnectionHolds` | the invariant of a connection, below |
| `Connection_proofs!TypeCorrect` | the types; no complete line waits while the reader is in read(2) |
| `Connection_proofs!LinesInOrderHolds` | lines are processed each once, whole and in order |
| `Connection_proofs!AnswersInOrderHolds` | requests are answered once and in order, and so are other lines |
| `Connection_proofs!ConsoleTypeCorrect` | every line that was logged is in one place |
| `WebViewFocus_proofs!OnlyBrowsedPagesGetKeysHolds` | a page has the keyboard in browse mode only |
| `WebViewFocus_proofs!CtrlCEscapesHolds` | Ctrl+C takes the keyboard from the page that has it |
| `WebViewFocus_proofs!TypeCorrect` | the types of stack, responder, modes and queue |
| `WebViewFocus_proofs!KeyboardIsOnTopHolds` | once the blocks have run, no covered webview has the keyboard |
| `WebViewFocus_proofs!TerminalGetsFocusBackHolds` | once the last webview is gone, the terminal has the keyboard |
| `Mux_proofs!TypeCorrect` | the types of client and session, and fresh serials |
| `Mux_proofs!AnswersGoHomeHolds` | an answer goes to the request it answers |
| `Mux_proofs!RenderTypeCorrect` | the types of the lines of a pane, in every instance of `RenderSync` |
| `Mux_proofs!LinesInvariant` | the invariant of the lines, below |
| `Mux_proofs!NearLinesStayUpToDate` | a row that both screens have is up to date, or a correction is on its way |
| `Mux_proofs!LinesStayUpToDate` | the same of all rows, without alternate screens or without scrollback |
| `BrowserPanes_proofs!WorkIsCoveredHolds` | work asked for has a timer or a call that will add one |
| `BrowserPanes_proofs!TypeCorrect` | the types of the pump and the windows |
| `BrowserPanes_proofs!FrameIsCurrentHolds` | a window that is not about to be painted shows what it has |

**The server.** `TypeOK` carries what the accept thread has in hand; with it
`NoZombie` is inductive. The cases that matter are `AcceptStarts`, which hands
the connection from the accept thread to its reader; `ReaderEnds`, which hands
it to the main queue; and `RunDisconnect`, which must take it out of the table.
Two lemmas say what appending and removing at the head do to membership in a
queue. `DisconnectIsNeverLost` rests on the order of the accept loop, which
assigns the callback before it starts the reader; `OnlyGoneDeregistered` is a
property of steps and follows from what is queued for whom.

**The webview manager.** Neither `NoSilentDrop` nor `NothingAfterClosed` is
inductive. A second `closed` is impossible because the client's entry is removed
with the first; an id that was never generated has no line at all; and a webview
without an entry whose client is still there was told, provided that it had a
container when it was closed. `Hearing` puts these together:

- `Generated`: lines, entries, containers and blocks mention ids in `used` only,
  so that `open` grants a fresh one;
- `NobodyLeftToTell`: a webview for which `closed` was sent has no entry in
  `webviewConnections`;
- the two properties themselves.

`Hearing` is proved with one lemma for each kind of step: those that write
nothing (`QuietStep`), answers (`AnswerStep`), `HandleOpen`, `Create`,
`CloseWebView` and `PageLogs`. That Swift removes the entry before it sends, in
one block, is the fact on which all of it rests. The proof assumes only
`RequestsAssumption` and `NamesAssumption`, which TLC evaluates in the runs.

`TableIntegrity` needs the stages of a webview's life. Between its `open` and its
`create` block an id is in a stack of `paneStacks` and in no other table; later
blocks act on what the tables hold by then. `Tables` says so: containers and
`webviewToPaneId` have the same webviews; each is in the stack of its pane; an id
in a stack has that pane in the table or a `create` block in the queue; such a
block is the only one for its id; and no stack has an id twice, so that removing
one occurrence removes the id. Sequences carry most of the proof: what `Without`
leaves in a stack, and what a block at the head of the queue leaves queued.

`StackMatchesViews` compares an order that is made when requests are handled with
one that is made when their blocks run. It is stated by places: of two views with
a container, one is before the other on the screen exactly if it is in the stack.
`Layout`, inductive given `Tables`, adds why this stays so:

- `CreationOrder`: what is above a view that is still to be created is created by
  a later block, so that `addSubview` puts it on top in time;
- `Shown` and `OnScreen`: a living pane has on the screen each of its containers
  once and, besides, only views that were just closed;
- `Leaving` and `NothingUnborn`: a view in a `remove` block has no container and
  is not to be created; before a pane is there nothing is in its stack.

`LabelsSettle` is about blocks that carry what they captured. `Labels`, inductive
given both, says that with no block of a pane left its labels are right
(`Settled`); that the last block of a pane, if it is a removal, carries the stack as
it is, and that each view it will not label is right already or is still to be
created (`LastRemoval`); and that a removal knows the containers that an earlier one
knows, where they still count (`LaterKnows`, `KnownThere`, `HoldsSurface`). Every change of the
stack of a living pane queues a block for that pane, and the blocks run in order.

**The session.** `AppIsSafe` shows that the app, composed with commands, takes only
steps it takes alone, so the invariants of the manager hold there too. `Session` adds
the other end of each connection, and says of every command and webview:

- `Asking`: a command asks once, its connection is up while it runs, and nothing
  was written to it before its request is handled;
- `Fates`: a webview closes at most once, and until it does the tables know it;
- `Grants`: an id is granted to one command, and while both are there the tables
  have this command as the one to tell;
- `Streams`: a connection carries the answer, then the lines of the command's own
  page, in order, and then its code; only one that is gone may lack the end;
- `Commands`: what a command has printed is the beginning of what its page said.

From these `KeepsPromiseStepwise` follows, one lemma for each kind of step: a command
that starts is `Ask`, the block that handles its request `Decide`, a page that logs
`Log`, a webview that closes `Close` with the code that `Clamp` makes of its own, a
command that reads is `PrintLine`, `Exit` or one of the ways out without a webview,
and everything else changes nothing that a shell can see. It assumes `OpensAssumption`, that commands open;
`cmdOpen` writes one request, and this one.

**Profiles.** `TypeOK` is inductive with one clause about saves: only the request
at the head of a queue saves, over a loaded profile. `DurableHolds` needs `InStep`:
until a save truncates the file the cache is what the file holds, and from then
on the file is empty and the app's own. It assumes `OneApp`; without it the
statement is false, which is what `MCProfileManagerTwoApps.cfg` shows. On the same
assumption `KeepsBookmarksStepwise` maps each step to `BookmarkStore`: a request
happens when its write does, or at once if it writes nothing; a save that fails
has not happened; and a crash in the middle of one is `Quit` with the set lost.

**A connection.** Neither order is inductive. The invariant `Inv` follows each line
from the client to its answer. `Whole` describes `Flow`, the pieces in the buffer
and in the stream taken together, which a read does not change: lines in order, each
with all of its pieces, except that a client that leaves may cut off the last.
`Reached` says that a line that was written is processed or in the flow, and that
the processed ones are before those in the flow. So the first newline in the buffer
ends the least line that is left. `Queued` says that the main thread has exactly the requests
that are processed and not answered, in order and behind those that are; that is why
answers of two threads keep the order of each kind.

**The console stream.** `ConsoleTypeOK` counts: what was logged is in the main
thread's hands, the socket, the command's hands, the pipe or on the screen. It is
inductive, and arithmetic does the rest.

**Focus.** `Browsed`, the modes and the property, is inductive because every
handler sets the mode before it moves the responder. The order matters in
`focusControlBar`, where asking for the surface looks at the mode.

`KeyboardIsOnTop` and `TerminalGetsFocusBack` are about states with no block left, and
hold because of the order in which the blocks come. `Inv` keeps this order: a container
that has the keyboard is the topmost, or the topmost will focus itself (`Keyboard`);
containers focus themselves from the bottom to the top (`InOrder`), before they are
taken down (`ToFocus`); a view to be created is known from nowhere else (`ToCreate`),
and one that is taken down was closed (`ToRemove`). A close that found others left
is followed by the close of one that did not, or one is still open (`Deferred`), and when the window
itself has the keyboard somebody will give it back (`NobodyForNow`).

**Requests.** `AnswersGoHome` needs to know of everything under way. `Right` is
the set of PDUs that may be: with a serial below the next one and, where there is
a promise under that serial, with its request. `Inv` says that the thread, both
sockets, the tasks of the server and what it has to write hold only such PDUs. A
promise taken back makes more of them right; a new one is under a fresh serial,
which none has; a new connection empties them all before serials start again.

**Lines.** `RenderTypeOK` is inductive and holds in every instance. `LinesAreUpToDate` does
not: four of the disagreements below are counterexamples to it in other instances
than that of the run. `Orderly` excludes three of them: lines with images (14), programs that enter the
alternate screen without erasing it (13) and predicted motion keys (20). `Near`
excludes the fourth, the rows from `H` on where there is an alternate screen, which
does not have them (12). What is left is every interleaving of output with the reads of
`compute_changes`, of deltas, fetches and their failures, guesses, scrolling and
reconnections, for any viewport and any number of events.

Neither that a line is right nor that it is promised is inductive by itself: the
cache takes lines from deltas and from fetches, which are as old as what they met on
their way. `Fine(i, r, v)` says of the version `v` of row `r` that it is the terminal's,
or that the row is reported again by a delta after the `i`-th, by the computation or
because the session has yet to see its last change. `LinesInv` says this of each
version there is:

- `Pushed` and `Computed`: a delta carries the line of its cursor, and its lines are fine
  by what comes after that delta; the computation notes the sequence number before it asks
  what changed, so that a line that changes after its question is above that number;
- `Fetched`: the answer to a fetch is fine, for a row that still waits for it. If the
  fetch fails, the line that was there comes back as up to date, which is right
  because the new session starts from 0 and reports every row;
- `Cached`: a line in the cache is fine, or it is a guess, on the row of the cursor,
  while the answer to a key is under way: this answer moves the cursor or names its row;
- `Within`: a computation asks about each row the client knows, because the
  dimensions that it read reach that far;
- `Screen`: rows that are there were written, so that a new session, which knows
  0, has yet to report them.

`LinesAfterApply` and `LinesAfterFetch`, which take a delta and an answer off the
way, and `ReadSeqno`, after which rows are no longer above the number of the
session and must be among those that are asked for, are where the parts need each
other. `NearLinesStayUpToDate` follows; where `AltScreens` is empty or `MaxTop` is 0 all
rows are near, and it is `LinesAreUpToDate` (`LinesStayUpToDate`). The run `render` is not an
instance of that hypothesis: it has motion keys and an alternate screen above
scrollback too, and two events are too few for 12 and 20. `LinesInv` was checked by
TLC, with up to three events, on instances with and without an alternate screen.

**Browser panes.** `PumpInv` is inductive for the pump alone, and every step of
the app is a step of the pump or leaves it alone (`StepPumps`). `WindowInv` says
of each window that nothing is left of it when it is gone, that it shows a tab
that has panes, and that its frame is current or it is stale.

TLC checked each inductive invariant before it was proved, on the instance of the
run or on a smaller one.

**Only model-checked.** All liveness, which rests on fairness and `ENABLED` and is
outside what TLAPS can do here: the leads-to properties, and the fairness in the two
refinements. `KeepsPromise` and `KeepsBookmarks` are checked whole by TLC; what the
two theorems prove for every instance is the initial condition and the steps.
`LinesAreUpToDate` beyond the hypotheses above is checked on the instance of `render`
and false in larger ones. Every other invariant and action property of the passing runs
is a theorem, on the assumptions named above.

## Where the code and its documents disagree

Each was met while modelling, and TLC reaches each with the configuration named
first. 2 is the run `views_close`.

1. `MCSocketServerStop.cfg`, `StopRemovesFile`. `stop()` closes connections
   while it holds a lock that the callback of `close()` takes: with a client
   connected the app hangs on quit and "Remove socket file" is not reached.
2. `MCWebViewClose.cfg`, `EveryRequestAnswered`. `web close <id>`, show and
   hide wait on the main queue for the main queue. Nothing is answered after
   that.
3. `MCWebSessionBlocks.cfg`, `BlocksOnAWebView`. A pane that dies between the
   answer to `open` and the creation of its view: the command blocks although
   no webview ever exists.
4. `MCWebSessionGranted.cfg`, `GrantedDoesNotFail`. An event that comes in the
   same read as the answer: the command takes both for one JSON text and
   fails, its webview stays open.
5. `MCWebViewFocusTrap.cfg`, `CtrlCGuarantee`. A page on top closes itself
   over another in browse mode: no view has the keyboard, and Ctrl+C,
   documented as a guarantee, does nothing.
6. `MCWebViewFocusCovered.cfg`, `ControlModeCtrlCCloses`. In control mode
   Ctrl+C goes to a covered page that is still in browse mode, rather than
   closing the webview on top.
7. `MCWebViewFocusBar.cfg`, `BarKnowsItsMode`. A click on the dimmed page ends
   insert mode for the container and not for its control bar.
8. `MCWebViewFocusInsert.cfg`, `InsertModeHasTheField`. Leaving the pane and
   coming back while the URL is edited leaves insert mode without the URL
   field; the function for this has no caller.
9. `MCProfileManagerTwoApps.cfg`, `NoRaces`. Two apps on one profile overwrite
   each other's bookmarks.
10. `MCProfileManagerEnsure.cfg`, `EnsuredExists`. A bookmark lookup in a new
    profile keeps the file from ever being created by a webview.
11. `MCConsoleStreamPager.cfg`, `MainComesBack`. `web open | less` with enough
    output stops the whole app: the main thread waits for the pager, which
    waits for a key.
12. `MCRenderSyncRace.cfg`, `LinesAreUpToDate`. A batch that leaves the alternate
    screen and writes below its range, between the dimensions and the sequence
    number in `compute_changes`: the row is covered by the number and not by the
    range, and the client shows its old text as "Up to date wrt. server".
13. `MCRenderSyncPlain.cfg`, `LinesAreUpToDate`. Modes 47 and 1047 enter the
    alternate screen without erasing it, and only rows of the primary screen are
    marked as changed, against the comment on `dirty_top_phys_rows`.
14. `MCRenderSyncImages.cfg`, `LinesAreUpToDate`. A delta that waits for its images
    is applied after a later one.
15. `MCRenderSyncGivenUp.cfg`, `FetchingIsUnderWay`. A row that the terminal loses
    while it is fetched stays "Currently being downloaded from the server".
16. `MCBrowserPanesStray.cfg`, `CtrlCReachesIt`. Every window creates a browser for a
    `WebOpen`, and none closes that of a dead pane: "Press Ctrl+C to close the
    webview" holds for neither. `DrawnOnItsPane`, that browsers of hidden tabs
    are not drawn, does not hold either.
17. `OneTimer` of `MessagePump`. Two threads that ask at once leave two timers, of
    which one can no longer be cancelled; no work is lost by it.
18. `MCMuxRpcFull.cfg`, `EveryRequestSettles`. Client and session write without
    reading: with both directions full, each waits for the other.
19. `MCMuxRpcLeft.cfg`, `NobodyIsLeftBehind`. A request that is queued while the
    client thread ends is neither sent nor failed.
20. `MCRenderSync.cfg` with `MaxEvents = 3`, `MaxTop = 0`, `AltScreens = {}`,
    `LinesAreUpToDate`. The user types a character, which the client guesses into the
    line, and then a key that moves the cursor to where the program has put it
    meanwhile. The delta that answers names the row of the cursor only, and
    `apply_changes_to_surface` looks at the row it left only if the cursor differs from
    the client's: the guess stays, as "Up to date wrt. server", until the row changes.
    In the code columns must agree too; the model has rows.

## What is not modelled

- *Broadcast, unregisterPane, closeWebViewsForPane, cleanupStaleReferences and the
  public saveProfile*: nothing calls them. That nobody calls `unregisterPane` is
  itself visible in `PaneDies`.
- *The overlay's WebKit delegates* (navigation, downloads, authentication,
  dialogs) keep no state that others share. Its dialog after a crash of the web
  content offers "Close", which is wired to nothing.
- *Argument parsing, URL normalisation, JSON, names and UUIDs of profiles*: pure
  functions of strings. A request is well-formed, garbage or blank, and complete
  or malformed where a handler checks for it.
- *Window titles* follow subscriptions whose order of delivery is the framework's;
  *the split tree* is a pure recursive structure of Ghostty, with its own tests.
- *Key bindings of Ghostty* in control mode, other than those for webviews: they
  reach the terminal as without a webview.
- *The terminals themselves*, cef-rs, the website and the test pages: other
  people's code, generated code, or no program state.
- *The rest of ts2*: what WezTerm is apart from browser panes, lines and requests
  (terminal emulation, fonts, rendering, configuration, Lua, SSH, splits and tabs
  across a connection) is upstream code. In what is modelled of it, the
  rectangles and the resizing of browsers are left out (`BrowserState::resize`
  has no caller), and so are textures and the start and end of CEF.

The share of the implementation that `PROJECT.json` maps is small by its measure
of lines, and cannot be otherwise. Of some 957,000 lines of Rust more than half are
generated bindings of cef-rs for each platform and generated tables of characters,
and nearly all of the others are WezTerm. The code of this project's own first
generation is Swift and Zig, which such a measure does not count; the modules
about it stand for most of its control.

Allocation failures, and an NSLock or a queue that the system breaks, are assumed
not to happen. The window with the pane is assumed to be the key window.

## Plan

In order of what it would tell a reader of the code:

1. `RenderSync` with `compute_changes` under one lock, as an abstract specification
   of the lines of a pane: it should need neither `Near` nor the order of the deltas
   in its invariant.
2. Splits and tabs across the connection: the resync of `ClientDomain` after a
   notification that is older than what the client did since.
3. The utility crates of ts2 that hold state: the promise, the rate limiter and the
   blob leases, as small modules of their own.

## How to run it

In this directory:

```
tlc -workers 2 -config MCWebViewManager.cfg MCWebViewManager.tla
tlc -workers 2 -config MCMuxRpc.cfg MuxRpc.tla
tlapm WebViewManager_proofs.tla
```

`PROJECT.json` lists the module and the configuration of each run.
`MCSocketServer*.cfg`, `MCSocketConnection.cfg` and `MCMuxRpc*.cfg` are configurations
of `SocketServer`, `SocketConnection` and `MuxRpc`; every other is one of the `MC`
module its name starts with. The longest runs take two to four minutes, the
longest proofs two to three.
