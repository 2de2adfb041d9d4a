----------------------------- MODULE WebSession -----------------------------
(***************************************************************************)
(* `web open` from end to end: the command (cmdOpen in web.zig) on one     *)
(* side of a socket, the app (WebViewManager) on the other.  Each command  *)
(* is a process with a connection of its own, so Conns names both.  The    *)
(* socket is the stream `out` of WebViewManager, of which the command has  *)
(* taken a prefix; it may be slow, it may be killed, and the app may go.   *)
(***************************************************************************)
EXTENDS WebViewManager

\* cmdOpen writes one request, and this one.
ASSUME OpensAssumption == \A r \in Requests : r.action = "open"

VARIABLES
  app,      \* "running" or "gone"
  cli,      \* what each command is doing
  code,     \* the code it exited with, 0 before that
  taken,    \* lines it has read from its socket
  printed,  \* what it has printed
  said,     \* history: what each page logged while its command could hear
  ended     \* history: what each webview closed with, NotYet before that

NotYet == 256

cliVars == <<app, cli, code, taken, printed>>
history == <<said, ended>>
sessionVars == <<vars, cliVars, history>>

\* The types; what the command exits with fits a byte.
SessionTypeOK ==
  /\ app \in {"running", "gone"}
  /\ cli \in [Conns -> {"absent", "waiting", "streaming", "exited",
                     "killed"}]
  /\ code \in [Conns -> 0..255]
  /\ taken \in [Conns -> Nat]
  /\ printed \in [Conns -> Seq(Messages)]
  /\ said \in [WebViews -> Seq(Messages)]
  /\ ended \in [WebViews -> 0..NotYet]

SessionInit ==
  /\ Init
  /\ app = "running"
  /\ cli = [c \in Conns |-> "absent"]
  /\ code = [c \in Conns |-> 0]
  /\ taken = [c \in Conns |-> 0]
  /\ printed = [c \in Conns |-> <<>>]
  /\ said = [v \in WebViews |-> <<>>]
  /\ ended = [v \in WebViews |-> NotYet]

Pending(c) == Len(out[c]) - taken[c]
NextLine(c) == out[c][taken[c] + 1]

\* The command exits, and its socket closes with it.
Exits(c, k) ==
  /\ cli' = [cli EXCEPT ![c] = "exited"]
  /\ code' = [code EXCEPT ![c] = k]

\* A mutant of Clamp: a cast alone.
Cast(n) == n

\* handleEvent: @intCast(@max(0, @min(255, code))).  A page that posts to the
\* message handler itself passes any number.
Clamp(n) == IF n < 0 THEN 0 ELSE IF n > 255 THEN 255 ELSE n

-----------------------------------------------------------------------------
(* The command.                                                            *)

\* It connects and writes its request.
Start(c) ==
  /\ app = "running"
  /\ cli[c] = "absent"
  /\ cli' = [cli EXCEPT ![c] = "waiting"]
  /\ UNCHANGED <<vars, history, app, code, taken, printed>>

\* readResponse returns when the buffer holds a newline, with everything that
\* read(2) delivered.  The answer alone: cmdOpen looks at its status.
ReadAnswer(c) ==
  /\ cli[c] = "waiting"
  /\ Pending(c) > 0
  /\ taken' = [taken EXCEPT ![c] = @ + 1]
  /\ IF NextLine(c).kind = "ok"
     THEN /\ cli' = [cli EXCEPT ![c] = "streaming"]
          /\ UNCHANGED code
     ELSE Exits(c, 1)
  /\ UNCHANGED <<vars, history, app, printed>>

\* The answer and some of what follows it: only the last newline is removed,
\* parseFromSlice is given more than one JSON value and fails, and so does the
\* command.
ReadTooMuch(c) ==
  /\ cli[c] = "waiting"
  /\ Pending(c) > 1
  /\ Exits(c, 1)
  /\ UNCHANGED <<vars, history, app, taken, printed>>

\* A mutant of ReadEvent: the buffer is cleared once a line is processed,
\* with whatever the same read(2) put behind it.
ClearsBuffer(c) ==
  /\ cli[c] = "streaming"
  /\ Pending(c) > 0
  /\ taken' = [taken EXCEPT ![c] = Len(out[c])]
  /\ LET line == NextLine(c)
     IN  \/ /\ line.kind = "console"
            /\ printed' = [printed EXCEPT ![c] = Append(@, line.msg)]
            /\ UNCHANGED <<cli, code>>
         \/ /\ line.kind = "closed"
            /\ Exits(c, Clamp(line.code))
            /\ UNCHANGED printed
  /\ UNCHANGED <<vars, history, app>>

\* eventLoop: the next complete line is an event.
ReadEvent(c) ==
  /\ cli[c] = "streaming"
  /\ Pending(c) > 0
  /\ taken' = [taken EXCEPT ![c] = @ + 1]
  /\ LET line == NextLine(c)
     IN  \/ /\ line.kind = "console"
            /\ printed' = [printed EXCEPT ![c] = Append(@, line.msg)]
            /\ UNCHANGED <<cli, code>>
         \/ /\ line.kind = "closed"
            /\ Exits(c, Clamp(line.code))
            /\ UNCHANGED printed
  /\ UNCHANGED <<vars, history, app>>

\* End of file.  cmdOpen has nothing to parse and fails; eventLoop takes it
\* for a normal end.
ReadEnd(c) ==
  /\ cli[c] \in {"waiting", "streaming"}
  /\ app = "gone" /\ Pending(c) = 0
  /\ Exits(c, IF cli[c] = "waiting" THEN 1 ELSE 0)
  /\ UNCHANGED <<vars, history, app, taken, printed>>

\* Ctrl+C in the terminal, or the hangup that a dying pane sends.
Killed(c) ==
  /\ cli[c] \in {"waiting", "streaming"}
  /\ cli' = [cli EXCEPT ![c] = "killed"]
  /\ UNCHANGED <<vars, history, app, code, taken, printed>>

-----------------------------------------------------------------------------
(* The app, at the other end of the sockets.                               *)

Ends(v, k) ==
  /\ ended' = IF v \in containers THEN [ended EXCEPT ![v] = Clamp(k)] ELSE ended
  /\ UNCHANGED said

Says(v, m) ==
  /\ said' = IF conn[webviewConnections[v]] = "up"
             THEN [said EXCEPT ![v] = Append(@, m)] ELSE said
  /\ UNCHANGED ended

\* A reader thread finds the request a command wrote, or that it is gone.
AppReads ==
  /\ app = "running"
  /\ \E c \in Conns :
       \/ /\ cli[c] # "absent" /\ received[c] = 0
          /\ \E r \in Requests : Receive(c, r)
       \/ cli[c] \in {"exited", "killed"} /\ received[c] > 0 /\ Hangup(c)
  /\ UNCHANGED <<cliVars, history>>

\* Every block, and every event of the user and the pages; the history keeps
\* what the pages did.
AppWorks ==
  /\ app = "running"
  /\ \/ RunBlock /\ UNCHANGED history
     \/ \E p \in Panes : (PaneOpens(p) \/ PaneDies(p)) /\ UNCHANGED history
     \/ \E p \in Panes : UserCloses(p) /\ Ends(Top(subviews[p]), 0)
     \/ \E v \in WebViews, k \in ExitCodes : PageExits(v, k) /\ Ends(v, k)
     \/ \E v \in WebViews, m \in Messages : PageLogs(v, m) /\ Says(v, m)
  /\ UNCHANGED cliVars

\* The app crashes or quits: every socket is closed.
AppGoes ==
  /\ app = "running"
  /\ app' = "gone"
  /\ UNCHANGED <<vars, history, cli, code, taken, printed>>

Command(c) ==
  \/ ReadAnswer(c) \/ ReadTooMuch(c) \/ ReadEvent(c) \/ ReadEnd(c)

SessionNext ==
  \/ AppReads \/ AppWorks \/ AppGoes
  \/ \E c \in Conns : Start(c) \/ Command(c) \/ Killed(c)

\* A command that can read does; the app's threads run.
SessionSpec ==
  /\ SessionInit /\ [][SessionNext]_sessionVars
  /\ WF_sessionVars(AppReads)
  /\ WF_sessionVars(/\ app = "running" /\ RunBlock
                    /\ UNCHANGED <<cliVars, history>>)
  /\ \A c \in Conns : WF_sessionVars(Command(c))

-----------------------------------------------------------------------------
(* The session implements BlockingOpen.                                    *)

\* The answer is the first line of each connection; the webview it grants is
\* the one that the promise is about.
Answered(c) == out[c] # <<>>
Granted(c) == Answered(c) /\ out[c][1].kind = "ok"
ItsView(c) == out[c][1].view

ViewOf(c) ==
  IF ~Answered(c) THEN "none"
  ELSE IF ~Granted(c) THEN "refused"
  ELSE IF ended[ItsView(c)] = NotYet THEN "open" ELSE "closed"

VerdictOf(c) == IF ViewOf(c) = "closed" THEN ended[ItsView(c)] ELSE 0

LoggedOf(c) == IF Granted(c) THEN said[ItsView(c)] ELSE <<>>

ShellOf(c) ==
  IF cli[c] \in {"waiting", "streaming"} THEN "blocked" ELSE cli[c]

Promise ==
  INSTANCE BlockingOpen WITH
    Clients <- Conns,
    ExitCodes <- {Clamp(k) : k \in ExitCodes},
    view <- [c \in Conns |-> ViewOf(c)],
    verdict <- [c \in Conns |-> VerdictOf(c)],
    logged <- [c \in Conns |-> LoggedOf(c)],
    shell <- [c \in Conns |-> ShellOf(c)]

\* The command is faithful to its page: it prints exactly what was logged, in
\* order, ends with the page's verdict once everything is printed, and does
\* not sit on a line or a verdict.  Slow readers, kills, the other commands on
\* the same pane and the death of pane or app leave only the ways out that
\* BlockingOpen names.
KeepsPromise == Promise!Spec

\* "block and stream console output until webview closes" (web.zig:230): a
\* command that streams has a webview, or one on its way.
BlocksOnAWebView ==
  \A c \in Conns :
    cli[c] = "streaming" /\ app = "running" /\ taken[c] = Len(out[c]) =>
      \E v \in WebViews :
        webviewConnections[v] = c /\ (v \in containers \/ Waits("create", v))

\* "Read a single response from socket" (web.zig:1105): a command that was
\* granted a webview does not fail while the app runs.
GrantedDoesNotFail ==
  \A c \in Conns :
    ViewOf(c) = "open" /\ app = "running" => cli[c] # "exited"

=============================================================================
