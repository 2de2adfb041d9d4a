--------------------------- MODULE ConsoleStream ---------------------------
(***************************************************************************)
(* The console lines of one page on their way to the terminal: the page    *)
(* logs; the main thread of the app writes an event to the socket, and     *)
(* waits in FileHandle.write while the socket is full; the `web` command   *)
(* reads it and writes it to its standard output, a terminal or a pipe to  *)
(* a pager.  What the user types reaches the terminal only through the     *)
(* main thread.                                                            *)
(***************************************************************************)
EXTENDS Naturals

CONSTANTS
  Settings,     \* how the command may be run
  PipeRoom,     \* lines that the pipe holds
  Screen,       \* lines that the pager shows before it waits for a key
  MaxLines      \* lines that the page logs

\* Whether its output goes to a pager; whether the user may stop it with Ctrl+Z;
\* and the lines that its socket holds.
ASSUME RoomAssumption ==
  /\ Settings \subseteq [piped : BOOLEAN, stoppable : BOOLEAN, room : Nat \ {0}]
  /\ PipeRoom \in Nat \ {0} /\ Screen \in Nat \ {0} /\ MaxLines \in Nat

VARIABLES
  setting,    \* how the command was run
  logged,     \* lines that the page has logged
  main,       \* "idle", or "writing" a line to the socket
  socket,     \* lines in the socket
  command,    \* "reading", or "printing" the line it has read
  stopped,    \* the command is stopped
  pipe,       \* lines in the pipe
  page,       \* lines on the pager's screen since the last key
  seen        \* lines that have reached the user

consoleVars == <<setting, logged, main, socket, command, stopped, pipe, page, seen>>

InHand(busy) == IF busy THEN 1 ELSE 0

\* The types, with the balance of the lines: each is in one place.
ConsoleTypeOK ==
  /\ setting \in Settings
  /\ logged \in 0..MaxLines
  /\ main \in {"idle", "writing"}
  /\ socket \in 0..setting.room
  /\ command \in {"reading", "printing"}
  /\ stopped \in BOOLEAN
  /\ pipe \in 0..PipeRoom
  /\ page \in 0..Screen
  /\ logged = InHand(main = "writing") + socket + InHand(command = "printing")
                + pipe + seen

ConsoleInit ==
  /\ setting \in Settings
  /\ logged = 0 /\ main = "idle" /\ socket = 0 /\ command = "reading"
  /\ stopped = FALSE /\ pipe = 0 /\ page = 0 /\ seen = 0

\* A script message arrives on the main thread: sendConsoleEvent, sendEvent.
PageLogs ==
  /\ main = "idle" /\ logged < MaxLines
  /\ logged' = logged + 1
  /\ main' = "writing"
  /\ UNCHANGED <<setting, socket, command, stopped, pipe, page, seen>>

\* A mutant of Sends: a full socket is an error, and the line is lost.
SendsOrDrops ==
  /\ main = "writing"
  /\ socket' = IF socket < setting.room THEN socket + 1 ELSE socket
  /\ main' = "idle"
  /\ UNCHANGED <<setting, logged, command, stopped, pipe, page, seen>>

\* fileHandle.write returns: the socket blocks, nobody made it non-blocking.
Sends ==
  /\ main = "writing" /\ socket < setting.room
  /\ socket' = socket + 1
  /\ main' = "idle"
  /\ UNCHANGED <<setting, logged, command, stopped, pipe, page, seen>>

\* eventLoop takes a line.
CommandReads ==
  /\ command = "reading" /\ ~stopped /\ socket > 0
  /\ socket' = socket - 1
  /\ command' = "printing"
  /\ UNCHANGED <<setting, logged, main, stopped, pipe, page, seen>>

\* Mutants of CommandPrints: it prints only when nothing more is coming; and
\* the output is not flushed when it is a pipe.
CommandWaits ==
  /\ command = "printing" /\ ~stopped
  /\ socket = 0
  /\ \/ ~setting.piped /\ seen' = seen + 1 /\ UNCHANGED pipe
     \/ setting.piped /\ pipe < PipeRoom /\ pipe' = pipe + 1 /\ UNCHANGED seen
  /\ command' = "reading"
  /\ UNCHANGED <<setting, logged, main, socket, stopped, page>>

CommandKeeps ==
  /\ command = "printing" /\ ~stopped
  /\ ~setting.piped
  /\ command' = "reading"
  /\ seen' = seen + 1
  /\ UNCHANGED <<setting, logged, main, socket, stopped, pipe, page>>

\* handleEvent prints it and flushes.  The terminal has a thread of its own
\* that takes what is printed; a pipe may be full.
CommandPrints ==
  /\ command = "printing" /\ ~stopped
  /\ \/ ~setting.piped /\ seen' = seen + 1 /\ UNCHANGED pipe
     \/ setting.piped /\ pipe < PipeRoom /\ pipe' = pipe + 1 /\ UNCHANGED seen
  /\ command' = "reading"
  /\ UNCHANGED <<setting, logged, main, socket, stopped, page>>

\* The pager shows a line, if there is room on its screen.
PagerShows ==
  /\ pipe > 0 /\ page < Screen
  /\ pipe' = pipe - 1
  /\ page' = page + 1
  /\ seen' = seen + 1
  /\ UNCHANGED <<setting, logged, main, socket, command, stopped>>

-----------------------------------------------------------------------------
(* The user, whose keys are events of the main thread.                     *)

\* A key for the pager.
UserPages ==
  /\ main = "idle" /\ setting.piped /\ page = Screen
  /\ page' = 0
  /\ UNCHANGED <<setting, logged, main, socket, command, stopped, pipe, seen>>

\* Ctrl+Z in control mode goes to the terminal, which stops the command.
UserStops ==
  /\ setting.stoppable /\ main = "idle" /\ ~stopped
  /\ stopped' = TRUE
  /\ UNCHANGED <<setting, logged, main, socket, command, pipe, page, seen>>

\* fg
UserResumes ==
  /\ main = "idle" /\ stopped
  /\ stopped' = FALSE
  /\ UNCHANGED <<setting, logged, main, socket, command, pipe, page, seen>>

ConsoleNext ==
  \/ PageLogs \/ Sends \/ CommandReads \/ CommandPrints \/ PagerShows
  \/ UserPages \/ UserStops \/ UserResumes

\* Everybody does in time what he can do, the user too; strongly where the main
\* thread takes turns.
ConsoleSpec ==
  /\ ConsoleInit /\ [][ConsoleNext]_consoleVars
  /\ WF_consoleVars(Sends) /\ SF_consoleVars(CommandReads) /\ SF_consoleVars(CommandPrints)
  /\ WF_consoleVars(PagerShows) /\ SF_consoleVars(UserPages) /\ SF_consoleVars(UserResumes)

-----------------------------------------------------------------------------
\* Everybody waits for somebody else, for good: the main thread for room in the
\* socket, and the reader of it for a key, to go on or to show more, that only
\* the main thread could pass on.
Jammed ==
  /\ main = "writing" /\ socket = setting.room
  /\ \/ stopped
     \/ setting.piped /\ page = Screen /\ pipe = PipeRoom /\ command = "printing"

\* However the command is run, and however small its buffers, everything that a
\* page logs reaches the user, unless the app is jammed: nothing short of every
\* buffer on the way being full, with nobody left to press a key, stops a line.
EverythingSeen == \A n \in 1..MaxLines : logged = n ~> seen >= n \/ Jammed

\* The main thread comes back from every write, unless the app is jammed.
MainComesBack == main = "writing" ~> main = "idle" \/ Jammed

\* docs/architecture.md says of the socket: "Robust - Works regardless of
\* stdout redirection or piping".  That would be so if it always came back.
AlwaysComesBack == main = "writing" ~> main = "idle"
=============================================================================
