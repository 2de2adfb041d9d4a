---------------------------- MODULE BlockingOpen ----------------------------
(***************************************************************************)
(* What `web open` promises to the shell it runs in: it blocks while its   *)
(* webview is open, prints what the page logs, once and in order, and      *)
(* exits with the code the page closed with.                               *)
(*                                                                         *)
(* It knows nothing of sockets, queues and tables: WebSession is shown to  *)
(* implement it.                                                           *)
(***************************************************************************)
EXTENDS Naturals, Sequences

CONSTANTS Clients, Messages, ExitCodes

VARIABLES
  view,     \* the webview of each client: "none", "refused", "open", "closed"
  verdict,  \* the code its page closed with
  logged,   \* what its page has logged while it was open
  printed,  \* what the command has printed
  shell,    \* what the shell sees of the command
  code      \* the code it exited with, 0 before that

vars == <<view, verdict, logged, printed, shell, code>>

\* The types of what the shell sees.
TypeOK ==
  /\ view \in [Clients -> {"none", "refused", "open", "closed"}]
  /\ verdict \in [Clients -> ExitCodes \cup {0}]
  /\ logged \in [Clients -> Seq(Messages)]
  /\ printed \in [Clients -> Seq(Messages)]
  /\ shell \in [Clients -> {"absent", "blocked", "exited", "killed"}]
  /\ code \in [Clients -> ExitCodes \cup {0, 1}]

Init ==
  /\ view = [c \in Clients |-> "none"]
  /\ verdict = [c \in Clients |-> 0]
  /\ logged = [c \in Clients |-> <<>>]
  /\ printed = [c \in Clients |-> <<>>]
  /\ shell = [c \in Clients |-> "absent"]
  /\ code = [c \in Clients |-> 0]

Blocked(c) == shell[c] = "blocked"
Exits(c, k) ==
  /\ shell' = [shell EXCEPT ![c] = "exited"]
  /\ code' = [code EXCEPT ![c] = k]
  /\ UNCHANGED <<view, verdict, logged, printed>>

\* The command starts.
Ask(c) ==
  /\ shell[c] = "absent"
  /\ shell' = [shell EXCEPT ![c] = "blocked"]
  /\ UNCHANGED <<view, verdict, logged, printed, code>>

\* The app opens a webview for it, or does not.
Decide(c, how) ==
  /\ view[c] = "none" /\ shell[c] # "absent"
  /\ view' = [view EXCEPT ![c] = how]
  /\ UNCHANGED <<verdict, logged, printed, shell, code>>

\* The page logs.
Log(c, m) ==
  /\ view[c] = "open"
  /\ logged' = [logged EXCEPT ![c] = Append(@, m)]
  /\ UNCHANGED <<view, verdict, printed, shell, code>>

\* The webview closes.
Close(c, k) ==
  /\ view[c] = "open"
  /\ view' = [view EXCEPT ![c] = "closed"]
  /\ verdict' = [verdict EXCEPT ![c] = k]
  /\ UNCHANGED <<logged, printed, shell, code>>

\* The command prints the next line of the log.
PrintLine(c) ==
  /\ Blocked(c)
  /\ Len(printed[c]) < Len(logged[c])
  /\ printed' = [printed EXCEPT ![c] = Append(@, logged[c][Len(@) + 1])]
  /\ UNCHANGED <<view, verdict, logged, shell, code>>

\* It exits with the verdict, and everything printed.
Exit(c) ==
  /\ Blocked(c) /\ view[c] = "closed"
  /\ printed[c] = logged[c]
  /\ Exits(c, verdict[c])

\* It reports a refusal.
Refused(c) ==
  /\ Blocked(c) /\ view[c] = "refused"
  /\ Exits(c, 1)

\* What the code adds to the promise: a command that has not printed yet, but
\* could, may fail instead; and one whose app is gone ends without a verdict.
Garbled(c) ==
  /\ Blocked(c)
  /\ printed[c] = <<>>
  /\ logged[c] # <<>> \/ view[c] = "closed"
  /\ Exits(c, 1)

AppLost(c) ==
  /\ Blocked(c) /\ view[c] # "closed"
  /\ printed[c] = logged[c]
  /\ \E k \in {0, 1} : (k = 0 => view[c] = "open") /\ Exits(c, k)

\* Somebody kills the command.
Kill(c) ==
  /\ Blocked(c)
  /\ shell' = [shell EXCEPT ![c] = "killed"]
  /\ UNCHANGED <<view, verdict, logged, printed, code>>

Next ==
  \E c \in Clients :
    \/ Ask(c) \/ Decide(c, "open") \/ Decide(c, "refused")
    \/ \E m \in Messages : Log(c, m)
    \/ \E k \in ExitCodes : Close(c, k)
    \/ PrintLine(c) \/ Exit(c) \/ Refused(c) \/ Garbled(c) \/ AppLost(c) \/ Kill(c)

\* The command never sits on something it could print or report.
Spec ==
  /\ Init /\ [][Next]_vars
  /\ \A c \in Clients : WF_vars(PrintLine(c) \/ Exit(c) \/ Refused(c))
=============================================================================
