--------------------------- MODULE MCConsoleStream ---------------------------
(***************************************************************************)
(* Instances of ConsoleStream for TLC.                                     *)
(***************************************************************************)
EXTENDS ConsoleStream

\* On a terminal or through a pager, stopped and resumed or not, with a socket
\* that fills up again and again or one that has room for all that is logged.
EverySetting == [piped : BOOLEAN, stoppable : BOOLEAN, room : {2, MaxLines}]

\* Through a pager, with a socket that fills up.
Paged == {[piped |-> TRUE, stoppable |-> FALSE, room |-> 2]}

=============================================================================
