---------------------------- MODULE SocketServer ----------------------------
(***************************************************************************)
(* The Unix-domain socket server of the ts1 app (SocketServer.swift) and   *)
(* the life cycle of its connections (SocketConnection.swift): the main    *)
(* thread, which starts and stops the server and runs the blocks queued on *)
(* DispatchQueue.main; the accept thread, which registers connections; and *)
(* one reader thread per connection, which notices that the peer is gone.  *)
(* They share the `connections` table under `connectionLock`, an NSLock,   *)
(* which its owner must not take twice.                                    *)
(*                                                                         *)
(* What a request does is not modelled here (see WebViewManager): no       *)
(* handler touches the state of the server.                                *)
(***************************************************************************)
EXTENDS Naturals, Sequences, FiniteSets

CONSTANTS
  Conns,      \* the connections clients may open, each at most once
  Backlog     \* the backlog passed to listen(2)

ASSUME BacklogAssumption == Backlog \in Nat \ {0}

VARIABLES
  mainPc,       \* what the main thread is doing
  server,       \* the server socket: "off", "running" while isRunning is set,
                \* "stopping" from isRunning = false to its close and unlink
  connections,  \* keys of SocketServer.connections
  lockOwner,    \* the thread that keeps connectionLock between two steps
  toClose,      \* what remains of stop()'s loop over the connections
  acceptPc,     \* what the accept thread is doing
  accepted,     \* the connection the accept thread is setting up
  backlog,      \* clients that connected and are not accepted yet
  callback,     \* connections whose onDisconnect is assigned
  open,         \* connections whose file handle is open on our side
  reader,       \* the reader thread of each connection
  mainQueue,    \* onDisconnect blocks waiting on DispatchQueue.main
  client        \* the peer of each connection

vars == <<mainPc, server, connections, lockOwner,
          toClose, acceptPc, accepted, backlog, callback, open, reader,
          mainQueue, client>>

isRunning == server = "running"
\* The socket is open and its file is in place from start() to the end of stop().
listening == server \in {"running", "stopping"}

NoConn == "none"
ASSUME NoConnAssumption == NoConn \notin Conns

Queued(c) == \E i \in DOMAIN mainQueue : mainQueue[i] = c

\* The types, with what they owe to each other: the accept thread has a
\* connection in hand exactly while it sets one up, and runs from start() on.
TypeOK ==
  /\ mainPc \in {"launch", "serving", "stopping", "closing", "relock",
                 "unlocked", "terminated"}
  /\ server \in {"off", "running", "stopping"}
  /\ connections \subseteq Conns
  /\ lockOwner \in {"nobody", "main"}
  /\ toClose \subseteq Conns
  /\ acceptPc \in {"off", "check", "accept", "register", "assign", "start"}
  /\ accepted \in IF acceptPc \in {"register", "assign", "start"}
                 THEN Conns ELSE {NoConn}
  /\ mainPc = "launch" => acceptPc = "off"
  /\ backlog \in Seq(Conns)
  /\ callback \subseteq Conns
  /\ open \subseteq Conns
  /\ reader \in [Conns -> {"none", "reading", "done"}]
  /\ mainQueue \in Seq(Conns)
  /\ client \in [Conns -> {"absent", "connected", "gone"}]

Init ==
  /\ mainPc = "launch"
  /\ server = "off"
  /\ connections = {}
  /\ lockOwner = "nobody"
  /\ toClose = {}
  /\ acceptPc = "off"
  /\ accepted = NoConn
  /\ backlog = <<>>
  /\ callback = {}
  /\ open = {}
  /\ reader = [c \in Conns |-> "none"]
  /\ mainQueue = <<>>
  /\ client = [c \in Conns |-> "absent"]

-----------------------------------------------------------------------------
(* Plausible bugs, each a variant of one action below: no part of the      *)
(* specification.  A property is only worth checking if one of them would  *)
(* break it.                                                               *)

\* The result of accept(2) is used without looking at it.
AcceptFailsUnnoticed ==
  /\ acceptPc = "accept"
  /\ ~listening \/ backlog # <<>>
  /\ acceptPc' = "register"
  /\ UNCHANGED <<mainPc, server, connections, lockOwner, toClose, accepted,
                 backlog, callback, open, reader, mainQueue, client>>

\* The reader returns on end of file without telling anybody.
ReaderEndsSilently(c) ==
  /\ reader[c] = "reading"
  /\ client[c] = "gone" \/ c \notin open
  /\ reader' = [reader EXCEPT ![c] = "done"]
  /\ UNCHANGED <<mainPc, server, connections, lockOwner, toClose, acceptPc,
                 accepted, backlog, callback, open, mainQueue, client>>

\* The reader is started before the callback is assigned.
AcceptRegistersAndStarts ==
  /\ acceptPc = "register"
  /\ lockOwner = "nobody"
  /\ connections' = connections \cup {accepted}
  /\ reader' = [reader EXCEPT ![accepted] = "reading"]
  /\ acceptPc' = "assign"
  /\ UNCHANGED <<mainPc, server, lockOwner, toClose, accepted, backlog,
                 callback, open, mainQueue, client>>

\* onDisconnect empties the table instead of removing one key.
RunDisconnectAll ==
  /\ mainPc = "serving"
  /\ mainQueue # <<>>
  /\ lockOwner = "nobody"
  /\ connections' = {}
  /\ mainQueue' = Tail(mainQueue)
  /\ UNCHANGED <<mainPc, server, lockOwner, toClose, acceptPc, accepted,
                 backlog, callback, open, reader, client>>

\* accept(2) failing once ends the loop: `return` for `continue`.
AcceptFailsForGood ==
  /\ acceptPc = "accept"
  /\ ~listening \/ backlog # <<>>
  /\ acceptPc' = "off"
  /\ UNCHANGED <<mainPc, server, connections, lockOwner, toClose, accepted,
                 backlog, callback, open, reader, mainQueue, client>>

-----------------------------------------------------------------------------
(* The main thread.                                                        *)

\* start() on launch, when socket(2), bind(2) and listen(2) succeed.
Start ==
  /\ mainPc = "launch"
  /\ ~isRunning
  /\ mainPc' = "serving"
  /\ server' = "running"
  /\ acceptPc' = "check"
  /\ UNCHANGED <<connections, lockOwner, toClose, accepted, backlog, callback,
                 open, reader, mainQueue, client>>

\* start() when one of the three calls fails: it closes what it opened.  Only
\* the failure of bind(2) may leave a file behind, and it is not ours.
StartFails ==
  /\ mainPc = "launch"
  /\ ~isRunning
  /\ mainPc' = "serving"
  /\ UNCHANGED <<server, connections, lockOwner,
                 toClose, acceptPc, accepted, backlog, callback, open, reader,
                 mainQueue, client>>

\* The next block of the main queue: onDisconnect takes the connection out of
\* the table, under the lock.
RunDisconnect ==
  /\ mainPc = "serving"
  /\ mainQueue # <<>>
  /\ lockOwner = "nobody"
  /\ connections' = connections \ {Head(mainQueue)}
  /\ mainQueue' = Tail(mainQueue)
  /\ UNCHANGED <<mainPc, server, lockOwner, toClose,
                 acceptPc, accepted, backlog, callback, open, reader, client>>

\* applicationWillTerminate calls stop(), which returns at once when the
\* server never started.
StopBegins ==
  /\ mainPc = "serving"
  /\ IF isRunning
     THEN mainPc' = "stopping" /\ server' = "stopping"
     ELSE mainPc' = "terminated" /\ UNCHANGED server
  /\ UNCHANGED <<connections, lockOwner, toClose,
                 acceptPc, accepted, backlog, callback, open, reader,
                 mainQueue, client>>

\* stop() takes the lock and starts its loop over the connections.
StopLocks ==
  /\ mainPc = "stopping"
  /\ lockOwner = "nobody"
  /\ lockOwner' = "main"
  /\ toClose' = connections
  /\ mainPc' = "closing"
  /\ UNCHANGED <<server, connections, acceptPc,
                 accepted, backlog, callback, open, reader, mainQueue, client>>

\* connection.close(), called by stop() with the lock held.  Once the accept
\* thread has assigned it, onDisconnect runs too, and its first statement is
\* connectionLock.lock(): the main thread waits in "relock" for a lock that it
\* owns itself, so no step leaves that state.
StopCloses(c) ==
  /\ mainPc = "closing"
  /\ c \in toClose
  /\ open' = open \ {c}
  /\ IF c \in callback
     THEN /\ mainPc' = "relock"
          /\ UNCHANGED toClose
     ELSE /\ toClose' = toClose \ {c}
          /\ UNCHANGED mainPc
  /\ UNCHANGED <<server, connections, lockOwner,
                 acceptPc, accepted, backlog, callback, reader, mainQueue,
                 client>>

\* The loop is over: stop() empties the table and releases the lock.
StopUnlocks ==
  /\ mainPc = "closing"
  /\ toClose = {}
  /\ connections' = {}
  /\ lockOwner' = "nobody"
  /\ mainPc' = "unlocked"
  /\ UNCHANGED <<server, toClose, acceptPc, accepted,
                 backlog, callback, open, reader, mainQueue, client>>

\* stop() closes the server socket and removes its file; the app exits.
StopEnds ==
  /\ mainPc = "unlocked"
  /\ server' = "off"
  /\ mainPc' = "terminated"
  /\ UNCHANGED <<connections, lockOwner, toClose, acceptPc,
                 accepted, backlog, callback, open, reader, mainQueue, client>>

-----------------------------------------------------------------------------
(* The accept thread.                                                      *)

\* while self.isRunning
AcceptChecks ==
  /\ acceptPc = "check"
  /\ acceptPc' = IF isRunning THEN "accept" ELSE "off"
  /\ UNCHANGED <<mainPc, server, connections,
                 lockOwner, toClose, accepted, backlog, callback, open, reader,
                 mainQueue, client>>

\* accept(2) returns a client: SocketConnection is created around it.
AcceptReturns ==
  /\ acceptPc = "accept"
  /\ listening
  /\ backlog # <<>>
  /\ accepted' = Head(backlog)
  /\ backlog' = Tail(backlog)
  /\ open' = open \cup {accepted'}
  /\ acceptPc' = "register"
  /\ UNCHANGED <<mainPc, server, connections,
                 lockOwner, toClose, callback, reader, mainQueue, client>>

\* accept(2) fails: the server socket was closed, or (EMFILE, ECONNABORTED)
\* the client stays where it is.  `continue`.
AcceptFails ==
  /\ acceptPc = "accept"
  /\ ~listening \/ backlog # <<>>
  /\ acceptPc' = "check"
  /\ UNCHANGED <<mainPc, server, connections,
                 lockOwner, toClose, accepted, backlog, callback, open, reader,
                 mainQueue, client>>

\* The table entry is made under the lock...
AcceptRegisters ==
  /\ acceptPc = "register"
  /\ lockOwner = "nobody"
  /\ connections' = connections \cup {accepted}
  /\ acceptPc' = "assign"
  /\ UNCHANGED <<mainPc, server, lockOwner, toClose,
                 accepted, backlog, callback, open, reader, mainQueue, client>>

\* ... and the callback that will remove it is assigned after the unlock.
AcceptAssigns ==
  /\ acceptPc = "assign"
  /\ callback' = callback \cup {accepted}
  /\ acceptPc' = "start"
  /\ UNCHANGED <<mainPc, server, connections,
                 lockOwner, toClose, accepted, backlog, open, reader,
                 mainQueue, client>>

\* connection.start() launches the reader thread.
AcceptStarts ==
  /\ acceptPc = "start"
  /\ reader' = [reader EXCEPT ![accepted] = "reading"]
  /\ accepted' = NoConn
  /\ acceptPc' = "check"
  /\ UNCHANGED <<mainPc, server, connections,
                 lockOwner, toClose, backlog, callback, open, mainQueue,
                 client>>

-----------------------------------------------------------------------------
(* The reader threads and the clients.                                     *)

\* read(2) returns 0 or fails: the reader queues onDisconnect and returns.
ReaderEnds(c) ==
  /\ reader[c] = "reading"
  /\ client[c] = "gone" \/ c \notin open
  /\ reader' = [reader EXCEPT ![c] = "done"]
  /\ mainQueue' = Append(mainQueue, c)
  /\ UNCHANGED <<mainPc, server, connections,
                 lockOwner, toClose, acceptPc, accepted, backlog, callback,
                 open, client>>

\* A client connects: it needs the file and a place in the backlog.
ClientConnects(c) ==
  /\ client[c] = "absent"
  /\ listening
  /\ Len(backlog) < Backlog
  /\ client' = [client EXCEPT ![c] = "connected"]
  /\ backlog' = Append(backlog, c)
  /\ UNCHANGED <<mainPc, server, connections,
                 lockOwner, toClose, acceptPc, accepted, callback, open,
                 reader, mainQueue>>

\* A client closes its end or dies.
ClientLeaves(c) ==
  /\ client[c] = "connected"
  /\ client' = [client EXCEPT ![c] = "gone"]
  /\ UNCHANGED <<mainPc, server, connections,
                 lockOwner, toClose, acceptPc, accepted, backlog, callback,
                 open, reader, mainQueue>>

-----------------------------------------------------------------------------

Main ==
  \/ Start \/ StartFails \/ RunDisconnect \/ StopBegins \/ StopLocks
  \/ (\E c \in Conns : StopCloses(c)) \/ StopUnlocks \/ StopEnds

Acceptor ==
  \/ AcceptChecks \/ AcceptReturns \/ AcceptFails \/ AcceptRegisters
  \/ AcceptAssigns \/ AcceptStarts

Next ==
  \/ Main
  \/ Acceptor
  \/ \E c \in Conns : ReaderEnds(c) \/ ClientConnects(c) \/ ClientLeaves(c)

(***************************************************************************)
(* Threads are scheduled and main-queue blocks run; accept(2) does not     *)
(* fail for ever.  Nothing makes a client connect or leave, or the user    *)
(* quit.                                                                   *)
(***************************************************************************)
Fairness ==
  /\ WF_vars(RunDisconnect)
  /\ WF_vars(StopLocks) /\ WF_vars(StopUnlocks) /\ WF_vars(StopEnds)
  /\ \A c \in Conns : WF_vars(StopCloses(c))
  /\ WF_vars(AcceptChecks) /\ SF_vars(AcceptReturns) /\ WF_vars(AcceptFails)
  /\ SF_vars(AcceptRegisters)
  /\ WF_vars(AcceptAssigns) /\ WF_vars(AcceptStarts)
  /\ \A c \in Conns : WF_vars(ReaderEnds(c))

Spec == Init /\ [][Next]_vars /\ Fairness

-----------------------------------------------------------------------------
(* Properties.                                                             *)

\* A connection in the table always has somebody who will take it out: the
\* accept thread that is still setting it up, its reader thread, or an
\* onDisconnect block that the reader left on the main queue.  No interleaving
\* of the threads leaves an entry, and its descriptor, behind.
NoZombie ==
  \A c \in connections :
    \/ accepted = c /\ acceptPc \in {"assign", "start"}
    \/ reader[c] = "reading"
    \/ Queued(c)

\* A reader can only find its peer gone after the callback that the queued
\* block calls was assigned: the block of line 71 is never a no-op.
DisconnectIsNeverLost ==
  \A c \in Conns : reader[c] # "none" => c \in callback

\* While the app runs, a connection is deregistered only after its peer left.
OnlyGoneDeregistered ==
  [][\A c \in connections \ connections' :
       isRunning => client[c] = "gone"]_vars

\* A peer that leaves, be it before the server accepted it, ends up accepted,
\* read to its end and forgotten, unless the app quits in the meantime.
GoneIsForgotten ==
  \A c \in Conns :
    client[c] = "gone" ~> (reader[c] = "done" /\ c \notin connections) \/ ~isRunning

\* stop() runs to its end: "Remove socket file" (SocketServer.swift:126).
StopRemovesFile == mainPc = "stopping" ~> ~listening

=============================================================================
