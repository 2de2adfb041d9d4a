------------------------ MODULE SocketServer_proofs ------------------------
(***************************************************************************)
(* Theorems of SocketServer: its state is well typed, and no entry of the  *)
(* connection table is ever without somebody who will remove it, for any   *)
(* set of connections and any backlog.                                     *)
(***************************************************************************)
EXTENDS SocketServer, TLAPS

\* The block that the main queue runs next may be c's own; the blocks behind
\* it stay queued.
LEMMA QueuedTail ==
  ASSUME NEW q \in Seq(Conns), q # <<>>, NEW i \in DOMAIN q, q[i] # Head(q)
  PROVE  i - 1 \in DOMAIN Tail(q) /\ Tail(q)[i - 1] = q[i]
  <1>1. i # 1 /\ i \in 1..Len(q)
    OBVIOUS
  <1>2. i - 1 \in 1..(Len(q) - 1)
    BY <1>1
  <1> QED
    BY <1>2

\* A block queued behind others is queued, and those stay.
LEMMA QueuedAppend ==
  ASSUME NEW q \in Seq(Conns), NEW c \in Conns
  PROVE  /\ Len(q) + 1 \in DOMAIN Append(q, c)
         /\ Append(q, c)[Len(q) + 1] = c
         /\ \A i \in DOMAIN q : i \in DOMAIN Append(q, c) /\ Append(q, c)[i] = q[i]
  OBVIOUS

\* Every variable stays in its type, through every step of every thread.
THEOREM TypeCorrect == Spec => []TypeOK
  <1>1. Init => TypeOK
    BY DEF Init, TypeOK
  <1>2. TypeOK /\ [Next]_vars => TypeOK'
    <2> SUFFICES ASSUME TypeOK, [Next]_vars
                 PROVE  TypeOK'
      OBVIOUS
    <2> USE DEF TypeOK
    <2>1. CASE Start
      BY <2>1 DEF Start
    <2>2. CASE StartFails
      BY <2>2 DEF StartFails
    <2>3. CASE RunDisconnect
      BY <2>3 DEF RunDisconnect
    <2>4. CASE StopBegins
      BY <2>4 DEF StopBegins
    <2>5. CASE StopLocks
      BY <2>5 DEF StopLocks
    <2>6. CASE StopUnlocks
      BY <2>6 DEF StopUnlocks
    <2>7. CASE StopEnds
      BY <2>7 DEF StopEnds
    <2>8. CASE AcceptChecks
      BY <2>8 DEF AcceptChecks
    <2>9. CASE AcceptReturns
      BY <2>9 DEF AcceptReturns
    <2>10. CASE AcceptFails
      BY <2>10 DEF AcceptFails
    <2>11. CASE AcceptRegisters
      BY <2>11 DEF AcceptRegisters
    <2>12. CASE AcceptAssigns
      BY <2>12 DEF AcceptAssigns
    <2>13. CASE AcceptStarts
      BY <2>13 DEF AcceptStarts
    <2>14. ASSUME NEW c \in Conns, StopCloses(c)
           PROVE  TypeOK'
      BY <2>14 DEF StopCloses
    <2>15. ASSUME NEW c \in Conns, ReaderEnds(c)
           PROVE  TypeOK'
      BY <2>15 DEF ReaderEnds
    <2>16. ASSUME NEW c \in Conns, ClientConnects(c)
           PROVE  TypeOK'
      BY <2>16 DEF ClientConnects
    <2>17. ASSUME NEW c \in Conns, ClientLeaves(c)
           PROVE  TypeOK'
      BY <2>17 DEF ClientLeaves
    <2>18. CASE UNCHANGED vars
      BY <2>18 DEF vars
    <2> QED
      BY <2>1, <2>2, <2>3, <2>4, <2>5, <2>6, <2>7, <2>8, <2>9, <2>10, <2>11, <2>12, <2>13, <2>14, <2>15, <2>16, <2>17, <2>18
         DEF Next, Main, Acceptor
  <1> QED
    BY <1>1, <1>2, PTL DEF Spec

\* The safety core of the server: whatever the interleaving of the main
\* thread, the accept thread and the readers, every registered connection has
\* its accept in progress, a live reader or a queued removal.
THEOREM NoZombieHolds == Spec => []NoZombie
  <1>1. Init => NoZombie
    BY DEF Init, NoZombie
  <1>2. TypeOK /\ NoZombie /\ [Next]_vars => NoZombie'
    <2> SUFFICES ASSUME TypeOK, NoZombie, [Next]_vars,
                        NEW c \in connections'
                 PROVE  \/ accepted' = c /\ acceptPc' \in {"assign", "start"}
                        \/ reader'[c] = "reading"
                        \/ Queued(c)'
      BY DEF NoZombie
    <2> USE DEF TypeOK, NoZombie
    <2>1. CASE RunDisconnect
      <3>1. c \in connections /\ c # Head(mainQueue)
        BY <2>1 DEF RunDisconnect
      <3>2. CASE Queued(c)
        <4>1. PICK i \in DOMAIN mainQueue : mainQueue[i] = c
          BY <3>2 DEF Queued
        <4>2. i - 1 \in DOMAIN Tail(mainQueue) /\ Tail(mainQueue)[i - 1] = c
          BY <2>1, <3>1, <4>1, QueuedTail DEF RunDisconnect
        <4> QED
          BY <2>1, <4>2 DEF RunDisconnect, Queued
      <3> QED
        BY <2>1, <3>1, <3>2 DEF RunDisconnect
    <2>2. ASSUME NEW d \in Conns, ReaderEnds(d)
          PROVE  \/ accepted' = c /\ acceptPc' \in {"assign", "start"}
                 \/ reader'[c] = "reading"
                 \/ Queued(c)'
      <3>1. c \in connections
        BY <2>2 DEF ReaderEnds
      <3>2. CASE c = d
        BY <2>2, <3>2, QueuedAppend DEF ReaderEnds, Queued
      <3>3. CASE c # d
        BY <2>2, <3>1, <3>3, QueuedAppend DEF ReaderEnds, Queued
      <3> QED
        BY <3>2, <3>3
    <2>3. CASE Start
      BY <2>3 DEF Start, Queued
    <2>4. CASE StartFails
      BY <2>4 DEF StartFails, Queued
    <2>5. CASE StopBegins
      BY <2>5 DEF StopBegins, Queued
    <2>6. CASE StopLocks
      BY <2>6 DEF StopLocks, Queued
    <2>7. CASE StopUnlocks
      BY <2>7 DEF StopUnlocks, Queued
    <2>8. CASE StopEnds
      BY <2>8 DEF StopEnds, Queued
    <2>9. CASE AcceptChecks
      BY <2>9 DEF AcceptChecks, Queued
    <2>10. CASE AcceptReturns
      BY <2>10 DEF AcceptReturns, Queued
    <2>11. CASE AcceptFails
      BY <2>11 DEF AcceptFails, Queued
    <2>12. CASE AcceptRegisters
      BY <2>12 DEF AcceptRegisters, Queued
    <2>13. CASE AcceptAssigns
      BY <2>13 DEF AcceptAssigns, Queued
    <2>14. CASE AcceptStarts
      BY <2>14 DEF AcceptStarts, Queued
    <2>15. ASSUME NEW d \in Conns, StopCloses(d)
          PROVE  \/ accepted' = c /\ acceptPc' \in {"assign", "start"}
                 \/ reader'[c] = "reading"
                 \/ Queued(c)'
      BY <2>15 DEF StopCloses, Queued
    <2>16. ASSUME NEW d \in Conns, ClientConnects(d)
          PROVE  \/ accepted' = c /\ acceptPc' \in {"assign", "start"}
                 \/ reader'[c] = "reading"
                 \/ Queued(c)'
      BY <2>16 DEF ClientConnects, Queued
    <2>17. ASSUME NEW d \in Conns, ClientLeaves(d)
          PROVE  \/ accepted' = c /\ acceptPc' \in {"assign", "start"}
                 \/ reader'[c] = "reading"
                 \/ Queued(c)'
      BY <2>17 DEF ClientLeaves, Queued
    <2>18. CASE UNCHANGED vars
      BY <2>18 DEF vars, Queued
    <2> QED
      BY <2>1, <2>2, <2>3, <2>4, <2>5, <2>6, <2>7, <2>8, <2>9, <2>10, <2>11, <2>12, <2>13, <2>14, <2>15, <2>16, <2>17, <2>18
         DEF Next, Main, Acceptor
  <1> QED
    BY <1>1, <1>2, TypeCorrect, PTL DEF Spec

-----------------------------------------------------------------------------
\* A reader is started with its callback in place, and callbacks stay.
CallbackFirst ==
  /\ DisconnectIsNeverLost
  /\ acceptPc = "start" => accepted \in callback

\* The accept loop assigns the callback before it starts the reader: whenever
\* the reader finds its peer gone, there is a block to run.
THEOREM DisconnectIsNeverLostHolds == Spec => []DisconnectIsNeverLost
  <1>1. Init => CallbackFirst
    BY DEF Init, CallbackFirst, DisconnectIsNeverLost
  <1>2. TypeOK /\ CallbackFirst /\ [Next]_vars => CallbackFirst'
    <2> SUFFICES ASSUME TypeOK, CallbackFirst, [Next]_vars
                 PROVE  CallbackFirst'
      OBVIOUS
    <2> USE DEF TypeOK, CallbackFirst, DisconnectIsNeverLost
    <2>1. CASE Main
      BY <2>1 DEF Main, Start, StartFails, RunDisconnect, StopBegins, StopLocks,
                  StopCloses, StopUnlocks, StopEnds
    <2>2. CASE AcceptChecks \/ AcceptReturns \/ AcceptFails \/ AcceptRegisters
      BY <2>2 DEF AcceptChecks, AcceptReturns, AcceptFails, AcceptRegisters
    <2>3. CASE AcceptAssigns
      BY <2>3 DEF AcceptAssigns
    <2>4. CASE AcceptStarts
      BY <2>4 DEF AcceptStarts
    <2>5. ASSUME NEW c \in Conns, ReaderEnds(c) \/ ClientConnects(c) \/ ClientLeaves(c)
          PROVE  CallbackFirst'
      BY <2>5 DEF ReaderEnds, ClientConnects, ClientLeaves
    <2>6. CASE UNCHANGED vars
      BY <2>6 DEF vars
    <2> QED
      BY <2>1, <2>2, <2>3, <2>4, <2>5, <2>6 DEF Next, Acceptor
  <1>3. CallbackFirst => DisconnectIsNeverLost
    BY DEF CallbackFirst
  <1> QED
    BY <1>1, <1>2, <1>3, TypeCorrect, PTL DEF Spec

\* While the server runs, nobody but its own reader thread can tell that a
\* connection is over: its file handle is open on our side, and a block is
\* queued for clients that are gone only.
Undisturbed ==
  /\ mainPc = "launch" =>
       mainQueue = <<>> /\ \A c \in Conns : reader[c] = "none"
  /\ isRunning =>
       /\ mainPc = "serving"
       /\ \A c \in Conns : reader[c] = "reading" \/ accepted = c => c \in open
       /\ \A i \in DOMAIN mainQueue : client[mainQueue[i]] = "gone"

\* The main queue loses its first block.
LEMMA TailHolds ==
  ASSUME NEW q \in Seq(Conns), q # <<>>, NEW i \in DOMAIN Tail(q)
  PROVE  i + 1 \in DOMAIN q /\ Tail(q)[i] = q[i + 1]
  OBVIOUS

\* Every step keeps Undisturbed.
LEMMA UndisturbedKeeps ==
  ASSUME TypeOK, Undisturbed, [Next]_vars
  PROVE  Undisturbed'
  <1> USE DEF TypeOK, Undisturbed, isRunning
  <1>1. CASE RunDisconnect
    <2>1. \A i \in DOMAIN mainQueue' :
            i + 1 \in DOMAIN mainQueue /\ mainQueue'[i] = mainQueue[i + 1]
      BY <1>1, TailHolds DEF RunDisconnect
    <2> QED
      BY <1>1, <2>1 DEF RunDisconnect
  <1>2. ASSUME NEW c \in Conns, ReaderEnds(c) PROVE Undisturbed'
    <2>1. mainPc # "launch"
      BY <1>2 DEF ReaderEnds
    <2>2. isRunning => client[c] = "gone"
      BY <1>2 DEF ReaderEnds
    <2>3. \A i \in DOMAIN mainQueue' :
            mainQueue'[i] = c \/ (i \in DOMAIN mainQueue /\ mainQueue'[i] = mainQueue[i])
      BY <1>2 DEF ReaderEnds
    <2> QED
      BY <1>2, <2>1, <2>2, <2>3 DEF ReaderEnds
  <1>3. CASE Start \/ StartFails
    <2>1. accepted = NoConn /\ mainQueue = <<>> /\ mainPc = "launch"
      BY <1>3 DEF Start, StartFails
    <2>2. \A c \in Conns : reader[c] = "none" /\ accepted # c
      BY <2>1, NoConnAssumption
    <2>3. UNCHANGED <<accepted, mainQueue, reader>> /\ mainPc' = "serving"
      BY <1>3 DEF Start, StartFails
    <2> QED
      BY <2>1, <2>2, <2>3
  <1>4. CASE StopBegins \/ StopLocks \/ StopUnlocks \/ StopEnds
    BY <1>4 DEF StopBegins, StopLocks, StopUnlocks, StopEnds
  <1>5. ASSUME NEW c \in Conns, StopCloses(c) PROVE Undisturbed'
    BY <1>5 DEF StopCloses
  <1>6. CASE AcceptReturns
    BY <1>6 DEF AcceptReturns
  <1>7. CASE AcceptStarts
    BY <1>7, NoConnAssumption DEF AcceptStarts
  <1>8. CASE AcceptChecks \/ AcceptFails \/ AcceptRegisters \/ AcceptAssigns
    BY <1>8 DEF AcceptChecks, AcceptFails, AcceptRegisters, AcceptAssigns
  <1>9. ASSUME NEW c \in Conns, ClientConnects(c) \/ ClientLeaves(c) PROVE Undisturbed'
    <2>1. \A d \in Conns : client[d] = "gone" => client'[d] = "gone"
      BY <1>9 DEF ClientConnects, ClientLeaves
    <2>2. UNCHANGED <<mainPc, server, accepted, open, reader, mainQueue>>
      BY <1>9 DEF ClientConnects, ClientLeaves
    <2>3. \A i \in DOMAIN mainQueue : mainQueue[i] \in Conns
      OBVIOUS
    <2> QED
      BY <2>1, <2>2, <2>3
  <1>10. CASE UNCHANGED vars
    BY <1>10 DEF vars
  <1> QED
    BY <1>1, <1>2, <1>3, <1>4, <1>5, <1>6, <1>7, <1>8, <1>9, <1>10
       DEF Next, Main, Acceptor

\* While the app runs, nothing but the block of a client that is gone takes a
\* connection out of the table, and it takes its own.
THEOREM OnlyGoneDeregisteredHolds == Spec => OnlyGoneDeregistered
  <1>1. Init => Undisturbed
    BY NoConnAssumption DEF Init, Undisturbed, isRunning
  <1>2. TypeOK /\ Undisturbed /\ [Next]_vars =>
          [\A c \in connections \ connections' : isRunning => client[c] = "gone"]_vars
    <2> SUFFICES ASSUME TypeOK, Undisturbed, [Next]_vars, isRunning,
                        NEW c \in connections \ connections'
                 PROVE  client[c] = "gone"
      OBVIOUS
    <2>1. CASE RunDisconnect
      <3>1. c = Head(mainQueue) /\ 1 \in DOMAIN mainQueue
        BY <2>1 DEF RunDisconnect, TypeOK
      <3> QED
        BY <3>1, <2>1 DEF Undisturbed, RunDisconnect, TypeOK
    <2>2. CASE StopUnlocks
      BY <2>2 DEF StopUnlocks, Undisturbed
    <2>3. ~(RunDisconnect \/ StopUnlocks) => connections \subseteq connections'
      BY DEF Next, Main, Acceptor, Start, StartFails, StopBegins, StopLocks,
             StopCloses, StopEnds, AcceptChecks, AcceptReturns, AcceptFails,
             AcceptRegisters, AcceptAssigns, AcceptStarts, ReaderEnds,
             ClientConnects, ClientLeaves, vars
    <2> QED
      BY <2>1, <2>2, <2>3
  <1>3. TypeOK /\ Undisturbed /\ [Next]_vars => Undisturbed'
    BY UndisturbedKeeps
  <1> QED
    BY <1>1, <1>2, <1>3, TypeCorrect, PTL DEF Spec, OnlyGoneDeregistered

=============================================================================
