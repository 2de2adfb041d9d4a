---------------------------- MODULE Mux_proofs ----------------------------
(* Theorems about the multiplexer: MuxRpc, how a client asks it, and         *)
(* RenderSync, how the lines of a pane reach the client.  The serials keep   *)
(* requests and answers together, for any number of requests, pushes and     *)
(* lost connections; a line that the cache shows as up to date is the        *)
(* server's, or a correction is on its way, or it is one of the two kinds of *)
(* line the code forgets, for any viewport, history, cache and number of     *)
(* events.                                                                   *)
EXTENDS MuxRpc, RenderSync, SequenceTheorems, TLAPS

PDUs == [serial : Nat, re : Requests \cup {Nothing.re}]

(* A PDU that may be under way when the next serial is n and the promises   *)
(* are p: one of this connection, which answers what was promised.          *)
Right(n, p) ==
  {m \in PDUs : m.serial < n /\ (m.serial \in DOMAIN p => m.re = p[m.serial])}

Client ==
  /\ st \in [Requests -> Fates]
  /\ got \in [Requests -> Requests \cup {Nothing.re}]
  /\ queue \in Seq(Requests)
  /\ serial \in Nat \ {0}
  /\ DOMAIN promises \subseteq 1 .. serial - 1
  /\ \A s \in DOMAIN promises : promises[s] \in Requests

Flight ==
  /\ thread \in [pc : {"idle", "writing", "retry", "ending", "ended"},
                 pdu : Right(serial, promises)]
  /\ c2s \in Seq(Right(serial, promises)) /\ s2c \in Seq(Right(serial, promises))
  /\ out \in Seq(Right(serial, promises))
  /\ tasks \subseteq Right(serial, promises)

Bounds ==
  /\ Len(c2s) <= Cap /\ Len(s2c) <= Cap
  /\ conn \in {"up", "closed", "lost"}

Inv == Client /\ Flight /\ Bounds /\ AnswersGoHome

----------------------------------------------------------------------------
(* A sequence over a set is one over every larger set.                      *)
LEMMA SeqGrows ==
  ASSUME NEW A, NEW B, A \subseteq B, NEW q \in Seq(A)
  PROVE  q \in Seq(B)
  OBVIOUS

(* What is under way stays right when the set of what is right grows.       *)
LEMMA FlightGrows ==
  ASSUME Flight, Right(serial, promises) \subseteq Right(serial', promises'),
         UNCHANGED <<c2s, s2c, tasks, out>>,
         thread' \in [pc : {"idle", "writing", "retry", "ending", "ended"},
                      pdu : Right(serial', promises')]
  PROVE  Flight'
  BY SeqGrows DEF Flight

(* A PDU that nobody asked for is always right.                             *)
LEMMA NothingIsRight ==
  ASSUME NEW n \in Nat \ {0}, NEW p, DOMAIN p \subseteq 1 .. n - 1
  PROVE  Nothing \in Right(n, p)
  BY DEF Nothing, PDUs, Right

(* Promises that are taken back leave everything right that was.            *)
LEMMA RightWithFewer ==
  ASSUME NEW n, NEW p, NEW f, DOMAIN f \subseteq DOMAIN p,
         \A s \in DOMAIN f : f[s] = p[s]
  PROVE  Right(n, p) \subseteq Right(n, f)
  BY DEF Right

(* The next promise is under a serial that nothing under way has.           *)
LEMMA RightWithNext ==
  ASSUME NEW n \in Nat, NEW p, NEW f, DOMAIN f = DOMAIN p \cup {n},
         \A s \in DOMAIN p : s # n => f[s] = p[s]
  PROVE  Right(n, p) \subseteq Right(n + 1, f)
  BY DEF Right, PDUs

----------------------------------------------------------------------------
(* A client that has just connected has nothing under way.                  *)
LEMMA Start == ASSUME Init PROVE Inv
<1>. USE DEF Init, None
<1>1. Nothing \in Right(1, promises)
  BY NothingIsRight, DOMAIN promises = {}
<1>2. Client
  BY DEF Client, Fates, Nothing
<1>3. Flight
  BY <1>1 DEF Flight
<1>4. Bounds /\ AnswersGoHome
  BY RpcAssumption DEF Bounds, AnswersGoHome
<1>. QED  BY <1>2, <1>3, <1>4 DEF Inv

(* The error path: all promises are taken back, and nobody who has been     *)
(* answered is told otherwise.                                              *)
LEMMA BrokenKeeps ==
  ASSUME Inv, NEW pending, NEW again \in BOOLEAN, Broken(pending, again)
  PROVE  /\ Client' /\ AnswersGoHome'
         /\ Right(serial, promises) \subseteq Right(serial', promises')
         /\ thread' \in [pc : {"idle", "writing", "retry", "ending", "ended"},
                         pdu : Right(serial', promises')]
<1>. USE DEF Broken, Inv
<1>1. DOMAIN promises' = {}
  BY DEF None
<1>2. Client'
  BY <1>1 DEF Client, Fates
<1>3. AnswersGoHome'
  BY DEF AnswersGoHome, Client
<1>4. Right(serial, promises) \subseteq Right(serial', promises')
  BY <1>1, RightWithFewer
<1>5. Nothing \in Right(serial', promises')
  BY <1>2, NothingIsRight DEF Client
<1>6. thread' \in [pc : {"idle", "writing", "retry", "ending", "ended"},
                   pdu : Right(serial', promises')]
  BY <1>5
<1>. QED  BY <1>2, <1>3, <1>4, <1>6

(* The thread takes a request: a new promise, and a PDU that answers it.    *)
LEMMA TakeRequestKeeps == ASSUME Inv, TakeRequest PROVE Inv'
<1>. USE DEF TakeRequest, Inv
<1>1. Head(queue) \in Requests /\ Tail(queue) \in Seq(Requests)
  BY DEF Client
<1>2. /\ DOMAIN promises' = DOMAIN promises \cup {serial}
      /\ promises'[serial] = Head(queue)
      /\ \A s \in DOMAIN promises : s # serial => promises'[s] = promises[s]
  OBVIOUS
<1>3. Client'
  <2>1. serial' \in Nat \ {0} /\ DOMAIN promises' \subseteq 1 .. serial' - 1
    BY <1>2 DEF Client
  <2>2. \A s \in DOMAIN promises' : promises'[s] \in Requests
    BY <1>1, <1>2 DEF Client
  <2>. QED  BY <1>1, <2>1, <2>2 DEF Client
<1>4. Right(serial, promises) \subseteq Right(serial', promises')
  BY <1>2, RightWithNext DEF Client
<1>5. Pdu(serial, Head(queue)) \in Right(serial', promises')
  BY <1>1, <1>2 DEF Right, PDUs, Pdu, Client
<1>6. Flight'
  <2>1. thread' \in [pc : {"idle", "writing", "retry", "ending", "ended"},
                     pdu : Right(serial', promises')]
    BY <1>5
  <2>. QED  BY <1>4, <2>1, FlightGrows DEF serverVars
<1>7. Bounds' /\ AnswersGoHome'
  BY DEF Bounds, AnswersGoHome
<1>. QED  BY <1>3, <1>6, <1>7

(* What is read is pushed, or answers its promise, or breaks the connection.*)
LEMMA ReadKeeps == ASSUME Inv, Read PROVE Inv'
<1>. DEFINE pdu == Head(s2c)
            s == pdu.serial
<1>. USE DEF Inv
<1>1. /\ pdu \in Right(serial, promises)
      /\ Tail(s2c) \in Seq(Right(serial, promises)) /\ Len(Tail(s2c)) <= Cap
  BY RpcAssumption DEF Read, Flight, Bounds
<1>2. UNCHANGED <<c2s, tasks, out, conn>> /\ s2c' = Tail(s2c)
  BY DEF Read, serverVars
<1>3. Bounds'
  BY <1>1, <1>2 DEF Bounds
<1>4. ASSUME Right(serial, promises) \subseteq Right(serial', promises'),
             thread' \in [pc : {"idle", "writing", "retry", "ending", "ended"},
                          pdu : Right(serial', promises')]
      PROVE  Flight'
  BY <1>1, <1>2, <1>4, SeqGrows DEF Flight
<1>5. CASE s = 0 /\ UNCHANGED clientVars
  BY <1>1, <1>2, <1>3, <1>5 DEF clientVars, Client, Flight, AnswersGoHome
<1>6. CASE /\ s \in DOMAIN promises /\ st[promises[s]] = "waiting"
           /\ st' = [st EXCEPT ![promises[s]] = "answered"]
           /\ got' = [got EXCEPT ![promises[s]] = pdu.re]
           /\ promises' = Without(promises, s)
           /\ UNCHANGED <<queue, thread, serial>>
  <2>1. pdu.re = promises[s]
    BY <1>1, <1>6 DEF Right
  <2>2. /\ DOMAIN promises' = DOMAIN promises \ {s}
        /\ \A x \in DOMAIN promises' : promises'[x] = promises[x]
    BY <1>6 DEF Without
  <2>3. Client'
    BY <1>6, <2>1, <2>2 DEF Client, Fates
  <2>4. AnswersGoHome'
    BY <1>6, <2>1 DEF AnswersGoHome, Client
  <2>5. Right(serial, promises) \subseteq Right(serial', promises')
    BY <1>6, <2>2, RightWithFewer
  <2>. QED  BY <1>3, <1>4, <1>6, <2>3, <2>4, <2>5 DEF Flight
<1>7. CASE Broken(Without(promises, s), s \notin DOMAIN promises)
  BY <1>3, <1>4, <1>7, BrokenKeeps
<1>. QED  BY <1>5, <1>6, <1>7 DEF Read

(* A new connection carries nothing of the old one, and nobody has promises *)
(* left from it: the serials may start again.                               *)
LEMMA ReconnectKeeps ==
  ASSUME Inv, thread.pc = "retry" => promises = None, Reconnect PROVE Inv'
<1>. USE DEF Reconnect, Inv
<1>1. promises' = None /\ DOMAIN promises' = {}
  BY DEF None
<1>2. Client'
  BY <1>1 DEF Client
<1>3. Nothing \in Right(serial', promises')
  BY <1>2, NothingIsRight DEF Client
<1>4. Flight'
  BY <1>3 DEF Flight, Idle
<1>5. Bounds' /\ AnswersGoHome'
  BY RpcAssumption DEF Bounds, AnswersGoHome
<1>. QED  BY <1>2, <1>4, <1>5

(* Steps that take no promise and make none, and move PDUs about.           *)
LEMMA MoveKeeps ==
  ASSUME Inv, UNCHANGED <<serial, promises, got>>,
         \/ \E r \in Requests : Request(r) \/ GiveUp(r)
         \/ WriteRequest \/ Ends \/ Receive \/ CarryOut \/ WriteItem \/ Push \/ Lose
  PROVE  Inv'
<1>. USE DEF Inv, serverVars, ServerKeeps, clientVars
<1>. DEFINE G == Right(serial, promises)
<1>1. Nothing \in G /\ UNCHANGED G
  BY NothingIsRight DEF Client
<1>2. ASSUME NEW r \in Requests, Request(r) PROVE Inv'
  <2>1. PICK to \in {"waiting", "failed"} : st' = [st EXCEPT ![r] = to]
    BY <1>2 DEF Request
  <2>2. queue' \in Seq(Requests)
    <3>1. Append(queue, r) \in Seq(Requests)
      BY DEF Client
    <3>. QED  BY <1>2, <3>1 DEF Request, Client
  <2>3. Client'
    BY <2>1, <2>2 DEF Client, Fates
  <2>4. AnswersGoHome'
    BY <1>2, <2>1 DEF AnswersGoHome, Client, Request
  <2>5. UNCHANGED <<thread, tasks, out, conn, c2s, s2c>>
    BY <1>2 DEF Request
  <2>. QED  BY <1>1, <2>3, <2>4, <2>5 DEF Flight, Bounds
<1>3. ASSUME NEW r \in Requests, GiveUp(r) PROVE Inv'
  BY <1>1, <1>3 DEF GiveUp, Client, Fates, Flight, Bounds, AnswersGoHome
<1>4. CASE WriteRequest
  <2>1. c2s' \in Seq(G) /\ Len(c2s') <= Cap /\ thread'.pdu \in G
    BY <1>1, <1>4, RpcAssumption DEF WriteRequest, Flight, Idle
  <2>. QED  BY <1>1, <1>4, <2>1 DEF WriteRequest, Client, Flight, Bounds, AnswersGoHome, Idle
<1>5. CASE Ends
  BY <1>1, <1>5 DEF Ends, Client, Flight, Bounds, AnswersGoHome
<1>6. CASE Receive
  <2>1. Head(c2s) \in G /\ c2s' \in Seq(G) /\ Len(c2s') <= Cap
    BY <1>6, RpcAssumption DEF Receive, Flight, Bounds
  <2>. QED  BY <1>1, <1>6, <2>1 DEF Receive, Client, Flight, Bounds, AnswersGoHome
<1>7. CASE CarryOut
  <2>1. tasks' \subseteq G /\ out' \in Seq(G)
    BY <1>7 DEF CarryOut, Flight
  <2>. QED  BY <1>1, <1>7, <2>1 DEF CarryOut, Client, Flight, Bounds, AnswersGoHome
<1>8. CASE WriteItem
  <2>1. s2c' \in Seq(G) /\ Len(s2c') <= Cap /\ out' \in Seq(G)
    BY <1>8, RpcAssumption DEF WriteItem, Flight, Bounds
  <2>. QED  BY <1>1, <1>8, <2>1 DEF WriteItem, Client, Flight, Bounds, AnswersGoHome
<1>9. CASE Push
  BY <1>1, <1>9 DEF Push, Client, Flight, Bounds, AnswersGoHome
<1>10. CASE Lose
  <2>1. /\ s2c' = s2c \/ s2c' = <<>>
        /\ c2s' = <<>> /\ tasks' = {} /\ out' = <<>>
        /\ conn' \in {"closed", "lost"} /\ UNCHANGED <<st, queue, thread>>
    BY <1>10 DEF Lose
  <2>2. s2c' \in Seq(G) /\ Len(s2c') <= Cap /\ Len(c2s') <= Cap
    <3>1. <<>> \in Seq(G) /\ Len(<<>>) = 0 /\ 0 <= Cap
      BY RpcAssumption
    <3>2. s2c \in Seq(G) /\ Len(s2c) <= Cap
      BY DEF Flight, Bounds
    <3>3. CASE s2c' = s2c
      BY <2>1, <3>1, <3>2, <3>3
    <3>4. CASE s2c' = <<>>
      BY <2>1, <3>1, <3>4
    <3>. QED  BY <2>1, <3>3, <3>4
  <2>. QED  BY <1>1, <2>1, <2>2 DEF Client, Flight, Bounds, AnswersGoHome
<1>. QED  BY <1>2, <1>3, <1>4, <1>5, <1>6, <1>7, <1>8, <1>9, <1>10

(* A thread that is done with a connection has no promises left from it.    *)
Settled == thread.pc \in {"retry", "ending", "ended"} => promises = None

(* Every step keeps the invariant; no promise outlives its connection.      *)
LEMMA StepKeeps == ASSUME Inv, Settled, Next PROVE Inv' /\ Settled'
<1>1. CASE TakeRequest
  BY <1>1, TakeRequestKeeps DEF TakeRequest, Settled
<1>2. CASE WriteFails \/ ReadFails
  <2>1. PICK again \in BOOLEAN : Broken(promises, again)
    BY <1>2 DEF WriteFails, ReadFails
  <2>2. UNCHANGED <<conn, c2s, s2c, tasks, out>>
    BY <1>2 DEF WriteFails, ReadFails, serverVars
  <2>3. Client' /\ AnswersGoHome' /\ Flight'
    BY <2>1, <2>2, BrokenKeeps, FlightGrows DEF Inv
  <2>4. Bounds'
    BY <2>2 DEF Inv, Bounds
  <2>. QED  BY <2>1, <2>3, <2>4 DEF Inv, Settled, Broken
<1>3. CASE Read
  <2>1. Settled'
    BY <1>3 DEF Read, Settled, Broken, IsIdle, clientVars
  <2>. QED  BY <1>3, <2>1, ReadKeeps
<1>4. CASE Reconnect
  BY <1>4, ReconnectKeeps DEF Settled, Reconnect, Idle
<1>5. CASE \/ \E r \in Requests : Request(r) \/ GiveUp(r)
           \/ WriteRequest \/ Ends \/ Receive \/ CarryOut \/ WriteItem \/ Push \/ Lose
  <2>1. UNCHANGED <<serial, promises, got>>
    BY <1>5 DEF Request, GiveUp, WriteRequest, Ends, Receive, CarryOut, WriteItem,
                Push, Lose, ServerKeeps, clientVars
  <2>2. \/ UNCHANGED thread \/ thread'.pc = "idle"
        \/ thread.pc = "ending" /\ thread'.pc = "ended"
    <3>1. CASE Ends
      BY <3>1 DEF Ends, Inv, Flight
    <3>2. CASE WriteRequest
      BY <3>2 DEF WriteRequest, Idle
    <3>. QED  BY <1>5, <3>1, <3>2 DEF Request, GiveUp, Receive, CarryOut, WriteItem,
                                      Push, Lose, ServerKeeps, clientVars
  <2>3. Settled'
    BY <2>1, <2>2 DEF Settled
  <2>. QED  BY <1>5, <2>1, <2>3, MoveKeeps
<1>. QED  BY <1>1, <1>2, <1>3, <1>4, <1>5 DEF Next, ClientThread, Server

(* The inductive invariant: what is under way answers what was promised.    *)
THEOREM InvHolds == Spec => [](Inv /\ Settled)
<1>1. Init => Inv /\ Settled
  BY Start DEF Init, Settled
<1>2. Inv /\ Settled /\ [Next]_vars => (Inv /\ Settled)'
  <2>1. ASSUME Inv, Settled, UNCHANGED vars PROVE (Inv /\ Settled)'
    BY <2>1 DEF vars, clientVars, serverVars, Inv, Client, Flight, Bounds, Settled,
                AnswersGoHome, Right
  <2>. QED  BY <2>1, StepKeeps
<1>. QED  BY <1>1, <1>2, PTL DEF Spec

(* Types: serials under 1 .. next_serial, requests under promises, buffers  *)
(* within their bounds.                                                     *)
THEOREM TypeCorrect == Spec => []TypeOK
<1>1. Inv => TypeOK
  BY DEF Inv, Client, Flight, Bounds, TypeOK
<1>. QED  BY <1>1, InvHolds, PTL

(* A task gets the answer to its own request: for any number of requests    *)
(* in any order, of pushes, of requests given up and of connections lost.   *)
THEOREM AnswersGoHomeHolds == Spec => []AnswersGoHome
<1>1. Inv => AnswersGoHome
  BY DEF Inv
<1>. QED  BY <1>1, InvHolds, PTL

----------------------------------------------------------------------------
(* RenderSync: the types.                                                   *)
LEMMA Constants ==
  /\ H \in Nat /\ H > 0 /\ MaxTop \in Nat /\ MaxEvents \in Nat
  /\ StartTop \in Nat /\ StartTop <= MaxTop /\ FetchIds \subseteq Nat \ {0}
<1>1. MaxTop \in Nat /\ MaxEvents \in Nat /\ H \in Nat /\ H > 0
  BY RenderAssumption
<1>. QED  BY <1>1, RenderAssumption

(* What a read of the terminal can answer.                                  *)
LEMMA AnswerHas ==
  ASSUME NEW b \in Answer
  PROVE  /\ DOMAIN b \subseteq Rows
         /\ \A r \in DOMAIN b : b[r] \in Version /\ b[r][2] \in Seqs
<1>1. PICK S \in SUBSET Rows : b \in [S -> Version]
  BY DEF Answer
<1>. QED  BY <1>1 DEF Version

(* Whatever gives versions to some rows is an answer.                       *)
LEMMA AnswerIs ==
  ASSUME NEW S, S \subseteq Rows, NEW b \in [S -> Version]
  PROVE  b \in Answer
  BY DEF Answer

(* So is the empty answer of a fetch that has just been sent or has failed. *)
LEMMA NoAnswer == <<>> \in Answer
<1>1. <<>> \in [{} -> Version]
  OBVIOUS
<1>. QED  BY <1>1, AnswerIs

(* The fields of the terminal.                                              *)
LEMMA TermShape ==
  ASSUME RenderTypeOK
  PROVE  /\ term.alt \in BOOLEAN /\ term.top \in Nat /\ term.top <= MaxTop
         /\ term.cur \in Rows /\ term.seq \in Nat /\ 1 <= term.seq /\ term.seq <= events + 1
         /\ term.main \in [Rows -> 0 .. events + 1]
         /\ term.over \in [0 .. H - 1 -> 0 .. events + 1]
         /\ events \in Nat /\ events <= MaxEvents
<1>1. events \in Nat /\ events <= MaxEvents
  BY Constants DEF RenderTypeOK
<1>2. term \in [alt : BOOLEAN, top : 0 .. MaxTop, cur : Rows, seq : 1 .. events + 1,
               main : [Rows -> 0 .. events + 1], over : [0 .. H - 1 -> 0 .. events + 1]]
  BY DEF RenderTypeOK
<1>. QED  BY <1>1, <1>2, Constants

(* The rows of the terminal, and the text of each.                          *)
LEMMA RowsOfTheTerminal ==
  ASSUME RenderTypeOK
  PROVE  /\ Existing(term) \subseteq Rows /\ Viewport(term) \subseteq Rows
         /\ Top(term) \in 0 .. MaxTop
         /\ \A r \in Existing(term) : /\ SeqAt(term, r) \in 0 .. events + 1
                                      /\ LineAt(term, r) \in Version
<1>. USE TermShape, Constants
<1>1. Top(term) \in Nat /\ Top(term) <= MaxTop
  BY DEF Top
<1>2. ASSUME NEW r \in Existing(term)
      PROVE  /\ r \in Rows /\ SeqAt(term, r) \in 0 .. events + 1 /\ SeqAt(term, r) \in Seqs
  <2>1. r \in Rows
    BY <1>1 DEF Existing, Rows
  <2>2. CASE term.alt
    <3>1. r \in 0 .. H - 1
      BY <2>2 DEF Existing, Top
    <3>2. SeqAt(term, r) = term.over[r] /\ term.over[r] \in 0 .. events + 1
      BY <2>2, <3>1 DEF SeqAt
    <3>. QED  BY <2>1, <3>2 DEF Seqs
  <2>3. CASE ~term.alt
    <3>1. SeqAt(term, r) = term.main[r] /\ term.main[r] \in 0 .. events + 1
      BY <2>1, <2>3 DEF SeqAt
    <3>. QED  BY <2>1, <3>1 DEF Seqs
  <2>. QED  BY <2>2, <2>3
<1>3. ASSUME NEW r \in Viewport(term) PROVE r \in Rows
  BY <1>1 DEF Viewport, Rows
<1>. QED  BY <1>1, <1>2, <1>3 DEF LineAt, Version

(* Screen::stable_range answers at least one row, rows the terminal has,    *)
(* and the very rows it was asked for when they are within it.              *)
LEMMA StableRows ==
  ASSUME RenderTypeOK, NEW a \in Nat, NEW b \in Nat, a < b
  PROVE  /\ StableRange(term, a, b) \subseteq Existing(term)
         /\ StableRange(term, a, b) # {}
         /\ b <= Top(term) + H => StableRange(term, a, b) = a .. b - 1
         /\ a = 0 => {r \in Existing(term) : r < b} \subseteq StableRange(term, a, b)
<1>. DEFINE n == Top(term) + H
            R == StableRange(term, a, b)
<1>1. n \in Nat /\ n > 0 /\ Existing(term) = 0 .. n - 1
  BY RowsOfTheTerminal, Constants DEF Existing
<1>2. R = IF a >= n THEN 0 .. (IF b - a < n THEN b - a ELSE n) - 1
          ELSE IF b > n THEN {r \in 0 .. n - 1 : r >= n - 1 - (b - a)}
          ELSE a .. b - 1
  BY DEF StableRange
<1>. HIDE DEF n, R
<1>3. CASE a >= n
  <2>1. R = 0 .. (IF b - a < n THEN b - a ELSE n) - 1
    BY <1>2, <1>3
  <2>2. 0 \in R /\ \A r \in R : r \in 0 .. n - 1
    BY <1>1, <2>1
  <2>. QED  BY <1>1, <1>3, <2>2 DEF n, R
<1>4. CASE a < n /\ b > n
  <2>1. R = {r \in 0 .. n - 1 : r >= n - 1 - (b - a)}
    BY <1>1, <1>2, <1>4
  <2>2. n - 1 \in R /\ \A r \in R : r \in 0 .. n - 1
    BY <1>1, <2>1
  <2>3. a = 0 => \A r \in 0 .. n - 1 : r \in R
    BY <1>1, <1>4, <2>1
  <2>. QED  BY <1>1, <1>4, <2>2, <2>3 DEF n, R
<1>5. CASE a < n /\ b <= n
  <2>1. R = a .. b - 1
    BY <1>1, <1>2, <1>5
  <2>2. a \in R /\ \A r \in R : r \in 0 .. n - 1
    BY <1>1, <1>5, <2>1
  <2>3. a = 0 => \A r \in 0 .. n - 1 : r < b => r \in R
    BY <1>1, <2>1
  <2>. QED  BY <1>1, <1>5, <2>1, <2>2, <2>3 DEF n, R
<1>. QED  BY <1>1, <1>3, <1>4, <1>5

(* The fields of a computation, as far as it has come.                      *)
LEMMA JobShape ==
  ASSUME RenderTypeOK
  PROVE  /\ job.pc \in {"idle", "cursor", "seqno", "dirty", "lines", "cursorline"}
         /\ job.pc # "idle" => job.force \in Nat /\ job.top \in Nat /\ job.top <= MaxTop
         /\ job.pc \in {"cursor", "seqno"} => job.alt \in BOOLEAN
         /\ job.pc \in {"seqno", "dirty", "lines", "cursorline"} => job.cur \in Rows
         /\ job.pc = "dirty" => job.old \in Seqs
         /\ job.pc \in {"lines", "cursorline"} => job.dirty \subseteq Rows
         /\ job.pc = "cursorline" => job.bonus \in Answer
         /\ job.pc = "idle" => job = NoJob
<1>. USE Constants
<1>0. job \in Job
  BY DEF RenderTypeOK
<1>1. CASE job = NoJob
  BY <1>1 DEF NoJob
<1>2. CASE job \in [pc : {"cursor"}, force : Nat, top : 0 .. MaxTop, alt : BOOLEAN]
  BY <1>2
<1>3. CASE job \in [pc : {"seqno"}, force : Nat, top : 0 .. MaxTop, alt : BOOLEAN, cur : Rows]
  BY <1>3
<1>4. CASE job \in [pc : {"dirty"}, force : Nat, top : 0 .. MaxTop, cur : Rows, old : Seqs]
  BY <1>4
<1>5. CASE job \in [pc : {"lines"}, force : Nat, top : 0 .. MaxTop, cur : Rows,
                    dirty : SUBSET Rows]
  BY <1>5
<1>6. CASE job \in [pc : {"cursorline"}, force : Nat, top : 0 .. MaxTop, cur : Rows,
                    dirty : SUBSET Rows, bonus : Answer]
  BY <1>6
<1>. QED  BY <1>0, <1>1, <1>2, <1>3, <1>4, <1>5, <1>6 DEF Job

----------------------------------------------------------------------------
(* A client that attaches starts with its types in order.                   *)
LEMMA StartTypes == RenderInit => RenderTypeOK
<1>. SUFFICES ASSUME RenderInit PROVE RenderTypeOK
  OBVIOUS
<1>. USE Constants DEF RenderInit
<1>1. 0 \in Rows /\ StartTop \in Rows
  BY DEF Rows
<1>2. events \in 0 .. MaxEvents
  OBVIOUS
<1>3. term \in [alt : BOOLEAN, top : 0 .. MaxTop, cur : Rows, seq : 1 .. events + 1,
          main : [Rows -> 0 .. events + 1], over : [0 .. H - 1 -> 0 .. events + 1]]
  BY <1>1
<1>4. session \in [top : -1 .. MaxTop, cur : Rows, seqno : 0 .. term.seq,
                   blind : 0 .. term.seq]
  BY <1>1 DEF Fresh
<1>5. job \in Job
  BY DEF Job
<1>6. asked \in [push : BOOLEAN, keys : Seq(Nat \ {NoKey})]
  OBVIOUS
<1>7. pushes \in Seq(Delta)
  OBVIOUS
<1>8. lines \in [Rows -> Entry]
  BY DEF Entry
<1>9. client \in [top : 0 .. MaxTop, cur : Rows, seqno : Seqs, serial : Nat,
                back : BOOLEAN, paint : BOOLEAN, left : SUBSET Rows]
  BY <1>1 DEF Seqs
<1>. QED  BY <1>2, <1>3, <1>4, <1>5, <1>6, <1>7, <1>8, <1>9 DEF RenderTypeOK

(* A batch of output raises the sequence number by one.                     *)
Terminal == [alt : BOOLEAN, top : 0 .. MaxTop, cur : Rows, seq : Nat,
             main : [Rows -> 0 .. events + 2], over : [0 .. H - 1 -> 0 .. events + 2]]

(* A batch that produces a terminal keeps the types.                        *)
LEMMA BatchTypes ==
  ASSUME RenderTypeOK, NEW t \in Terminal, Batch(t)
  PROVE  RenderTypeOK'
<1>. USE TermShape, Constants
<1>1. events' \in 0 .. MaxEvents /\ events' = events + 1
  BY DEF Batch, Happens
<1>2. term' = [t EXCEPT !.seq = term.seq + 1] /\ term.seq + 1 \in 1 .. events + 2
  BY DEF Batch
<1>3. term' \in [alt : BOOLEAN, top : 0 .. MaxTop, cur : Rows, seq : 1 .. events + 2,
          main : [Rows -> 0 .. events + 2], over : [0 .. H - 1 -> 0 .. events + 2]]
  BY <1>2 DEF Terminal
<1>4. events' + 1 = events + 2
  BY <1>1
<1>5. term' \in [alt : BOOLEAN, top : 0 .. MaxTop, cur : Rows, seq : 1 .. events' + 1,
          main : [Rows -> 0 .. events' + 1], over : [0 .. H - 1 -> 0 .. events' + 1]]
  BY <1>3, <1>4
<1>6. session' \in [top : -1 .. MaxTop, cur : Rows, seqno : 0 .. term'.seq,
                    blind : 0 .. term'.seq]
  <2>1. term'.seq = term.seq + 1 /\ 0 .. term.seq \subseteq 0 .. term.seq + 1
    BY <1>2 DEF Terminal
  <2>. QED  BY <2>1 DEF Batch, RenderTypeOK
<1>7. asked' \in [push : BOOLEAN, keys : Seq(Nat \ {NoKey})]
  BY DEF Batch, RenderTypeOK
<1>. QED  BY <1>1, <1>5, <1>6, <1>7 DEF Batch, RenderTypeOK

(* Touched rows get the next sequence number.                               *)
LEMMA Touched ==
  ASSUME RenderTypeOK, NEW S
  PROVE  /\ Touch(term.main, S) \in [Rows -> 0 .. events + 2]
         /\ Touch(term.over, S) \in [0 .. H - 1 -> 0 .. events + 2]
<1>1. term.seq + 1 \in 0 .. events + 2 /\ \A x \in 0 .. events + 1 : x \in 0 .. events + 2
  BY TermShape
<1>2. /\ DOMAIN term.main = Rows /\ \A r \in Rows : term.main[r] \in 0 .. events + 1
      /\ DOMAIN term.over = 0 .. H - 1 /\ \A r \in 0 .. H - 1 : term.over[r] \in 0 .. events + 1
  BY TermShape
<1>. QED  BY <1>1, <1>2 DEF Touch

(* The parser thread keeps the types: writing, scrolling, switching         *)
(* screens.                                                                 *)
LEMMA OutputTypes == ASSUME RenderTypeOK, Output PROVE RenderTypeOK'
<1>1. term \in Terminal
  <2>1. term = [alt |-> term.alt, top |-> term.top, cur |-> term.cur, seq |-> term.seq,
                main |-> term.main, over |-> term.over]
    BY DEF RenderTypeOK
  <2>2. \A x \in 0 .. events + 1 : x \in 0 .. events + 2
    BY TermShape
  <2>3. /\ term.main \in [Rows -> 0 .. events + 2]
        /\ term.over \in [0 .. H - 1 -> 0 .. events + 2]
    BY <2>2, TermShape
  <2>. QED  BY <2>1, <2>3, TermShape, Constants DEF Terminal
<1>2. Viewport(term) \subseteq Rows
  BY RowsOfTheTerminal
<1>3. CASE Write
  <2>1. PICK row \in Viewport(term), c \in Viewport(term) :
          Batch(IF term.alt THEN [term EXCEPT !.over = Touch(@, {row}), !.cur = c]
                            ELSE [term EXCEPT !.main = Touch(@, {row}), !.cur = c])
    BY <1>3 DEF Write
  <2>2. /\ [term EXCEPT !.over = Touch(@, {row}), !.cur = c] \in Terminal
        /\ [term EXCEPT !.main = Touch(@, {row}), !.cur = c] \in Terminal
    BY <1>1, <1>2, Touched DEF Terminal
  <2>. QED  BY <2>1, <2>2, BatchTypes
<1>4. CASE ScrollUp
  <2>1. term.top + 1 \in 0 .. MaxTop /\ term.top + H \in Rows
    <3>1. term.top < MaxTop
      BY <1>4 DEF ScrollUp
    <3>2. \A x \in Nat : x < MaxTop => x + 1 \in 0 .. MaxTop /\ x + H \in Rows
      BY Constants DEF Rows
    <3>. QED  BY <3>1, <3>2, TermShape
  <2>2. [term EXCEPT !.top = @ + 1, !.main = Touch(@, {term.top + H}),
                     !.cur = term.top + H] \in Terminal
    BY <1>1, <2>1, Touched DEF Terminal
  <2>. QED  BY <1>4, <2>2, BatchTypes DEF ScrollUp
<1>5. \A alt \in BOOLEAN : Switched(alt) \in Terminal
  BY <1>1, Touched DEF Switched, Terminal
<1>6. CASE EnterAlt
  <2>1. PICK mode \in AltScreens :
          Batch([Switched(TRUE) EXCEPT !.cur = 0,
                   !.over = IF mode = "clear" THEN Touch(@, 0 .. H - 1) ELSE @])
    BY <1>6 DEF EnterAlt
  <2>2. 0 \in Rows
    BY Constants DEF Rows
  <2>3. Switched(TRUE).over = term.over
    BY <1>1 DEF Switched, Terminal
  <2>4. [Switched(TRUE) EXCEPT !.cur = 0,
           !.over = IF mode = "clear" THEN Touch(@, 0 .. H - 1) ELSE @] \in Terminal
    BY <1>5, <2>2, <2>3, Touched DEF Terminal
  <2>. QED  BY <2>1, <2>4, BatchTypes
<1>7. CASE LeaveAlt
  <2>1. PICK c \in Viewport([term EXCEPT !.alt = FALSE]) :
          Batch([Switched(FALSE) EXCEPT !.cur = c])
    BY <1>7 DEF LeaveAlt
  <2>2. c \in Rows
    BY <2>1, TermShape, Constants DEF Viewport, Top, Rows
  <2>3. [Switched(FALSE) EXCEPT !.cur = c] \in Terminal
    BY <1>5, <2>2 DEF Terminal
  <2>. QED  BY <2>1, <2>3, BatchTypes
<1>. QED  BY <1>3, <1>4, <1>6, <1>7 DEF Output

----------------------------------------------------------------------------
(* A computation that meets the alternate screen marks its number.          *)
LEMMA Blinded ==
  ASSUME RenderTypeOK
  PROVE  [session EXCEPT !.blind = IF term.alt THEN session.seqno ELSE @]
           \in [top : -1 .. MaxTop, cur : Rows, seqno : 0 .. term.seq,
                blind : 0 .. term.seq]
<1>. DEFINE b == IF term.alt THEN session.seqno ELSE session.blind
<1>1. session \in [top : -1 .. MaxTop, cur : Rows, seqno : 0 .. term.seq,
                   blind : 0 .. term.seq]
  BY DEF RenderTypeOK
<1>2. b \in 0 .. term.seq
  BY <1>1
<1>. HIDE DEF b
<1>3. [session EXCEPT !.blind = b]
        \in [top : -1 .. MaxTop, cur : Rows, seqno : 0 .. term.seq, blind : 0 .. term.seq]
  BY <1>1, <1>2
<1>. QED  BY <1>3 DEF b

(* The reads of compute_changes.                                            *)
LEMMA ServeTypes == ASSUME RenderTypeOK, Serve PROVE RenderTypeOK'
<1>. USE TermShape, JobShape, Constants
<1>1. UNCHANGED <<term, fetches, lines, client, events>>
  BY DEF Serve, StartPush, StartKey, Begin, ReadCursor, ReadSeqno, ReadDirty, ReadLines,
         PushDelta, OnlyAsks
<1>2. ASSUME /\ session' \in [top : -1 .. MaxTop, cur : Rows, seqno : 0 .. term.seq,
                              blind : 0 .. term.seq]
             /\ job' \in Job
             /\ asked' \in [push : BOOLEAN, keys : Seq(Nat \ {NoKey})]
             /\ pushes' \in Seq(Delta)
      PROVE  RenderTypeOK'
  BY <1>1, <1>2 DEF RenderTypeOK
<1>3. /\ session \in [top : -1 .. MaxTop, cur : Rows, seqno : 0 .. term.seq,
                      blind : 0 .. term.seq]
      /\ asked \in [push : BOOLEAN, keys : Seq(Nat \ {NoKey})]
      /\ pushes \in Seq(Delta)
      /\ NoKey \in Nat
  BY DEF RenderTypeOK, NoKey
<1>12. /\ term.seq \in 0 .. term.seq
       /\ session.seqno \in 0 .. term.seq /\ session.blind \in 0 .. term.seq
  BY <1>3
<1>4. ASSUME NEW force \in Nat, Begin(force)
      PROVE  job' \in Job /\ UNCHANGED <<session, pushes>>
  <2>1. Top(term) \in 0 .. MaxTop /\ term.alt \in BOOLEAN
    BY RowsOfTheTerminal
  <2>. QED  BY <1>4, <2>1 DEF Begin, Job
<1>5. CASE StartPush
  BY <1>2, <1>3, <1>4, <1>5 DEF StartPush
<1>6. CASE StartKey
  <2>1. asked.keys \in Seq(Nat \ {NoKey}) /\ asked.keys # <<>>
    BY <1>3, <1>6 DEF StartKey
  <2>2. Head(asked.keys) \in Nat /\ Tail(asked.keys) \in Seq(Nat \ {NoKey})
    BY <2>1
  <2>3. [asked EXCEPT !.keys = Tail(@)] \in [push : BOOLEAN, keys : Seq(Nat \ {NoKey})]
    BY <1>3, <2>2
  <2>. QED  BY <1>2, <1>3, <1>4, <1>6, <2>2, <2>3 DEF StartKey
<1>7. CASE ReadCursor
  <2>1. job' \in Job
    BY <1>7 DEF ReadCursor, Job
  <2>. QED  BY <1>2, <1>3, <1>7, <2>1 DEF ReadCursor
<1>8. CASE ReadSeqno
  <2>1. session.seqno \in Seqs
    BY <1>3 DEF Seqs
  <2>2. job' \in Job
    BY <1>8, <2>1 DEF ReadSeqno, Job
  <2>3. session' \in [top : -1 .. MaxTop, cur : Rows, seqno : 0 .. term.seq,
                      blind : 0 .. term.seq]
    <3>. DEFINE b == IF job.alt THEN term.seq ELSE session.blind
    <3>1. term.seq \in 0 .. term.seq /\ b \in 0 .. term.seq
      BY <1>12
    <3>2. session' = [session EXCEPT !.seqno = term.seq, !.blind = b]
      BY <1>8 DEF ReadSeqno
    <3>. HIDE DEF b
    <3>. QED  BY <1>3, <3>1, <3>2
  <2>. QED  BY <1>2, <1>3, <1>8, <2>2, <2>3 DEF ReadSeqno
<1>9. CASE ReadDirty
  <2>1. Changed(job.old, job.top) \subseteq Rows
    <3>1. 0 \in Nat /\ job.top + H \in Nat /\ 0 < job.top + H
      BY <1>9 DEF ReadDirty
    <3>2. StableRange(term, 0, job.top + H) \subseteq Existing(term)
      BY <3>1, StableRows
    <3>. QED  BY <3>2, RowsOfTheTerminal DEF Changed
  <2>2. job' \in Job
    BY <1>9, <2>1 DEF ReadDirty, Job
  <2>3. session' \in [top : -1 .. MaxTop, cur : Rows, seqno : 0 .. term.seq,
                      blind : 0 .. term.seq]
    BY <1>3, <1>9, Blinded DEF ReadDirty
  <2>. QED  BY <1>2, <1>3, <1>9, <2>2, <2>3 DEF ReadDirty
<1>10. CASE ReadLines
  <2>. DEFINE sent == StableRange(term, job.top, job.top + H) \cap job.dirty
  <2>1. sent \subseteq Rows /\ \A r \in sent : LineAt(term, r) \in Version
    <3>1. job.top \in Nat /\ job.top + H \in Nat /\ job.top < job.top + H
      BY <1>10 DEF ReadLines
    <3>2. StableRange(term, job.top, job.top + H) \subseteq Existing(term)
      BY <3>1, StableRows
    <3>. QED  BY <3>2, RowsOfTheTerminal
  <2>2. [r \in sent |-> LineAt(term, r)] \in Answer
    BY <2>1, AnswerIs
  <2>3. job' \in Job
    BY <1>10, <2>2 DEF ReadLines, Job
  <2>. QED  BY <1>2, <1>3, <1>10, <2>3 DEF ReadLines
<1>11. CASE PushDelta
  <2>. DEFINE row == CHOOSE r \in StableRange(term, job.cur, job.cur + 1) : TRUE
              bonus == [r \in DOMAIN job.bonus \cup {row} |->
                          IF r = row THEN LineAt(term, r) ELSE job.bonus[r]]
              d == [top |-> job.top, cur |-> job.cur, dirty |-> job.dirty,
                    serial |-> job.force, seqno |-> session.seqno, bonus |-> bonus]
  <2>1. row \in Existing(term)
    <3>1. job.cur \in Nat /\ job.cur + 1 \in Nat /\ job.cur < job.cur + 1
      <4>1. job.cur \in Rows
        BY <1>11 DEF PushDelta
      <4>2. \A x \in Rows : x \in Nat /\ x + 1 \in Nat /\ x < x + 1
        BY Constants DEF Rows
      <4>. QED  BY <4>1, <4>2
    <3>2. ASSUME NEW c \in Nat
          PROVE  /\ StableRange(term, c, c + 1) \subseteq Existing(term)
                 /\ StableRange(term, c, c + 1) # {}
      <4>1. c + 1 \in Nat /\ c < c + 1
        OBVIOUS
      <4>. QED  BY <4>1, StableRows
    <3>. QED  BY <3>1, <3>2
  <2>2. row \in Rows /\ LineAt(term, row) \in Version
    BY <2>1, RowsOfTheTerminal
  <2>3. DOMAIN job.bonus \subseteq Rows /\ \A r \in DOMAIN job.bonus : job.bonus[r] \in Version
    BY <1>11, AnswerHas DEF PushDelta
  <2>4. bonus \in Answer
    <3>1. DOMAIN job.bonus \cup {row} \subseteq Rows
      BY <2>2, <2>3
    <3>2. bonus \in [DOMAIN job.bonus \cup {row} -> Version]
      BY <2>2, <2>3
    <3>. QED  BY <3>1, <3>2, AnswerIs
  <2>5. session.seqno \in Seqs
    BY <1>3 DEF Seqs
  <2>6. d \in Delta
    BY <1>11, <2>4, <2>5 DEF PushDelta, Delta
  <2>7. pushes' \in Seq(Delta)
    BY <1>3, <1>11, <2>6 DEF PushDelta
  <2>8. session' \in [top : -1 .. MaxTop, cur : Rows, seqno : 0 .. term.seq,
                      blind : 0 .. term.seq]
    <3>. DEFINE b == IF term.alt THEN session.seqno ELSE session.blind
    <3>1. b \in 0 .. term.seq /\ job.top \in -1 .. MaxTop /\ job.cur \in Rows
      BY <1>11, <1>12 DEF PushDelta
    <3>2. session' = [session EXCEPT !.top = job.top, !.cur = job.cur, !.blind = b]
      BY <1>11 DEF PushDelta
    <3>. HIDE DEF b
    <3>. QED  BY <1>3, <3>1, <3>2
  <2>9. job' \in Job
    BY <1>11 DEF PushDelta, Job
  <2>. QED  BY <1>2, <1>3, <1>11, <2>7, <2>8, <2>9 DEF PushDelta
<1>. QED  BY <1>5, <1>6, <1>7, <1>8, <1>9, <1>10, <1>11 DEF Serve

----------------------------------------------------------------------------
(* The cache and the fetches.                                               *)
LEMMA EntryIs ==
  /\ NoEntry \in Entry
  /\ \A v \in Content, n \in Seqs : Line(v, n) \in Entry
  /\ \A e \in Entry : MakeStale(e) \in Entry
  /\ \A e \in Entry, f \in FetchIds : Fetch(e, f) \in Entry
<1>1. NoEntry \in Entry
  BY DEF Entry
<1>2. \A v \in Content, n \in Seqs : Line(v, n) \in Entry
  BY DEF Entry, Line
<1>3. ASSUME NEW e \in Entry, Held(e) PROVE e.v \in Content /\ e.s \in Seqs
  BY <1>3 DEF Entry, Held, NoEntry
<1>4. \A e \in Entry : MakeStale(e) \in Entry
  BY <1>1, <1>3 DEF Entry, MakeStale
<1>5. \A e \in Entry, f \in FetchIds : Fetch(e, f) \in Entry
  BY <1>3 DEF Entry, Fetch
<1>. QED  BY <1>1, <1>2, <1>4, <1>5

(* The fields of a cache entry, by its kind.                                *)
LEMMA EntryShape ==
  ASSUME NEW e \in Entry
  PROVE  /\ e.k \in {"None", "Fetching", "Line", "Stale", "Both"}
         /\ Held(e) => e.v \in Content /\ e.s \in Seqs
         /\ e.k = "Both" => /\ e = [k |-> "Both", v |-> e.v, s |-> e.s, t |-> e.t]
                            /\ e.t \in FetchIds
  BY DEF Entry, Held, NoEntry

FetchRecord == [rows : (SUBSET Rows) \ {{}}, got : {"nothing", "lines", "error"}, ans : Answer]

FetchesOK(s) == DOMAIN s \subseteq FetchIds /\ \A f \in DOMAIN s : s[f] \in FetchRecord

(* schedule_fetch_lines starts a fetch under a free name or none.           *)
LEMMA ScheduledTypes ==
  ASSUME RenderTypeOK, NEW f, NEW rows, rows \subseteq Rows, rows # {} => f \in FetchIds
  PROVE  FetchesOK(Scheduled(f, rows))
<1>1. FetchesOK(fetches)
  BY DEF RenderTypeOK, FetchesOK, FetchRecord
<1>2. CASE rows = {}
  BY <1>1, <1>2 DEF Scheduled
<1>3. CASE rows # {}
  <2>1. [rows |-> rows, got |-> "nothing", ans |-> <<>>] \in FetchRecord
    <3>1. rows \in (SUBSET Rows) \ {{}}
      BY <1>3
    <3>. QED  BY <3>1, NoAnswer DEF FetchRecord
  <2>. QED  BY <1>1, <1>3, <2>1 DEF Scheduled, FetchesOK
<1>. QED  BY <1>2, <1>3

(* Versions are contents, and their numbers sequence numbers.               *)
LEMMA LineOfVersion ==
  ASSUME NEW v \in Version, NEW n \in Seqs
  PROVE  Line(v, v[2]) \in Entry /\ Line(v, Largest(v[2], n)) \in Entry
<1>1. v \in Content /\ v[2] \in Seqs
  BY DEF Version, Content
<1>2. Largest(v[2], n) \in Seqs
  BY <1>1 DEF Largest
<1>. QED  BY <1>1, <1>2, EntryIs

(* What the steps of the client and its user may change.                    *)
LEMMA ClientTypes ==
  ASSUME RenderTypeOK, UNCHANGED <<term, session, job>>,
         events' \in {events, events + 1}, events' <= MaxEvents,
         asked' \in [push : BOOLEAN, keys : Seq(Nat \ {NoKey})],
         pushes' \in Seq(Delta), FetchesOK(fetches'), lines' \in [Rows -> Entry],
         client' \in [top : 0 .. MaxTop, cur : Rows, seqno : Seqs, serial : Nat,
                     back : BOOLEAN, paint : BOOLEAN, left : SUBSET Rows]
  PROVE  RenderTypeOK'
<1>1. events' \in 0 .. MaxEvents
  BY TermShape, Constants
<1>2. term' \in [alt : BOOLEAN, top : 0 .. MaxTop, cur : Rows, seq : 1 .. events' + 1,
          main : [Rows -> 0 .. events' + 1], over : [0 .. H - 1 -> 0 .. events' + 1]]
  <2>1. \A x \in 0 .. events + 1 : x \in 0 .. events' + 1
    BY TermShape
  <2>2. /\ term.main \in [Rows -> 0 .. events' + 1]
        /\ term.over \in [0 .. H - 1 -> 0 .. events' + 1]
        /\ term.seq \in 1 .. events' + 1
    BY <2>1, TermShape
  <2>3. term = [alt |-> term.alt, top |-> term.top, cur |-> term.cur, seq |-> term.seq,
                main |-> term.main, over |-> term.over]
    BY DEF RenderTypeOK
  <2>. QED  BY <2>2, <2>3, TermShape, Constants
<1>3. /\ session' \in [top : -1 .. MaxTop, cur : Rows, seqno : 0 .. term'.seq,
                       blind : 0 .. term'.seq]
      /\ job' \in Job
  BY DEF RenderTypeOK
<1>. QED  BY <1>1, <1>2, <1>3 DEF RenderTypeOK, FetchesOK, FetchRecord

(* The variables of the client, one by one.                                 *)
LEMMA ClientShape ==
  ASSUME RenderTypeOK
  PROVE  /\ client \in [top : 0 .. MaxTop, cur : Rows, seqno : Seqs, serial : Nat,
                        back : BOOLEAN, paint : BOOLEAN, left : SUBSET Rows]
         /\ lines \in [Rows -> Entry]
         /\ asked \in [push : BOOLEAN, keys : Seq(Nat \ {NoKey})]
         /\ pushes \in Seq(Delta)
         /\ FetchesOK(fetches)
         /\ events \in Nat /\ events <= MaxEvents
  BY TermShape DEF RenderTypeOK, FetchesOK, FetchRecord

(* apply_changes_to_surface keeps the types.                                *)
LEMMA ApplyTypes ==
  ASSUME RenderTypeOK, NEW i \in 1 .. Len(pushes), NEW admitted \in BOOLEAN,
         Apply(i, admitted)
  PROVE  RenderTypeOK'
<1>. DEFINE d == pushes[i]
            dirty == (d.dirty \cup (IF d.cur # client.cur THEN {d.cur, client.cur}
                                                         ELSE {})) \ DOMAIN d.bonus
            want == {r \in dirty : r >= d.top}
            now == CHOOSE f \in Free : TRUE
<1>1. d \in Delta
  BY ClientShape
<1>2. /\ d.top \in 0 .. MaxTop /\ d.cur \in Rows /\ d.dirty \subseteq Rows
      /\ d.seqno \in Seqs /\ d.bonus \in Answer
  BY <1>1 DEF Delta
<1>3. want \subseteq Rows
  BY <1>2, ClientShape
<1>4. want # {} /\ admitted => now \in FetchIds
  BY DEF Apply, Free
<1>5. lines' \in [Rows -> Entry]
  <2>1. lines' = [r \in Rows |->
          IF r \in DOMAIN d.bonus THEN Line(d.bonus[r], d.bonus[r][2])
          ELSE IF r \in dirty \ want THEN NoEntry
          ELSE IF r \in want THEN
                 IF admitted THEN Fetch(lines[r], now) ELSE MakeStale(lines[r])
          ELSE lines[r]]
    BY DEF Apply
  <2>2. \A r \in DOMAIN d.bonus : Line(d.bonus[r], d.bonus[r][2]) \in Entry
    BY <1>2, AnswerHas, LineOfVersion
  <2>3. \A r \in Rows : lines[r] \in Entry
    BY ClientShape
  <2>4. \A r \in want : admitted => Fetch(lines[r], now) \in Entry
    BY <1>3, <1>4, <2>3, EntryIs
  <2>5. \A r \in Rows : MakeStale(lines[r]) \in Entry
    BY <2>3, EntryIs
  <2>. HIDE DEF want, dirty, now, d
  <2>. QED  BY <2>1, <2>2, <2>3, <2>4, <2>5, EntryIs
<1>6. FetchesOK(fetches')
  <2>1. fetches' = IF admitted THEN Scheduled(now, want) ELSE fetches
    BY DEF Apply
  <2>2. admitted => FetchesOK(Scheduled(now, want))
    <3>. HIDE DEF want, now
    <3>. QED  BY <1>3, <1>4, ScheduledTypes
  <2>. QED  BY <2>1, <2>2, ClientShape
<1>7. pushes' \in Seq(Delta)
  <2>1. SubSeq(pushes, 1, i - 1) \in Seq(Delta) /\ SubSeq(pushes, i + 1, Len(pushes)) \in Seq(Delta)
    BY ClientShape, SubSeqProperties
  <2>2. pushes' = SubSeq(pushes, 1, i - 1) \o SubSeq(pushes, i + 1, Len(pushes))
    BY DEF Apply, Dropped
  <2>. QED  BY <2>1, <2>2
<1>8. client' \in [top : 0 .. MaxTop, cur : Rows, seqno : Seqs, serial : Nat,
                  back : BOOLEAN, paint : BOOLEAN, left : SUBSET Rows]
  <2>1. client' = [client EXCEPT !.top = d.top, !.seqno = d.seqno, !.paint = TRUE,
          !.cur = IF d.serial = NoKey \/ d.serial >= client.serial THEN d.cur ELSE @,
          !.left = @ \ DOMAIN d.bonus]
    BY DEF Apply
  <2>. DEFINE gone == DOMAIN d.bonus
  <2>2. client' = [client EXCEPT !.top = d.top, !.seqno = d.seqno, !.paint = TRUE,
          !.cur = IF d.serial = NoKey \/ d.serial >= client.serial THEN d.cur ELSE @,
          !.left = @ \ gone]
    BY <2>1
  <2>. HIDE DEF d, gone
  <2>. QED  BY <1>2, <2>2, ClientShape
<1>9. UNCHANGED <<term, session, job, asked, events>>
  BY DEF Apply, ServerIsElsewhere
<1>. QED  BY <1>5, <1>6, <1>7, <1>8, <1>9, ClientShape, ClientTypes

(* apply_lines, and a fetch that fails, keep the types.                     *)
LEMMA FetchDoneTypes ==
  ASSUME RenderTypeOK, NEW f \in DOMAIN fetches, FetchDone(f) PROVE RenderTypeOK'
<1>. DEFINE rows == {r \in fetches[f].rows : Waits(lines[r], f)}
            ans == fetches[f].ans
<1>1. ans \in Answer
  BY ClientShape DEF FetchesOK, FetchRecord
<1>2. client.seqno \in Seqs
  BY ClientShape
<1>3. lines' \in [Rows -> Entry]
  <2>1. lines' = [r \in Rows |->
          IF r \notin rows THEN lines[r]
          ELSE IF fetches[f].got = "error"
               THEN IF Held(lines[r]) THEN Line(lines[r].v, lines[r].s) ELSE NoEntry
          ELSE IF r \in DOMAIN ans
               THEN Line(ans[r], Largest(ans[r][2], client.seqno))
          ELSE lines[r]]
    BY DEF FetchDone
  <2>2. \A r \in DOMAIN ans : Line(ans[r], Largest(ans[r][2], client.seqno)) \in Entry
    BY <1>1, <1>2, AnswerHas, LineOfVersion
  <2>3. \A r \in Rows : lines[r] \in Entry
    BY ClientShape
  <2>4. \A r \in Rows : Held(lines[r]) => Line(lines[r].v, lines[r].s) \in Entry
    BY <2>3, EntryIs, EntryShape
  <2>. HIDE DEF rows, ans
  <2>. QED  BY <2>1, <2>2, <2>3, <2>4, EntryIs
<1>4. FetchesOK(fetches')
  BY ClientShape DEF FetchDone, FetchesOK
<1>5. client' \in [top : 0 .. MaxTop, cur : Rows, seqno : Seqs, serial : Nat,
                  back : BOOLEAN, paint : BOOLEAN, left : SUBSET Rows]
  <2>. DEFINE kept == IF fetches[f].got = "lines" THEN client.left \ (rows \cap DOMAIN ans)
                      ELSE client.left
  <2>1. client' = [client EXCEPT !.paint = TRUE, !.left = kept]
    BY DEF FetchDone
  <2>2. kept \in SUBSET Rows
    BY ClientShape
  <2>. HIDE DEF kept
  <2>. QED  BY <2>1, <2>2, ClientShape
<1>6. UNCHANGED <<term, session, job, asked, pushes, events>>
  BY DEF FetchDone, ServerIsElsewhere
<1>. QED  BY <1>3, <1>4, <1>5, <1>6, ClientShape, ClientTypes

(* A repaint keeps the types.                                               *)
LEMMA PaintTypes ==
  ASSUME RenderTypeOK, NEW poll \in BOOLEAN, Paint(poll) PROVE RenderTypeOK'
<1>. DEFINE ahead == {r \in View : lines[r].k = "Line" /\ lines[r].s > client.seqno}
            wait == {r \in View : lines[r].k \in {"None", "Stale"}}
            now == CHOOSE f \in Free : TRUE
<1>1. ahead \cup wait # {} => now \in FetchIds
  BY DEF Paint, Free
<1>2. ahead \cup wait \subseteq Rows
  <2>1. \A r \in View : r \in Rows
    <3>1. client.top \in 0 .. MaxTop
      BY ClientShape
    <3>2. CASE client.back
      BY <3>2, Constants DEF View, Rows
    <3>3. CASE ~client.back
      BY <3>1, <3>3, Constants DEF View, Rows
    <3>. QED  BY <3>2, <3>3
  <2>. QED  BY <2>1
<1>3. lines' \in [Rows -> Entry]
  <2>1. lines' = [r \in Rows |-> IF r \in ahead THEN MakeStale(lines[r])
                                ELSE IF r \in wait THEN Fetch(lines[r], now)
                                ELSE lines[r]]
    BY DEF Paint
  <2>2. \A r \in Rows : lines[r] \in Entry
    BY ClientShape
  <2>3. \A r \in wait : Fetch(lines[r], now) \in Entry
    BY <1>1, <1>2, <2>2, EntryIs
  <2>. HIDE DEF ahead, wait, now
  <2>. QED  BY <2>1, <2>2, <2>3, EntryIs
<1>4. FetchesOK(fetches')
  <2>1. fetches' = Scheduled(now, ahead \cup wait)
    BY DEF Paint
  <2>. HIDE DEF ahead, wait, now
  <2>. QED  BY <1>1, <1>2, <2>1, ScheduledTypes
<1>5. asked' \in [push : BOOLEAN, keys : Seq(Nat \ {NoKey})]
  BY ClientShape DEF Paint
<1>6. client' \in [top : 0 .. MaxTop, cur : Rows, seqno : Seqs, serial : Nat,
                  back : BOOLEAN, paint : BOOLEAN, left : SUBSET Rows]
  BY ClientShape DEF Paint
<1>7. UNCHANGED <<term, session, job, pushes, events>>
  BY DEF Paint, ServerIsElsewhere
<1>. QED  BY <1>3, <1>4, <1>5, <1>6, <1>7, ClientShape, ClientTypes

(* A key with its prediction keeps the types.                               *)
LEMMA PressTypes ==
  ASSUME RenderTypeOK, NEW row \in Rows, NEW v \in Content, Press(row, v)
  PROVE  RenderTypeOK'
<1>. DEFINE e == lines[client.cur]
<1>1. client.cur \in Rows /\ e \in Entry
  BY ClientShape
<1>2. lines' \in [Rows -> Entry]
  <2>1. lines' = IF ~Held(e) THEN lines
          ELSE [lines EXCEPT ![client.cur] =
                  IF e.k = "Both" THEN [e EXCEPT !.v = v] ELSE Line(v, e.s)]
    BY DEF Press
  <2>2. Held(e) => Line(v, e.s) \in Entry
    BY <1>1, EntryIs, EntryShape
  <2>3. e.k = "Both" => [e EXCEPT !.v = v] \in Entry
    <3>1. e.k = "Both" => e \in [k : {"Both"}, v : Content, s : Seqs, t : FetchIds]
      BY <1>1 DEF Entry, NoEntry
    <3>2. e.k = "Both" =>
            [e EXCEPT !.v = v] \in [k : {"Both"}, v : Content, s : Seqs, t : FetchIds]
      BY <3>1
    <3>. QED  BY <3>2 DEF Entry
  <2>. HIDE DEF e
  <2>. QED  BY <1>1, <2>1, <2>2, <2>3, ClientShape
<1>3. client' \in [top : 0 .. MaxTop, cur : Rows, seqno : Seqs, serial : Nat,
                  back : BOOLEAN, paint : BOOLEAN, left : SUBSET Rows]
  <2>. DEFINE cur == IF Held(e) THEN row ELSE client.cur
              left == IF Held(e) /\ row # client.cur THEN client.left \cup {client.cur}
                      ELSE client.left
  <2>1. client' = [client EXCEPT !.serial = client.serial + 1, !.cur = cur, !.left = left]
    BY DEF Press
  <2>2. cur \in Rows /\ left \in SUBSET Rows /\ client.serial + 1 \in Nat
    BY ClientShape
  <2>. HIDE DEF e, cur, left
  <2>. QED  BY <2>1, <2>2, ClientShape
<1>4. asked' \in [push : BOOLEAN, keys : Seq(Nat \ {NoKey})]
  <2>1. asked' = [asked EXCEPT !.keys = Append(@, client.serial + 1)]
    BY DEF Press
  <2>2. asked.keys \in Seq(Nat \ {NoKey})
    BY ClientShape
  <2>3. client.serial + 1 \in Nat \ {NoKey}
    BY ClientShape DEF NoKey
  <2>4. Append(asked.keys, client.serial + 1) \in Seq(Nat \ {NoKey})
    BY <2>2, <2>3
  <2>. QED  BY <2>1, <2>4, ClientShape
<1>5. /\ UNCHANGED <<term, session, job, pushes, fetches>>
      /\ events' = events + 1 /\ events' <= MaxEvents
  BY TermShape, Constants DEF Press, Acts, Happens, ServerIsElsewhere
<1>. QED  BY <1>2, <1>3, <1>4, <1>5, ClientShape, ClientTypes

(* What the user does keeps the types.                                      *)
LEMMA UserTypes ==
  ASSUME RenderTypeOK, Text \/ Motion \/ Invalidate \/ ScrollView PROVE RenderTypeOK'
<1>1. client.cur \in Rows /\ lines[client.cur] \in Entry /\ Guess \in Content
  BY ClientShape DEF Content
<1>2. CASE Text
  BY <1>1, <1>2, PressTypes DEF Text
<1>3. CASE Motion
  <2>1. PICK row \in Rows :
          Press(row, IF Held(lines[client.cur]) THEN lines[client.cur].v ELSE Guess)
    BY <1>3 DEF Motion
  <2>2. (IF Held(lines[client.cur]) THEN lines[client.cur].v ELSE Guess) \in Content
    BY <1>1, EntryShape
  <2>. QED  BY <2>1, <2>2, PressTypes
<1>4. CASE Invalidate
  <2>1. \A r \in Rows : lines[r] \in Entry /\ MakeStale(lines[r]) \in Entry
    BY ClientShape, EntryIs
  <2>2. lines' \in [Rows -> Entry]
    BY <1>4, <2>1 DEF Invalidate
  <2>3. client' \in [top : 0 .. MaxTop, cur : Rows, seqno : Seqs, serial : Nat,
                    back : BOOLEAN, paint : BOOLEAN, left : SUBSET Rows]
    BY <1>4, ClientShape DEF Invalidate
  <2>4. /\ UNCHANGED <<term, session, job, pushes, fetches, asked>>
        /\ events' = events + 1 /\ events' <= MaxEvents
    BY <1>4, TermShape, Constants DEF Invalidate, Acts, Happens, ServerIsElsewhere
  <2>. QED  BY <2>2, <2>3, <2>4, ClientShape, ClientTypes
<1>5. CASE ScrollView
  <2>1. client' \in [top : 0 .. MaxTop, cur : Rows, seqno : Seqs, serial : Nat,
                    back : BOOLEAN, paint : BOOLEAN, left : SUBSET Rows]
    BY <1>5, ClientShape DEF ScrollView
  <2>2. /\ UNCHANGED <<term, session, job, pushes, fetches, asked, lines>>
        /\ events' = events + 1 /\ events' <= MaxEvents
    BY <1>5, TermShape, Constants DEF ScrollView, Acts, Happens, ServerIsElsewhere
  <2>. QED  BY <2>1, <2>2, ClientShape, ClientTypes
<1>. QED  BY <1>2, <1>3, <1>4, <1>5

(* The GetLines handler keeps the types.                                    *)
LEMMA AnswerFetchTypes ==
  ASSUME RenderTypeOK, NEW f \in DOMAIN fetches, AnswerFetch(f) PROVE RenderTypeOK'
<1>. DEFINE S == fetches[f].rows \cap Existing(term)
            a == [r \in S |-> LineAt(term, r)]
<1>1. a \in Answer
  BY RowsOfTheTerminal, AnswerIs
<1>2. fetches' = [fetches EXCEPT ![f].got = "lines", ![f].ans = a]
  BY DEF AnswerFetch
<1>3. FetchesOK(fetches')
  <2>. HIDE DEF a
  <2>1. [fetches[f] EXCEPT !.got = "lines", !.ans = a] \in FetchRecord
    BY <1>1, ClientShape DEF FetchesOK, FetchRecord
  <2>2. /\ DOMAIN fetches' = DOMAIN fetches
        /\ \A g \in DOMAIN fetches : fetches'[g] = IF g = f THEN [fetches[f] EXCEPT !.got = "lines", !.ans = a]
                                                  ELSE fetches[g]
    BY <1>2
  <2>. QED  BY <2>1, <2>2, ClientShape DEF FetchesOK
<1>4. UNCHANGED <<term, session, job, asked, pushes, lines, client, events>>
  BY DEF AnswerFetch
<1>. QED  BY <1>3, <1>4, ClientShape, ClientTypes

(* A lost connection keeps the types.                                       *)
LEMMA NewSessionTypes == ASSUME RenderTypeOK, NewSession PROVE RenderTypeOK'
<1>1. PICK kept : fetches' = [f \in DOMAIN fetches |->
                     IF f \in kept THEN fetches[f]
                     ELSE [fetches[f] EXCEPT !.got = "error", !.ans = <<>>]]
  BY DEF NewSession
<1>2. FetchesOK(fetches')
  <2>1. ASSUME NEW f \in DOMAIN fetches
        PROVE  /\ fetches[f] \in FetchRecord
               /\ [fetches[f] EXCEPT !.got = "error", !.ans = <<>>] \in FetchRecord
    <3>1. fetches[f] \in FetchRecord
      BY ClientShape DEF FetchesOK
    <3>. QED  BY <3>1, NoAnswer DEF FetchRecord
  <2>. QED  BY <1>1, <2>1, ClientShape DEF FetchesOK
<1>3. pushes' \in Seq(Delta)
  <2>1. PICK n \in 0 .. Len(pushes) : pushes' = SubSeq(pushes, 1, n)
    BY DEF NewSession
  <2>. QED  BY <2>1, ClientShape, SubSeqProperties
<1>4. session' \in [top : -1 .. MaxTop, cur : Rows, seqno : 0 .. term.seq,
                    blind : 0 .. term.seq]
  <2>1. session' = [top |-> -1, cur |-> 0, seqno |-> 0, blind |-> 0]
    BY DEF NewSession, Fresh
  <2>2. 0 \in Rows /\ 0 \in 0 .. term.seq /\ -1 \in -1 .. MaxTop
    BY TermShape, Constants DEF Rows
  <2>. QED  BY <2>1, <2>2
<1>5. job' \in Job /\ asked' \in [push : BOOLEAN, keys : Seq(Nat \ {NoKey})]
  <2>1. job' = NoJob /\ asked' = [push |-> FALSE, keys |-> <<>>]
    BY Zenon DEF NewSession
  <2>. QED  BY <2>1 DEF Job
<1>6. events' \in 0 .. MaxEvents /\ events' = events + 1 /\ UNCHANGED <<term, lines, client>>
  <2>1. events < MaxEvents /\ events' = events + 1 /\ UNCHANGED <<term, lines, client>>
    BY Zenon DEF NewSession, Happens
  <2>. QED  BY <2>1, TermShape, Constants
<1>7. term \in [alt : BOOLEAN, top : 0 .. MaxTop, cur : Rows, seq : 1 .. events' + 1,
          main : [Rows -> 0 .. events' + 1], over : [0 .. H - 1 -> 0 .. events' + 1]]
  <2>1. \A x \in 0 .. events + 1 : x \in 0 .. events' + 1
    BY <1>6, TermShape
  <2>2. /\ term.main \in [Rows -> 0 .. events' + 1]
        /\ term.over \in [0 .. H - 1 -> 0 .. events' + 1]
        /\ term.seq \in 1 .. events' + 1
    BY <1>6, <2>1, TermShape
  <2>3. term = [alt |-> term.alt, top |-> term.top, cur |-> term.cur, seq |-> term.seq,
                main |-> term.main, over |-> term.over]
    BY DEF RenderTypeOK
  <2>. QED  BY <2>2, <2>3, TermShape, Constants
<1>. QED  BY <1>2, <1>3, <1>4, <1>5, <1>6, <1>7, ClientShape
          DEF RenderTypeOK, FetchesOK, FetchRecord

(* So does every step.                                                      *)
LEMMA StepTypes == ASSUME RenderTypeOK, RenderNext PROVE RenderTypeOK'
<1>1. CASE AnswerFetches
  BY <1>1, AnswerFetchTypes DEF AnswerFetches
<1>2. CASE ApplyDelta
  BY <1>2, ApplyTypes DEF ApplyDelta
<1>3. CASE FetchesDone
  BY <1>3, FetchDoneTypes DEF FetchesDone
<1>4. CASE Paints
  BY <1>4, PaintTypes DEF Paints
<1>. QED  BY <1>1, <1>2, <1>3, <1>4, OutputTypes, ServeTypes, UserTypes, NewSessionTypes
          DEF RenderNext

(* Types, for every viewport, history, cache, way of entering the alternate *)
(* screen and prediction: no sequence number runs ahead of the terminal, no *)
(* delta or fetch names a row outside it, no fetch is for no row.           *)
THEOREM RenderTypeCorrect == RenderSpec => []RenderTypeOK
<1>1. RenderTypeOK /\ UNCHANGED renderVars => RenderTypeOK'
  BY DEF RenderTypeOK, renderVars
<1>. QED  BY <1>1, StartTypes, StepTypes, PTL DEF RenderSpec

----------------------------------------------------------------------------
(* Lines that are up to date.  Whether deltas can overtake each other is    *)
(* the only condition: programs use the alternate screen as they like, and  *)
(* any key is predicted.                                                    *)

(* The rows of either screen, and what a row shows when its screen is       *)
(* there: a row below the first screen belongs to the primary one.          *)
There(r) == r < H \/ r < term.top + H
V(r) == IF r < H THEN LineAt(term, r) ELSE <<"main", term.main[r]>>
N(r) == IF r < H THEN SeqAt(term, r) ELSE term.main[r]

(* The change of the row is still to be reported, by a computation to come  *)
(* or by the one under way; or it is passed over.                           *)
Due(r) ==
  \/ N(r) > session.seqno
  \/ job.pc = "dirty" /\ N(r) > job.old /\ r < job.top + H
  \/ job.pc = "lines" /\ r \in job.dirty
  \/ job.pc = "cursorline" /\ Named(job, r)
Comes(r) == Due(r) \/ PassedOver(r)

(* Row r is reported again after the first i deltas; the version v that the *)
(* client knows from before then is the terminal's, or will be replaced.    *)
After(i, r) == Comes(r) \/ \E j \in i + 1 .. Len(pushes) : Named(pushes[j], r)
Fine(i, r, v) == v = V(r) \/ After(i, r)

(* The client has a version of the row, or hears of it.                     *)
Known(r) ==
  \/ Held(lines[r])
  \/ \E f \in DOMAIN fetches : r \in DOMAIN fetches[f].ans
  \/ \E i \in 1 .. Len(pushes) : r \in DOMAIN pushes[i].bonus \/ r = pushes[i].cur

(* The answer to a key is on its way.                                       *)
KeyPending ==
  \/ asked.keys # <<>>
  \/ job.pc # "idle" /\ job.force # NoKey
  \/ \E i \in 1 .. Len(pushes) : pushes[i].serial # NoKey

(* Every row that is there has been written, none with a number to come;    *)
(* the terminal has the row of the cursor that a computation saw.           *)
Screen ==
  /\ \A r \in Rows : r < term.top + H => term.main[r] > 0
  /\ \A r \in Rows : term.main[r] <= term.seq
  /\ \A r \in 0 .. H - 1 : term.over[r] > 0 /\ term.over[r] <= term.seq
  /\ term.cur \in Viewport(term)
  /\ job.pc \notin {"idle", "cursor"} => There(job.cur)

(* A computation asks about each row that the client knows, unless it met   *)
(* the alternate screen.                                                    *)
Asks(r) == /\ There(r)
           /\ job.pc \in {"cursor", "seqno"} => r < job.top + H \/ (r >= H /\ job.alt)
Within == \A r \in Rows : Known(r) => Asks(r)

Computed ==
  job.pc = "cursorline" =>
    \A r \in DOMAIN job.bonus :
      There(r) /\ (job.bonus[r] = V(r) \/ N(r) > session.seqno \/ PassedOver(r))

Pushed ==
  \A i \in 1 .. Len(pushes) :
    /\ pushes[i].cur \in DOMAIN pushes[i].bonus \/ After(i, pushes[i].cur)
    /\ \A r \in DOMAIN pushes[i].bonus : Fine(i, r, pushes[i].bonus[r])

Fetched ==
  \A f \in DOMAIN fetches, r \in Rows : Waits(lines[r], f) =>
    /\ fetches[f].got = "lines" /\ r \in DOMAIN fetches[f].ans =>
         Fine(0, r, fetches[f].ans[r])
    /\ fetches[f].got = "error" /\ Held(lines[r]) => After(0, r)

Cached ==
  \A r \in Rows : lines[r].k = "Line" =>
    \/ Fine(0, r, lines[r].v)
    \/ lines[r].v = Guess /\ r = client.cur /\ KeyPending
    \/ r \in client.left

LinesInv == Screen /\ Within /\ Computed /\ Pushed /\ Fetched /\ Cached

(* Nothing is known to a client that attaches.                              *)
LEMMA LinesStart == ASSUME RenderInit PROVE LinesInv
<1>. USE Constants DEF RenderInit
<1>1. \A r \in Rows : ~Held(lines[r]) /\ lines[r].k # "Line"
  BY DEF Held, NoEntry
<1>2. Screen
  <2>1. \A r \in Rows : term.main[r] = IF r < StartTop + H THEN 1 ELSE 0
    OBVIOUS
  <2>2. term.cur \in Viewport(term)
    BY DEF Viewport, Top
  <2>. QED  BY <2>1, <2>2 DEF Screen, NoJob
<1>3. Within
  BY <1>1 DEF Within, Known
<1>4. Computed /\ Pushed /\ Fetched /\ Cached
  BY <1>1 DEF Computed, NoJob, Pushed, Fetched, Cached
<1>. QED  BY <1>2, <1>3, <1>4 DEF LinesInv

(* What the screen in front has is there, and shows what it should; the     *)
(* rows that are there and not in front are hidden by the alternate screen. *)
LEMMA RowsThere ==
  ASSUME RenderTypeOK, Screen, NEW r \in Rows
  PROVE  /\ r \in Existing(term) =>
              There(r) /\ V(r) = LineAt(term, r) /\ N(r) = SeqAt(term, r)
         /\ There(r) /\ (~term.alt \/ r < H) => r \in Existing(term)
         /\ There(r) => N(r) > 0
         /\ r \in Nat /\ N(r) \in Nat /\ N(r) <= term.seq
<1>. USE TermShape, Constants
<1>1. r \in Nat
  BY DEF Rows
<1>2. Existing(term) = 0 .. Top(term) + H - 1
  BY DEF Existing
<1>3. term.main[r] \in Nat /\ term.main[r] <= term.seq
  BY DEF Screen
<1>4. r < H => r \in 0 .. H - 1 /\ term.over[r] \in Nat
  BY <1>1
<1>5. CASE term.alt
  <2>1. Top(term) = 0
    BY <1>5 DEF Top
  <2>2. r \in Existing(term) <=> r < H
    BY <1>1, <1>2, <2>1
  <2>3. N(r) = IF r < H THEN term.over[r] ELSE term.main[r]
    BY <1>5 DEF N, SeqAt
  <2>. QED  BY <1>1, <1>3, <1>4, <1>5, <2>2, <2>3 DEF Screen, There, V, N
<1>6. CASE ~term.alt
  <2>1. Top(term) = term.top
    BY <1>6 DEF Top
  <2>2. r \in Existing(term) <=> r < term.top + H
    BY <1>1, <1>2, <2>1
  <2>3. N(r) = term.main[r] /\ SeqAt(term, r) = term.main[r]
    BY <1>6 DEF N, SeqAt
  <2>4. V(r) = LineAt(term, r)
    BY <1>6 DEF V, LineAt, SeqAt
  <2>5. There(r) <=> r < term.top + H
    BY <1>1 DEF There
  <2>. QED  BY <1>1, <1>3, <2>2, <2>3, <2>4, <2>5 DEF Screen
<1>. QED  BY <1>5, <1>6

----------------------------------------------------------------------------
(* A batch of output, field by field.                                       *)
Fields == {"alt", "top", "cur", "seq", "main", "over"}

(* The terminal is a record of these fields.                                *)
LEMMA TermFields == ASSUME RenderTypeOK PROVE DOMAIN term = Fields
  BY DEF RenderTypeOK, Fields

LEMMA BatchOf ==
  ASSUME RenderTypeOK, NEW t, DOMAIN t = Fields, Batch(t)
  PROVE  /\ UNCHANGED <<session, job, pushes, fetches, lines, client>>
         /\ UNCHANGED asked.keys
         /\ term'.alt = t.alt /\ term'.top = t.top /\ term'.cur = t.cur
         /\ term'.seq = term.seq + 1 /\ term'.main = t.main /\ term'.over = t.over
<1>1. UNCHANGED asked.keys
  <2>1. asked \in [push : BOOLEAN, keys : Seq(Nat \ {NoKey})]
    BY DEF RenderTypeOK
  <2>2. asked' = [asked EXCEPT !.push = TRUE]
    BY DEF Batch
  <2>. QED  BY <2>1, <2>2
<1>2. term' = [t EXCEPT !.seq = term.seq + 1]
  BY DEF Batch
<1>3. UNCHANGED <<session, job, pushes, fetches, lines, client>>
  BY DEF Batch
<1>. QED  BY <1>1, <1>2, <1>3 DEF Fields

(* The four kinds of batch.                                                 *)
LEMMA OutputIs ==
  ASSUME RenderTypeOK, Output
  PROVE  /\ UNCHANGED <<session, job, pushes, fetches, lines, client>>
         /\ UNCHANGED asked.keys
         /\ term'.seq = term.seq + 1
         /\ \/ /\ term.alt /\ term'.alt = term.alt /\ term'.top = term.top
               /\ term'.cur \in Viewport(term) /\ term'.main = term.main
               /\ \E row \in Viewport(term) : term'.over = Touch(term.over, {row})
            \/ /\ ~term.alt /\ term'.alt = term.alt /\ term'.top = term.top
               /\ term'.cur \in Viewport(term) /\ term'.over = term.over
               /\ \E row \in Viewport(term) : term'.main = Touch(term.main, {row})
            \/ /\ ~term.alt /\ term'.alt = term.alt /\ term'.top = term.top + 1
               /\ term'.cur = term.top + H /\ term'.over = term.over
               /\ term'.main = Touch(term.main, {term.top + H})
            \/ /\ ~term.alt /\ term'.alt = TRUE /\ term'.top = term.top /\ term'.cur = 0
               /\ term'.over = term.over \/ term'.over = Touch(term.over, 0 .. H - 1)
               /\ term'.main = Touch(term.main, 0 .. H - 1)
            \/ /\ term.alt /\ term'.alt = FALSE /\ term'.top = term.top
               /\ term'.cur \in Viewport([term EXCEPT !.alt = FALSE])
               /\ term'.over = term.over /\ term'.main = Touch(term.main, 0 .. H - 1)
<1>. USE TermFields
<1>1. CASE Write
  <2>1. PICK row \in Viewport(term), cc \in Viewport(term) :
          Batch(IF term.alt THEN [term EXCEPT !.over = Touch(@, {row}), !.cur = cc]
                            ELSE [term EXCEPT !.main = Touch(@, {row}), !.cur = cc])
    BY <1>1 DEF Write
  <2>2. CASE term.alt
    <3>. DEFINE t == [term EXCEPT !.over = Touch(@, {row}), !.cur = cc]
    <3>1. /\ DOMAIN t = Fields /\ t.alt = term.alt /\ t.top = term.top
          /\ t.cur = cc /\ t.main = term.main /\ t.over = Touch(term.over, {row})
      BY DEF Fields
    <3>2. Batch(t)
      BY <2>1, <2>2
    <3>. HIDE DEF t
    <3>. QED  BY <2>1, <2>2, <3>1, <3>2, BatchOf
  <2>3. CASE ~term.alt
    <3>. DEFINE t == [term EXCEPT !.main = Touch(@, {row}), !.cur = cc]
    <3>1. /\ DOMAIN t = Fields /\ t.alt = term.alt /\ t.top = term.top
          /\ t.cur = cc /\ t.main = Touch(term.main, {row}) /\ t.over = term.over
      BY DEF Fields
    <3>2. Batch(t)
      BY <2>1, <2>3
    <3>. HIDE DEF t
    <3>. QED  BY <2>1, <2>3, <3>1, <3>2, BatchOf
  <2>. QED  BY <2>2, <2>3
<1>2. CASE ScrollUp
  <2>. DEFINE t == [term EXCEPT !.top = @ + 1, !.main = Touch(@, {term.top + H}),
                                !.cur = term.top + H]
  <2>1. /\ DOMAIN t = Fields /\ t.alt = term.alt /\ t.top = term.top + 1
        /\ t.cur = term.top + H /\ t.main = Touch(term.main, {term.top + H})
        /\ t.over = term.over
    BY DEF Fields
  <2>2. Batch(t) /\ ~term.alt
    BY <1>2 DEF ScrollUp
  <2>. HIDE DEF t
  <2>. QED  BY <2>1, <2>2, BatchOf
<1>3. \A alt : /\ DOMAIN Switched(alt) = Fields
               /\ Switched(alt).alt = alt /\ Switched(alt).top = term.top
               /\ Switched(alt).main = Touch(term.main, 0 .. H - 1)
               /\ Switched(alt).over = term.over
  BY DEF Fields, Switched
<1>4. CASE EnterAlt
  <2>1. PICK mode \in AltScreens :
          Batch([Switched(TRUE) EXCEPT !.cur = 0,
                   !.over = IF mode = "clear" THEN Touch(@, 0 .. H - 1) ELSE @])
    BY <1>4 DEF EnterAlt
  <2>. DEFINE t == [Switched(TRUE) EXCEPT !.cur = 0,
                      !.over = IF mode = "clear" THEN Touch(@, 0 .. H - 1) ELSE @]
  <2>2. /\ DOMAIN t = Fields /\ t.alt = TRUE /\ t.top = term.top
        /\ t.cur = 0 /\ t.main = Touch(term.main, 0 .. H - 1)
        /\ t.over = term.over \/ t.over = Touch(term.over, 0 .. H - 1)
    BY <1>3 DEF Fields
  <2>3. Batch(t) /\ ~term.alt
    BY <1>4, <2>1 DEF EnterAlt
  <2>. HIDE DEF t
  <2>. QED  BY <2>2, <2>3, BatchOf
<1>5. CASE LeaveAlt
  <2>1. PICK cc \in Viewport([term EXCEPT !.alt = FALSE]) :
          Batch([Switched(FALSE) EXCEPT !.cur = cc])
    BY <1>5 DEF LeaveAlt
  <2>. DEFINE t == [Switched(FALSE) EXCEPT !.cur = cc]
  <2>2. /\ DOMAIN t = Fields /\ t.alt = FALSE /\ t.top = term.top
        /\ t.cur = cc /\ t.main = Touch(term.main, 0 .. H - 1) /\ t.over = term.over
    BY <1>3 DEF Fields
  <2>3. Batch(t) /\ term.alt
    BY <1>5, <2>1 DEF LeaveAlt
  <2>. HIDE DEF t
  <2>. QED  BY <2>1, <2>2, <2>3, BatchOf
<1>. QED  BY <1>1, <1>2, <1>4, <1>5 DEF Output

(* A batch leaves a row as it was or gives it the next number.              *)
LEMMA Touches ==
  ASSUME RenderTypeOK, NEW S
  PROVE  /\ \A r \in Rows :
              Touch(term.main, S)[r] = IF r \in S THEN term.seq + 1 ELSE term.main[r]
         /\ \A r \in 0 .. H - 1 :
              Touch(term.over, S)[r] = IF r \in S THEN term.seq + 1 ELSE term.over[r]
  BY TermShape DEF Touch

(* Together: what a batch does to the numbers of the rows.  The primary     *)
(* screen rests behind the other; a switch touches its first rows.          *)
LEMMA Batches ==
  ASSUME RenderTypeOK, Output
  PROVE  /\ UNCHANGED <<session, job, pushes, fetches, lines, client>>
         /\ UNCHANGED asked.keys
         /\ term'.seq = term.seq + 1
         /\ term'.top \in {term.top, term.top + 1}
         /\ \A r \in Rows : term'.main[r] \in {term.main[r], term.seq + 1}
         /\ \A r \in 0 .. H - 1 : term'.over[r] \in {term.over[r], term.seq + 1}
         /\ term'.top = term.top + 1 => term'.main[term.top + H] = term.seq + 1
         /\ \/ term'.alt = term.alt /\ (term.alt => term'.main = term.main)
            \/ \A r \in 0 .. H - 1 : term'.main[r] = term.seq + 1
<1>1. term.top + 1 # term.top
  BY TermShape
<1>2. term.top < MaxTop => term.top + H \in Rows
  <2>1. \A x \in Nat : x < MaxTop => x + H \in Rows
    BY Constants DEF Rows
  <2>. QED  BY <2>1, TermShape
<1>3. term'.top = term.top + 1 => term.top < MaxTop
  <2>1. term'.top \in 0 .. MaxTop
    <3>1. RenderTypeOK'
      BY OutputTypes
    <3>. QED  BY <3>1 DEF RenderTypeOK
  <2>. QED  BY <2>1, TermShape, Constants
<1>4. 0 .. H - 1 \subseteq Rows
  BY Constants DEF Rows
<1>5. /\ UNCHANGED <<session, job, pushes, fetches, lines, client>>
      /\ UNCHANGED asked.keys
      /\ term'.seq = term.seq + 1
      /\ term'.top \in {term.top, term.top + 1}
  BY OutputIs
<1>6. /\ \A r \in Rows : term'.main[r] \in {term.main[r], term.seq + 1}
      /\ \A r \in 0 .. H - 1 : term'.over[r] \in {term.over[r], term.seq + 1}
  <2>1. term'.main = term.main \/ \E S : term'.main = Touch(term.main, S)
    BY OutputIs
  <2>2. term'.over = term.over \/ \E S : term'.over = Touch(term.over, S)
    BY OutputIs
  <2>. QED  BY <2>1, <2>2, Touches
<1>7. ASSUME term'.top = term.top + 1 PROVE term'.main[term.top + H] = term.seq + 1
  <2>1. term'.main = Touch(term.main, {term.top + H})
    BY <1>1, <1>7, OutputIs
  <2>. QED  BY <1>2, <1>3, <1>7, <2>1, Touches
<1>8. \/ term'.alt = term.alt /\ (term.alt => term'.main = term.main)
      \/ term'.main = Touch(term.main, 0 .. H - 1)
  BY OutputIs
<1>9. \A r \in 0 .. H - 1 : Touch(term.main, 0 .. H - 1)[r] = term.seq + 1
  BY <1>4, Touches
<1>. QED  BY <1>5, <1>6, <1>7, <1>8, <1>9

(* The cursor stays in view.                                                *)
LEMMA CursorInView == ASSUME RenderTypeOK, Output PROVE term'.cur \in Viewport(term')
<1>1. /\ Viewport(term) = Top(term) .. Top(term) + H - 1
      /\ Viewport(term') = Top(term') .. Top(term') + H - 1
  BY DEF Viewport
<1>2. Viewport([term EXCEPT !.alt = FALSE]) = term.top .. term.top + H - 1
  BY TermFields DEF Viewport, Top, Fields
<1>3. term'.alt = term.alt /\ term'.top = term.top => Viewport(term') = Viewport(term)
  BY <1>1 DEF Top
<1>4. ~term'.alt => Viewport(term') = term'.top .. term'.top + H - 1
  BY <1>1 DEF Top
<1>5. term'.alt => Viewport(term') = 0 .. H - 1
  BY <1>1, Constants DEF Top
<1>6. /\ 0 \in 0 .. H - 1
      /\ term.top + H \in term.top + 1 .. term.top + 1 + H - 1
  BY Constants, TermShape
<1>. QED  BY <1>2, <1>3, <1>4, <1>5, <1>6, OutputIs

(* What is there stays there.                                               *)
LEMMA ThereStays ==
  ASSUME RenderTypeOK, Output, NEW r \in Rows, There(r) PROVE There(r)'
<1>1. r \in Nat /\ term.top \in Nat /\ term'.top \in {term.top, term.top + 1}
  BY Batches, TermShape DEF Rows
<1>. QED  BY <1>1, Constants DEF There

(* Rows that come into view have been written.                              *)
LEMMA ScreenAfterOutput == ASSUME RenderTypeOK, Screen, Output PROVE Screen'
<1>1. term.top \in Nat /\ term'.top \in {term.top, term.top + 1} /\ term.seq + 1 > 0
  BY Batches, TermShape
<1>2. ASSUME NEW r \in Rows, r < term'.top + H PROVE term'.main[r] > 0
  <2>1. r < term.top + H => term'.main[r] > 0
    BY <1>1, Batches DEF Screen
  <2>2. r < term.top + H \/ (term'.top = term.top + 1 /\ r = term.top + H)
    <3>1. \A x \in Nat : \A y \in {x, x + 1} :
            r < y + H => r < x + H \/ (y = x + 1 /\ r = x + H)
      BY Constants DEF Rows
    <3>. QED  BY <1>1, <1>2, <3>1
  <2>3. r = term.top + H /\ term'.top = term.top + 1 => term'.main[r] > 0
    BY <1>1, Batches
  <2>. QED  BY <2>1, <2>2, <2>3
<1>3. \A r \in 0 .. H - 1 : term'.over[r] > 0
  BY <1>1, Batches DEF Screen
<1>4. \A x \in Nat : \A y \in {x, term.seq + 1} : x <= term.seq => y <= term.seq + 1
  BY TermShape
<1>5. \A r \in Rows : term'.main[r] <= term'.seq
  <2>1. \A r \in Rows : term.main[r] \in Nat
    BY TermShape
  <2>. QED  BY <1>4, <2>1, Batches DEF Screen
<1>6. \A r \in 0 .. H - 1 : term'.over[r] <= term'.seq
  <2>1. \A r \in 0 .. H - 1 : term.over[r] \in Nat
    BY TermShape, Constants
  <2>. QED  BY <1>4, <2>1, Batches DEF Screen
<1>7. job'.pc \notin {"idle", "cursor"} => There(job.cur)'
  <2>1. job' = job
    BY Batches
  <2>2. job.pc \notin {"idle", "cursor"} => job.cur \in Rows /\ There(job.cur)
    BY JobShape DEF Screen
  <2>3. \A r \in Rows : There(r) => r < H \/ r < term'.top + H
    BY ThereStays DEF There
  <2>4. job.pc \notin {"idle", "cursor"} => job.cur < H \/ job.cur < term'.top + H
    BY <2>2, <2>3
  <2>. QED  BY <2>1, <2>4 DEF There
<1>. QED  BY <1>2, <1>3, <1>5, <1>6, <1>7, CursorInView DEF Screen

(* A row that is there is as it was, or newer than whatever was reported,   *)
(* or the alternate screen shows what it held before.                       *)
LEMMA Rewrites ==
  ASSUME RenderTypeOK, Screen, Output, NEW r \in Rows, There(r)
  PROVE  \/ V(r)' = V(r) /\ N(r)' = N(r) /\ (PassedOver(r) => PassedOver(r)')
         \/ N(r)' = term.seq + 1
         \/ PassedOver(r)'
<1>1. r \in Nat /\ term.main[r] \in Nat /\ term.seq \in Nat /\ session' = session
  <2>1. r \in Nat /\ term.main[r] \in Nat /\ term.seq \in Nat
    BY TermShape, Constants DEF Rows
  <2>. QED  BY <2>1, Batches
<1>2. term'.main[r] \in {term.main[r], term.seq + 1}
  BY Batches
<1>3. CASE r >= H
  <2>1. N(r) = term.main[r] /\ N(r)' = term'.main[r]
    BY <1>1, <1>3, Constants DEF N
  <2>2. V(r) = <<"main", term.main[r]>> /\ V(r)' = <<"main", term'.main[r]>>
    BY <1>1, <1>3, Constants DEF V
  <2>3. PassedOver(r) => term'.main[r] # term.main[r] \/ PassedOver(r)'
    BY <1>1, <1>3 DEF PassedOver
  <2>. QED  BY <1>2, <2>1, <2>2, <2>3
<1>4. CASE r < H
  <2>1. r \in 0 .. H - 1 /\ ~(r >= H)
    BY <1>1, <1>4, Constants
  <2>2. /\ term'.over[r] \in {term.over[r], term.seq + 1}
        /\ term.over[r] \in Nat /\ term.over[r] <= term.seq
    <3>1. term.over[r] \in Nat
      BY <2>1, TermShape, Constants
    <3>. QED  BY <2>1, <3>1, Batches DEF Screen
  <2>3. /\ N(r) = IF term.alt THEN term.over[r] ELSE term.main[r]
        /\ N(r)' = IF term'.alt THEN term'.over[r] ELSE term'.main[r]
        /\ V(r) = <<IF term.alt THEN "alt" ELSE "main", N(r)>>
        /\ V(r)' = <<IF term'.alt THEN "alt" ELSE "main", N(r)'>>
        /\ PassedOver(r) <=> term.alt /\ term.over[r] < term.main[r]
        /\ PassedOver(r)' <=> term'.alt /\ term'.over[r] < term'.main[r]
    BY <1>4, <2>1 DEF N, V, SeqAt, LineAt, PassedOver
  <2>4. CASE term'.alt = term.alt /\ (term.alt => term'.main = term.main)
    BY <1>2, <2>2, <2>3, <2>4
  <2>5. CASE term'.main[r] = term.seq + 1
    BY <1>1, <2>2, <2>3, <2>5
  <2>. QED  BY <2>1, <2>4, <2>5, Batches
<1>. QED  BY <1>1, <1>3, <1>4, Constants
----------------------------------------------------------------------------
(* What the steps of the server leave of the client's lines: a change that  *)
(* was to be reported still is, if only by a delta that was added.          *)
LEMMA FirstRows ==
  ASSUME NEW t, Top(t) \in Nat, NEW b \in Nat, 0 < b
  PROVE  StableRange(t, 0, b) = {r \in Existing(t) : r < b}
<1>. DEFINE n == Top(t) + H
<1>1. n \in Nat /\ n > 0 /\ Existing(t) = 0 .. n - 1
  BY Constants DEF Existing
<1>2. StableRange(t, 0, b) = IF 0 >= n THEN 0 .. (IF b - 0 < n THEN b - 0 ELSE n) - 1
          ELSE IF b > n THEN {r \in 0 .. n - 1 : r >= n - 1 - (b - 0)}
          ELSE 0 .. b - 1
  BY DEF StableRange
<1>. HIDE DEF n
<1>3. CASE b > n
  <2>1. StableRange(t, 0, b) = {r \in 0 .. n - 1 : r >= n - 1 - (b - 0)}
    BY <1>1, <1>2, <1>3
  <2>2. \A r \in 0 .. n - 1 : r >= n - 1 - (b - 0) /\ r < b
    BY <1>1, <1>3
  <2>. QED  BY <1>1, <2>1, <2>2
<1>4. CASE ~(b > n)
  <2>1. StableRange(t, 0, b) = 0 .. b - 1
    BY <1>1, <1>2, <1>4
  <2>2. \A r : r \in 0 .. b - 1 <=> r \in 0 .. n - 1 /\ r < b
    BY <1>1, <1>4
  <2>. QED  BY <1>1, <2>1, <2>2
<1>. QED  BY <1>3, <1>4

(* What get_changed_since finds: rows the terminal has, above the bottom of *)
(* the viewport that was read, newer than the session was.                  *)
LEMMA ChangedRows ==
  ASSUME Top(term) \in Nat, job.top \in Nat
  PROVE  Changed(job.old, job.top) =
           {r \in Existing(term) : r < job.top + H /\ SeqAt(term, r) > job.old}
<1>1. job.top + H \in Nat /\ 0 < job.top + H
  BY Constants
<1>2. StableRange(term, 0, job.top + H) = {r \in Existing(term) : r < job.top + H}
  BY <1>1, FirstRows
<1>. QED  BY <1>2 DEF Changed

(* A computation that meets the alternate screen passes over what it can    *)
(* not see, and what was passed over before stays so or is still due.       *)
LEMMA PassedOn ==
  ASSUME RenderTypeOK, NEW r \in Rows, term' = term, session'.seqno = session.seqno,
         session'.blind = IF term.alt THEN session.seqno ELSE session.blind
  PROVE  /\ PassedOver(r) => N(r) > session.seqno \/ PassedOver(r)'
         /\ r >= H /\ term.alt => N(r) > session.seqno \/ PassedOver(r)'
<1>1. r \in Nat /\ term.main[r] \in Nat /\ session.seqno \in Nat
  <2>1. session.seqno \in 0 .. term.seq
    BY DEF RenderTypeOK
  <2>2. r \in Nat /\ term.main[r] \in Nat
    BY TermShape, Constants DEF Rows
  <2>. QED  BY <2>1, <2>2, TermShape
<1>2. CASE r >= H
  <2>1. N(r) = term.main[r]
    BY <1>1, <1>2, Constants DEF N
  <2>. QED  BY <1>1, <1>2, <2>1 DEF PassedOver
<1>3. CASE ~(r >= H)
  BY <1>3 DEF PassedOver
<1>. QED  BY <1>2, <1>3

(* A step of the server that keeps what was coming keeps what is fine.      *)
LEMMA Carried ==
  ASSUME RenderTypeOK, Within, Pushed, Fetched, Cached,
         UNCHANGED <<lines, fetches, client>>,
         Len(pushes') \in Nat, Len(pushes) <= Len(pushes'),
         \A i \in 1 .. Len(pushes) : pushes'[i] = pushes[i],
         KeyPending => KeyPending',
         \A r \in Rows : Asks(r) =>
           /\ V(r)' = V(r) \/ Comes(r)'
           /\ Comes(r) => \/ Comes(r)'
                          \/ \E j \in Len(pushes) + 1 .. Len(pushes') : Named(pushes'[j], r)
  PROVE  /\ \A i \in 1 .. Len(pushes) :
              /\ pushes[i].cur \in DOMAIN pushes[i].bonus \/ After(i, pushes[i].cur)'
              /\ \A r \in DOMAIN pushes[i].bonus : Fine(i, r, pushes[i].bonus[r])'
         /\ Fetched' /\ Cached'
<1>1. Len(pushes) \in Nat
  BY ClientShape, LenProperties
<1>2. ASSUME NEW r \in Rows, Known(r), NEW i \in 0 .. Len(pushes), NEW v
      PROVE  /\ After(i, r) => After(i, r)'
             /\ Fine(i, r, v) => v = V(r)' \/ After(i, r)'
  <2>1. Asks(r)
    BY <1>2 DEF Within
  <2>2. \A j \in Len(pushes) + 1 .. Len(pushes') : j \in i + 1 .. Len(pushes')
    BY <1>1
  <2>3. \A j \in i + 1 .. Len(pushes) : j \in i + 1 .. Len(pushes') /\ pushes'[j] = pushes[j]
    BY <1>1
  <2>4. After(i, r) => After(i, r)'
    BY <2>1, <2>2, <2>3, <1>2 DEF After
  <2>5. V(r)' = V(r) \/ Comes(r)'
    BY <2>1, <1>2
  <2>. QED  BY <2>4, <2>5 DEF Fine, After
<1>3. 0 \in 0 .. Len(pushes)
  BY <1>1
<1>4. ASSUME NEW i \in 1 .. Len(pushes)
      PROVE  /\ pushes[i].cur \in DOMAIN pushes[i].bonus \/ After(i, pushes[i].cur)'
             /\ \A r \in DOMAIN pushes[i].bonus : Fine(i, r, pushes[i].bonus[r])'
  <2>1. pushes'[i] = pushes[i] /\ i \in 0 .. Len(pushes)
    BY <1>1
  <2>2. pushes[i].bonus \in Answer /\ pushes[i].cur \in Rows
    <3>1. pushes[i] \in Delta
      BY ClientShape, ElementOfSeq
    <3>. QED  BY <3>1 DEF Delta
  <2>3. ASSUME NEW r \in DOMAIN pushes[i].bonus
        PROVE  Fine(i, r, pushes[i].bonus[r])'
    <3>1. r \in Rows /\ Known(r)
      BY <2>2, AnswerHas DEF Known
    <3>2. Fine(i, r, pushes[i].bonus[r])
      BY <2>3 DEF Pushed
    <3>3. Fine(i, r, pushes[i].bonus[r]) => pushes[i].bonus[r] = V(r)' \/ After(i, r)'
      BY <1>2, <2>1, <3>1
    <3>. QED  BY <2>1, <3>2, <3>3 DEF Fine
  <2>4. After(i, pushes[i].cur) => After(i, pushes[i].cur)'
    <3>1. \A r \in Rows : Known(r) /\ After(i, r) => After(i, r)'
      BY <1>2, <2>1
    <3>2. Known(pushes[i].cur)
      BY DEF Known
    <3>3. \A r \in Rows : r = pushes[i].cur /\ After(i, r) => After(i, r)'
      BY <3>1, <3>2
    <3>. QED  BY <2>1, <2>2, <3>3 DEF After
  <2>. QED  BY <2>3, <2>4 DEF Pushed
<1>5. Fetched'
  <2>1. ASSUME NEW f \in DOMAIN fetches, NEW r \in Rows, Waits(lines[r], f)
        PROVE  /\ fetches[f].got = "lines" /\ r \in DOMAIN fetches[f].ans =>
                    fetches[f].ans[r] = V(r)' \/ After(0, r)'
               /\ fetches[f].got = "error" /\ Held(lines[r]) => After(0, r)'
    <3>1. ASSUME fetches[f].got = "lines", r \in DOMAIN fetches[f].ans
          PROVE  fetches[f].ans[r] = V(r)' \/ After(0, r)'
      <4>1. Fine(0, r, fetches[f].ans[r]) /\ Known(r)
        BY <2>1, <3>1 DEF Fetched, Known
      <4>. QED  BY <1>2, <1>3, <4>1
    <3>2. ASSUME fetches[f].got = "error", Held(lines[r]) PROVE After(0, r)'
      BY <1>2, <1>3, <2>1, <3>2 DEF Fetched, Known
    <3>. QED  BY <3>1, <3>2
  <2>. QED  BY <2>1 DEF Fetched, Fine
<1>6. Cached'
  <2>1. ASSUME NEW r \in Rows, lines[r].k = "Line"
        PROVE  \/ lines[r].v = V(r)' \/ After(0, r)'
               \/ lines[r].v = Guess /\ r = client.cur /\ KeyPending'
               \/ r \in client.left
    <3>1. Known(r)
      BY <2>1 DEF Known, Held
    <3>2. Fine(0, r, lines[r].v) => lines[r].v = V(r)' \/ After(0, r)'
      BY <1>2, <1>3, <2>1, <3>1
    <3>. QED  BY <2>1, <3>2 DEF Cached
  <2>. QED  BY <2>1 DEF Cached, Fine
<1>. QED  BY <1>4, <1>5, <1>6

(* Output between any two reads of compute_changes: what it changes is      *)
(* newer than the session has seen, so that it is still to be reported, or  *)
(* the alternate screen comes back with what it held.                       *)
LEMMA LinesAfterOutput == ASSUME RenderTypeOK, LinesInv, Output PROVE LinesInv'
<1>. USE DEF LinesInv
<1>1. UNCHANGED <<session, job, pushes, fetches, lines, client>> /\ UNCHANGED asked.keys
  BY Batches
<1>2. Screen'
  BY ScreenAfterOutput
<1>3. term.seq + 1 > session.seqno
  <2>1. session.seqno \in 0 .. term.seq
    BY DEF RenderTypeOK
  <2>. QED  BY <2>1, TermShape
<1>4. ASSUME NEW r \in Rows, There(r)
      PROVE  /\ There(r)'
             /\ V(r)' = V(r) \/ N(r)' > session.seqno \/ PassedOver(r)'
             /\ N(r) > session.seqno \/ PassedOver(r) => N(r)' > session.seqno \/ PassedOver(r)'
             /\ Comes(r) => Comes(r)'
  <2>1. There(r)'
    BY <1>4, ThereStays
  <2>2. CASE N(r)' = term.seq + 1
    BY <1>1, <1>3, <2>1, <2>2 DEF Comes, Due
  <2>3. CASE PassedOver(r)'
    BY <2>1, <2>3 DEF Comes
  <2>4. CASE V(r)' = V(r) /\ N(r)' = N(r) /\ (PassedOver(r) => PassedOver(r)')
    BY <1>1, <2>1, <2>4 DEF Comes, Due, Named
  <2>. QED  BY <1>4, <2>2, <2>3, <2>4, Rewrites
<1>5. Within'
  <2>1. \A r \in Rows : Known(r)' => Known(r)
    BY <1>1 DEF Known
  <2>2. \A r \in Rows : Asks(r) => Asks(r)'
    BY <1>1, <1>4 DEF Asks
  <2>. QED  BY <2>1, <2>2 DEF Within
<1>6. \A r \in Rows : Asks(r) => (V(r)' = V(r) \/ Comes(r)') /\ (Comes(r) => Comes(r)')
  BY <1>1, <1>4 DEF Asks, Comes, Due
<1>7. Computed'
  <2>1. ASSUME job.pc = "cursorline", NEW r \in DOMAIN job.bonus
        PROVE  /\ There(r)'
               /\ job.bonus[r] = V(r)' \/ N(r)' > session.seqno \/ PassedOver(r)'
    <3>1. r \in Rows
      BY <2>1, JobShape, AnswerHas
    <3>2. There(r) /\ (job.bonus[r] = V(r) \/ N(r) > session.seqno \/ PassedOver(r))
      BY <2>1 DEF Computed
    <3>. QED  BY <1>4, <3>1, <3>2
  <2>. QED  BY <1>1, <2>1 DEF Computed
<1>8. KeyPending => KeyPending'
  BY <1>1 DEF KeyPending
<1>9. Len(pushes') \in Nat /\ Len(pushes) <= Len(pushes') /\ pushes' = pushes
  BY <1>1, ClientShape, LenProperties
<1>10. /\ \A i \in 1 .. Len(pushes) :
            /\ pushes[i].cur \in DOMAIN pushes[i].bonus \/ After(i, pushes[i].cur)'
            /\ \A r \in DOMAIN pushes[i].bonus : Fine(i, r, pushes[i].bonus[r])'
       /\ Fetched' /\ Cached'
  BY <1>1, <1>6, <1>8, <1>9, Carried
<1>11. Pushed'
  BY <1>9, <1>10 DEF Pushed
<1>. QED  BY <1>2, <1>5, <1>7, <1>10, <1>11

(* The questions of compute_changes, one after the other.                   *)
LEMMA LinesAfterReads ==
  ASSUME RenderTypeOK, LinesInv, UNCHANGED <<term, pushes, fetches, lines, client>>,
         job'.pc \notin {"idle", "cursor"} => There(job.cur)',
         Computed', KeyPending => KeyPending',
         \A r \in Rows : Asks(r) =>
           /\ job'.pc \in {"cursor", "seqno"} => r < job'.top + H \/ (r >= H /\ job'.alt)
           /\ Comes(r) => Comes(r)'
  PROVE  LinesInv'
<1>. USE DEF LinesInv
<1>1. Screen'
  BY DEF Screen
<1>2. \A r : V(r)' = V(r) /\ (There(r)' <=> There(r))
  BY DEF V, There
<1>3. Within'
  BY <1>2 DEF Within, Asks, Known
<1>4. Len(pushes') \in Nat /\ Len(pushes) <= Len(pushes') /\ pushes' = pushes
  BY ClientShape, LenProperties
<1>5. /\ \A i \in 1 .. Len(pushes) :
           /\ pushes[i].cur \in DOMAIN pushes[i].bonus \/ After(i, pushes[i].cur)'
           /\ \A r \in DOMAIN pushes[i].bonus : Fine(i, r, pushes[i].bonus[r])'
      /\ Fetched' /\ Cached'
  BY <1>2, <1>4, Carried
<1>6. Pushed'
  BY <1>4, <1>5 DEF Pushed
<1>. QED  BY <1>1, <1>3, <1>5, <1>6

(* The computation asks about the viewport that it saw at its start.        *)
LEMMA LinesAfterStart ==
  ASSUME RenderTypeOK, LinesInv, StartPush \/ StartKey PROVE LinesInv'
<1>1. /\ job.pc = "idle" /\ job'.pc = "cursor"
      /\ job'.top = Top(term) /\ job'.alt = term.alt
  BY DEF StartPush, StartKey, Begin
<1>2. UNCHANGED <<term, session, pushes, fetches, lines, client>>
  BY DEF StartPush, StartKey, Begin, OnlyAsks
<1>3. KeyPending => KeyPending'
  <2>1. CASE StartPush
    <3>1. asked \in [push : BOOLEAN, keys : Seq(Nat \ {NoKey})]
      BY ClientShape
    <3>2. asked'.keys = asked.keys
      BY <2>1, <3>1 DEF StartPush
    <3>. QED  BY <1>1, <1>2, <3>2 DEF KeyPending
  <2>2. CASE StartKey
    <3>1. asked.keys \in Seq(Nat \ {NoKey}) /\ asked.keys # <<>>
      BY <2>2, ClientShape DEF StartKey
    <3>2. Head(asked.keys) \in Nat \ {NoKey}
      BY <3>1
    <3>3. job'.force = Head(asked.keys)
      BY <2>2 DEF StartKey, Begin
    <3>. QED  BY <1>1, <3>2, <3>3 DEF KeyPending
  <2>. QED  BY <2>1, <2>2
<1>4. ASSUME NEW r \in Rows, Asks(r) PROVE r < job'.top + H \/ (r >= H /\ job'.alt)
  <2>1. r \in Nat
    BY Constants DEF Rows
  <2>2. There(r)
    BY <1>4 DEF Asks
  <2>. QED  BY <1>1, <2>1, <2>2, TermShape, Constants DEF There, Top
<1>5. \A r : Comes(r) => Comes(r)'
  BY <1>1, <1>2 DEF Comes, Due, PassedOver, N
<1>6. Computed'
  BY <1>1 DEF Computed
<1>. QED  BY <1>1, <1>2, <1>3, <1>4, <1>5, <1>6, LinesAfterReads

(* Each read hands on what was coming: the number the session takes covers  *)
(* only what the read after it finds, or the row is passed over.            *)
LEMMA ReadHandsOn ==
  ASSUME RenderTypeOK, LinesInv, ReadCursor \/ ReadSeqno \/ ReadDirty \/ ReadLines,
         NEW r \in Rows, Asks(r), Comes(r)
  PROVE  Comes(r)'
<1>1. UNCHANGED term /\ N(r)' = N(r) /\ There(r)
  BY DEF ReadCursor, ReadSeqno, ReadDirty, ReadLines, OnlyAsks, N, Asks
<1>2. r \in Nat /\ N(r) \in Nat /\ N(r) <= term.seq
  BY RowsThere DEF LinesInv
<1>3. session.seqno \in 0 .. term.seq /\ job.pc # "idle" /\ job.top \in Nat
  BY JobShape DEF RenderTypeOK, ReadCursor, ReadSeqno, ReadDirty, ReadLines
<1>4. CASE ReadCursor
  <2>1. job.pc = "cursor" /\ UNCHANGED session
    BY <1>4 DEF ReadCursor
  <2>. QED  BY <1>1, <2>1 DEF Comes, Due, PassedOver
<1>5. CASE ReadSeqno
  <2>1. /\ job.pc = "seqno" /\ job'.pc = "dirty"
        /\ job'.old = session.seqno /\ job'.top = job.top
        /\ session'.blind = IF job.alt THEN term.seq ELSE session.blind
    <3>1. session' = [session EXCEPT !.seqno = term.seq,
                                     !.blind = IF job.alt THEN term.seq ELSE session.blind]
      BY <1>5 DEF ReadSeqno
    <3>2. session \in [top : -1 .. MaxTop, cur : Rows, seqno : 0 .. term.seq,
                       blind : 0 .. term.seq]
      BY DEF RenderTypeOK
    <3>3. session'.blind = IF job.alt THEN term.seq ELSE session.blind
      BY <3>1, <3>2
    <3>. QED  BY <1>5, <3>3 DEF ReadSeqno
  <2>2. CASE PassedOver(r)
    BY <1>1, <1>2, <2>1, <2>2, TermShape, Constants DEF Comes, PassedOver, N
  <2>3. CASE N(r) > session.seqno /\ r < job.top + H
    BY <1>1, <2>1, <2>3 DEF Comes, Due
  <2>4. CASE r >= H /\ job.alt
    <3>1. N(r) = term.main[r]
      BY <1>2, <2>4, Constants DEF N
    <3>. QED  BY <1>1, <1>2, <2>1, <2>4, <3>1 DEF Comes, PassedOver
  <2>. QED  BY <2>1, <2>2, <2>3, <2>4 DEF Comes, Due, Asks
<1>6. CASE ReadDirty
  <2>1. /\ job.pc = "dirty" /\ session'.seqno = session.seqno
        /\ session'.blind = IF term.alt THEN session.seqno ELSE session.blind
        /\ Changed(job.old, job.top) # {} =>
             job'.pc = "lines" /\ job'.dirty = Changed(job.old, job.top)
    BY <1>6 DEF ReadDirty
  <2>2. N(r) > session.seqno => Comes(r)'
    BY <1>1, <2>1 DEF Comes, Due
  <2>3. PassedOver(r) \/ (r >= H /\ term.alt) => Comes(r)'
    BY <1>1, <2>1, <2>2, PassedOn DEF Comes
  <2>4. ASSUME N(r) > job.old, r < job.top + H, ~term.alt \/ r < H PROVE Comes(r)'
    <3>1. r \in Existing(term) /\ SeqAt(term, r) = N(r)
      BY <1>1, <2>4, RowsThere DEF LinesInv
    <3>2. r \in Changed(job.old, job.top)
      BY <1>3, <2>4, <3>1, ChangedRows, RowsOfTheTerminal
    <3>. QED  BY <2>1, <3>2 DEF Comes, Due
  <2>. QED  BY <1>2, <2>1, <2>2, <2>3, <2>4, Constants DEF Comes, Due
<1>7. CASE ReadLines
  <2>1. job.pc = "lines" /\ UNCHANGED session
    BY <1>7 DEF ReadLines
  <2>2. r \in job.dirty => job'.pc = "cursorline" /\ (r \in job'.dirty \/ r \in DOMAIN job'.bonus)
    BY <1>7 DEF ReadLines
  <2>. QED  BY <1>1, <2>1, <2>2 DEF Comes, Due, Named, PassedOver
<1>. QED  BY <1>4, <1>5, <1>6, <1>7

(* The reads before the delta is pushed.                                    *)
LEMMA LinesAfterRead ==
  ASSUME RenderTypeOK, LinesInv, ReadCursor \/ ReadSeqno \/ ReadDirty \/ ReadLines
  PROVE  LinesInv'
<1>1. UNCHANGED <<term, asked, pushes, fetches, lines, client>>
  BY DEF ReadCursor, ReadSeqno, ReadDirty, ReadLines, OnlyAsks
<1>2. job.pc # "idle" /\ job.top \in Nat
  BY JobShape DEF ReadCursor, ReadSeqno, ReadDirty, ReadLines
<1>3. job'.pc \in {"cursor", "seqno"} =>
        job.pc \in {"cursor", "seqno"} /\ job'.top = job.top /\ job'.alt = job.alt
  BY DEF ReadCursor, ReadSeqno, ReadDirty, ReadLines, NoJob
<1>4. job'.pc # "idle" => job'.force = job.force
  BY DEF ReadCursor, ReadSeqno, ReadDirty, ReadLines, NoJob
<1>5. job'.pc \notin {"idle", "cursor"} => There(job.cur)'
  <2>1. There(term.cur)
    <3>1. term.cur \in Viewport(term)
      BY DEF LinesInv, Screen
    <3>. QED  BY <3>1, TermShape, Constants DEF Viewport, Top, There
  <2>2. job'.pc \notin {"idle", "cursor"} =>
          job'.cur = term.cur \/ (job.pc # "cursor" /\ job'.cur = job.cur)
    BY DEF ReadCursor, ReadSeqno, ReadDirty, ReadLines, NoJob
  <2>3. job.pc \notin {"idle", "cursor"} => There(job.cur)
    BY DEF LinesInv, Screen
  <2>. QED  BY <1>1, <1>2, <2>1, <2>2, <2>3 DEF There
<1>6. job'.pc = "idle" => job.force = NoKey
  BY DEF ReadCursor, ReadSeqno, ReadDirty, ReadLines, NoJob
<1>7. KeyPending => KeyPending'
  BY <1>1, <1>4, <1>6 DEF KeyPending
<1>8. Computed'
  <2>1. ASSUME job'.pc = "cursorline", NEW r \in DOMAIN job'.bonus
        PROVE  There(r) /\ job'.bonus[r] = V(r)
    <3>1. ReadLines
      BY <2>1 DEF ReadCursor, ReadSeqno, ReadDirty, ReadLines, NoJob
    <3>2. r \in StableRange(term, job.top, job.top + H) /\ job'.bonus[r] = LineAt(term, r)
      BY <2>1, <3>1 DEF ReadLines
    <3>3. job.top + H \in Nat /\ job.top < job.top + H
      BY <1>2, Constants
    <3>4. r \in Existing(term) /\ r \in Rows
      BY <1>2, <3>2, <3>3, StableRows, RowsOfTheTerminal
    <3>. QED  BY <3>2, <3>4, RowsThere DEF LinesInv
  <2>2. ASSUME job'.pc = "cursorline", NEW r \in DOMAIN job'.bonus
        PROVE  There(r)' /\ job'.bonus[r] = V(r)'
    BY <1>1, <2>1, <2>2 DEF There, V
  <2>. QED  BY <2>2 DEF Computed
<1>9. \A r \in Rows : Asks(r) =>
        /\ job'.pc \in {"cursor", "seqno"} => r < job'.top + H \/ (r >= H /\ job'.alt)
        /\ Comes(r) => Comes(r)'
  BY <1>3, ReadHandsOn DEF Asks
<1>. QED  BY <1>1, <1>5, <1>7, <1>8, <1>9, LinesAfterReads

(* The delta that is pushed: it carries the line of the cursor, unless the  *)
(* alternate screen hides it, and what changed since a line was read will   *)
(* be reported again.                                                       *)
LEMMA LinesAfterPush == ASSUME RenderTypeOK, LinesInv, PushDelta PROVE LinesInv'
<1>. DEFINE row == CHOOSE r \in StableRange(term, job.cur, job.cur + 1) : TRUE
            bonus == [r \in DOMAIN job.bonus \cup {row} |->
                        IF r = row THEN LineAt(term, r) ELSE job.bonus[r]]
            d == [top |-> job.top, cur |-> job.cur, dirty |-> job.dirty,
                  serial |-> job.force, seqno |-> session.seqno, bonus |-> bonus]
            n == Len(pushes)
<1>1. /\ job.pc = "cursorline" /\ job' = NoJob /\ pushes' = Append(pushes, d)
      /\ session' = [session EXCEPT !.top = job.top, !.cur = job.cur,
                       !.blind = IF term.alt THEN session.seqno ELSE @]
      /\ UNCHANGED <<term, asked, fetches, lines, client>>
  BY DEF PushDelta, OnlyAsks
<1>2. /\ session'.seqno = session.seqno
      /\ session'.blind = IF term.alt THEN session.seqno ELSE session.blind
  <2>1. session \in [top : -1 .. MaxTop, cur : Rows, seqno : 0 .. term.seq,
                     blind : 0 .. term.seq]
    BY DEF RenderTypeOK
  <2>. QED  BY <1>1, <2>1
<1>3. job.cur \in Rows /\ job.cur \in Nat /\ job.cur + 1 \in Nat /\ job.cur < job.cur + 1
  <2>1. \A x \in Rows : x \in Nat /\ x + 1 \in Nat /\ x < x + 1
    BY Constants DEF Rows
  <2>. QED  BY <1>1, <2>1, JobShape
<1>4. row \in StableRange(term, job.cur, job.cur + 1) /\ row \in Existing(term) /\ row \in Rows
  <2>1. /\ StableRange(term, job.cur, job.cur + 1) # {}
        /\ StableRange(term, job.cur, job.cur + 1) \subseteq Existing(term)
    BY <1>3, StableRows
  <2>. QED  BY <2>1, RowsOfTheTerminal
<1>5. There(job.cur)
  BY <1>1 DEF LinesInv, Screen
<1>6. ~term.alt \/ job.cur < H => row = job.cur
  <2>1. ASSUME ~term.alt \/ job.cur < H PROVE job.cur + 1 <= Top(term) + H
    <3>1. job.cur \in Existing(term)
      BY <1>3, <1>5, <2>1, RowsThere DEF LinesInv
    <3>2. job.cur \in 0 .. Top(term) + H - 1
      BY <3>1 DEF Existing
    <3>. QED  BY <3>2, RowsOfTheTerminal, Constants
  <2>2. ~term.alt \/ job.cur < H =>
          StableRange(term, job.cur, job.cur + 1) = job.cur .. job.cur + 1 - 1
    BY <1>3, <2>1, StableRows
  <2>3. job.cur .. job.cur + 1 - 1 = {job.cur}
    BY <1>3
  <2>. QED  BY <1>4, <2>2, <2>3
<1>. HIDE DEF row
<1>7. /\ DOMAIN bonus = DOMAIN job.bonus \cup {row}
      /\ \A r \in DOMAIN bonus : bonus[r] = IF r = row THEN LineAt(term, r) ELSE job.bonus[r]
      /\ DOMAIN bonus \subseteq Rows
  BY <1>1, <1>4, JobShape, AnswerHas
<1>8. /\ n \in Nat /\ Len(pushes') = n + 1 /\ pushes'[n + 1] = d
      /\ \A i \in 1 .. n : pushes'[i] = pushes[i]
  <2>1. pushes \in Seq(Delta)
    BY ClientShape
  <2>. QED  BY <1>1, <2>1
<1>9. d.bonus = bonus /\ d.cur = job.cur /\ d.serial = job.force /\ d.dirty = job.dirty
  OBVIOUS
<1>. HIDE DEF d, bonus, n
<1>10. ASSUME NEW r \in DOMAIN bonus
       PROVE  There(r) /\ (bonus[r] = V(r) \/ N(r) > session.seqno \/ PassedOver(r))
  <2>1. CASE r = row
    BY <1>4, <1>7, <2>1, RowsThere DEF LinesInv
  <2>2. CASE r # row
    BY <1>1, <1>7, <1>10, <2>2 DEF LinesInv, Computed
  <2>. QED  BY <2>1, <2>2
<1>11. job'.pc = "idle"
  BY <1>1 DEF NoJob
<1>12. \A r : V(r)' = V(r) /\ N(r)' = N(r) /\ (There(r)' <=> There(r))
  BY <1>1 DEF V, N, There
<1>13. ASSUME NEW r \in Rows
       PROVE  /\ N(r) > session.seqno \/ PassedOver(r) => Comes(r)'
              /\ r >= H /\ term.alt => Comes(r)'
  <2>1. N(r) > session.seqno => Comes(r)'
    BY <1>2, <1>12 DEF Comes, Due
  <2>. QED  BY <1>1, <1>2, <2>1, PassedOn DEF Comes
<1>14. Screen' /\ Computed'
  BY <1>1, <1>11 DEF LinesInv, Screen, Computed
<1>15. KeyPending => KeyPending'
  <2>1. \A i \in 1 .. n : i \in 1 .. n + 1
    BY <1>8
  <2>2. n + 1 \in 1 .. n + 1
    BY <1>8
  <2>. QED  BY <1>1, <1>8, <1>9, <2>1, <2>2 DEF KeyPending, n
<1>16. Within'
  <2>1. ASSUME NEW r \in Rows, Known(r)' PROVE There(r)
    <3>1. CASE Known(r)
      BY <2>1, <3>1 DEF LinesInv, Within, Asks
    <3>2. CASE ~Known(r)
      <4>1. PICK i \in 1 .. n + 1 : r \in DOMAIN pushes'[i].bonus \/ r = pushes'[i].cur
        BY <1>1, <1>8, <2>1, <3>2 DEF Known
      <4>2. i = n + 1
        BY <1>8, <3>2, <4>1 DEF Known, n
      <4>. QED  BY <1>5, <1>8, <1>9, <1>10, <4>1, <4>2
    <3>. QED  BY <3>1, <3>2
  <2>. QED  BY <1>11, <1>12, <2>1 DEF Within, Asks
<1>17. \A r \in Rows : Comes(r) => \/ Comes(r)'
                                   \/ \E j \in n + 1 .. Len(pushes') : Named(pushes'[j], r)
  <2>1. n + 1 \in n + 1 .. Len(pushes')
    BY <1>8
  <2>2. \A r \in Rows : Named(job, r) => Named(d, r)
    BY <1>7, <1>9 DEF Named
  <2>3. \A r \in Rows : Comes(r) => N(r) > session.seqno \/ PassedOver(r) \/ Named(job, r)
    BY <1>1 DEF Comes, Due
  <2>. QED  BY <1>8, <1>13, <2>1, <2>2, <2>3
<1>18. Len(pushes') \in Nat /\ Len(pushes) <= Len(pushes')
  BY <1>8 DEF n
<1>19. /\ \A i \in 1 .. n :
            /\ pushes[i].cur \in DOMAIN pushes[i].bonus \/ After(i, pushes[i].cur)'
            /\ \A r \in DOMAIN pushes[i].bonus : Fine(i, r, pushes[i].bonus[r])'
       /\ Fetched' /\ Cached'
  BY <1>1, <1>8, <1>12, <1>15, <1>17, <1>18, Carried DEF LinesInv, n
<1>20. Pushed'
  <2>1. ASSUME NEW c \in Rows, c = d.cur PROVE c \in DOMAIN d.bonus \/ Comes(c)'
    <3>1. c \in Nat /\ c = job.cur
      BY <1>3, <1>9, <2>1
    <3>2. ~(c >= H /\ term.alt) => c \in DOMAIN d.bonus
      BY <1>6, <1>7, <1>9, <3>1, Constants
    <3>. QED  BY <1>13, <2>1, <3>2
  <2>2. \A r \in DOMAIN d.bonus : d.bonus[r] = V(r)' \/ Comes(r)'
    BY <1>7, <1>9, <1>10, <1>12, <1>13
  <2>3. ASSUME NEW i \in 1 .. n
        PROVE  /\ pushes'[i].cur \in DOMAIN pushes'[i].bonus \/ After(i, pushes[i].cur)'
               /\ \A r \in DOMAIN pushes'[i].bonus : Fine(i, r, pushes[i].bonus[r])'
    BY <1>8, <1>19, <2>3
  <2>4. ASSUME NEW i, i = n + 1
        PROVE  /\ pushes'[i].cur \in DOMAIN pushes'[i].bonus \/ After(i, pushes[i].cur)'
               /\ \A r \in DOMAIN pushes'[i].bonus : Fine(i, r, pushes[i].bonus[r])'
    <3>1. pushes'[i] = d /\ d.cur \in Rows
      BY <1>3, <1>8, <1>9, <2>4
    <3>. QED  BY <2>1, <2>2, <3>1 DEF Fine, After
  <2>5. \A i \in 1 .. n + 1 : i \in 1 .. n \/ i = n + 1
    BY <1>8
  <2>. QED  BY <1>8, <2>3, <2>4, <2>5 DEF Pushed
<1>. QED  BY <1>14, <1>16, <1>19, <1>20 DEF LinesInv

(* All the steps of the main thread of the server.                          *)
LEMMA LinesAfterServe == ASSUME RenderTypeOK, LinesInv, Serve PROVE LinesInv'
  BY LinesAfterStart, LinesAfterRead, LinesAfterPush DEF Serve

(* The answer to a fetch is what the terminal shows now.                    *)
LEMMA LinesAfterAnswer ==
  ASSUME RenderTypeOK, LinesInv, NEW f \in DOMAIN fetches, AnswerFetch(f)
  PROVE  LinesInv'
<1>1. /\ UNCHANGED <<term, session, job, asked, pushes, lines, client>>
      /\ job.pc = "idle" /\ fetches[f].got = "nothing"
      /\ DOMAIN fetches' = DOMAIN fetches
      /\ \A g \in DOMAIN fetches \ {f} : fetches'[g] = fetches[g]
  BY DEF AnswerFetch
<1>2. /\ fetches'[f].got = "lines"
      /\ DOMAIN fetches'[f].ans \subseteq Existing(term)
      /\ \A r \in DOMAIN fetches'[f].ans : fetches'[f].ans[r] = LineAt(term, r)
  <2>1. fetches[f] \in FetchRecord
    BY ClientShape DEF FetchesOK
  <2>2. fetches'[f] = [fetches[f] EXCEPT !.got = "lines",
          !.ans = [r \in fetches[f].rows \cap Existing(term) |-> LineAt(term, r)]]
    BY DEF AnswerFetch
  <2>. QED  BY <2>1, <2>2 DEF FetchRecord
<1>3. \A r \in DOMAIN fetches'[f].ans : There(r) /\ fetches'[f].ans[r] = V(r)
  BY <1>2, RowsOfTheTerminal, RowsThere DEF LinesInv
<1>4. \A r : V(r)' = V(r) /\ (There(r)' <=> There(r)) /\ (Comes(r)' <=> Comes(r))
  BY <1>1 DEF Comes, Due, PassedOver, V, N, There
<1>5. \A i, r : After(i, r)' <=> After(i, r)
  BY <1>1, <1>4 DEF After
<1>6. Screen' /\ Computed'
  BY <1>1 DEF LinesInv, Screen, Computed, There, V, N, PassedOver
<1>7. Within'
  <2>1. ASSUME NEW r \in Rows, Known(r)' PROVE There(r)
    <3>1. CASE Known(r)
      BY <2>1, <3>1 DEF LinesInv, Within, Asks
    <3>2. CASE ~Known(r)
      BY <1>1, <1>3, <2>1, <3>2 DEF Known
    <3>. QED  BY <3>1, <3>2
  <2>. QED  BY <1>1, <1>4, <2>1 DEF Within, Asks
<1>8. Pushed'
  BY <1>1, <1>4, <1>5 DEF LinesInv, Pushed, Fine
<1>9. Cached'
  <2>1. KeyPending' <=> KeyPending
    BY <1>1 DEF KeyPending
  <2>2. ASSUME NEW r \in Rows, lines[r].k = "Line"
        PROVE  \/ lines[r].v = V(r)' \/ After(0, r)'
               \/ lines[r].v = Guess /\ r = client.cur /\ KeyPending
               \/ r \in client.left
    BY <1>4, <1>5, <2>2 DEF LinesInv, Cached, Fine
  <2>. QED  BY <1>1, <2>1, <2>2 DEF Cached, Fine
<1>10. Fetched'
  <2>1. ASSUME NEW g \in DOMAIN fetches, NEW r \in Rows, Waits(lines[r], g)
        PROVE  /\ fetches'[g].got = "lines" /\ r \in DOMAIN fetches'[g].ans =>
                    fetches'[g].ans[r] = V(r)' \/ After(0, r)'
               /\ fetches'[g].got = "error" /\ Held(lines[r]) => After(0, r)'
    <3>1. CASE g = f
      BY <1>2, <1>3, <1>4, <3>1
    <3>2. CASE g # f
      BY <1>1, <1>4, <1>5, <2>1, <3>2 DEF LinesInv, Fetched, Fine
    <3>. QED  BY <3>1, <3>2
  <2>2. \A g \in DOMAIN fetches' : g \in DOMAIN fetches
    BY <1>1
  <2>. QED  BY <1>1, <2>1, <2>2 DEF Fetched, Fine
<1>. QED  BY <1>6, <1>7, <1>8, <1>9, <1>10 DEF LinesInv

----------------------------------------------------------------------------
(* The steps of the client.  What they leave to show for a row depends on   *)
(* its entry and on the fetches that the entry waits for.                   *)
LEMMA Unmoved ==
  ASSUME LinesInv, UNCHANGED <<term, session, job>>,
         \A r \in Rows : Known(r)' => Known(r)
  PROVE  /\ Screen' /\ Computed' /\ Within'
         /\ \A r : V(r)' = V(r) /\ (Comes(r)' <=> Comes(r))
<1>1. \A r : /\ V(r)' = V(r) /\ N(r)' = N(r) /\ (There(r)' <=> There(r))
             /\ PassedOver(r)' <=> PassedOver(r)
             /\ Comes(r)' <=> Comes(r)
  BY DEF V, N, There, Comes, Due, PassedOver
<1>2. Screen' /\ Computed' /\ Within'
  BY <1>1 DEF LinesInv, Screen, There, Computed, Within, Asks
<1>. QED  BY <1>1, <1>2

Waited(r, f) ==
  /\ fetches[f].got = "lines" /\ r \in DOMAIN fetches[f].ans => Fine(0, r, fetches[f].ans[r])
  /\ fetches[f].got = "error" /\ Held(lines[r]) => After(0, r)

(* Entries that show nothing for good and wait for nothing answered.        *)
Quiet(e, F) == e.k # "Line" /\ \A f \in DOMAIN F : Waits(e, f) => F[f].got = "nothing"

(* The cache and its fetches are fine when each row is.                     *)
LEMMA RowByRow ==
  ASSUME \A r \in Rows :
           \/ Quiet(lines'[r], fetches')
           \/ /\ lines'[r].k = "Line" => \/ Fine(0, r, lines[r].v)'
                                         \/ lines'[r].v = Guess /\ r = client'.cur /\ KeyPending'
                                         \/ r \in client'.left
              /\ \A f \in DOMAIN fetches' : Waits(lines'[r], f) => Waited(r, f)'
  PROVE  Fetched' /\ Cached'
<1>1. Cached'
  BY DEF Cached, Quiet
<1>2. Fetched'
  BY DEF Fetched, Quiet, Waited
<1>. QED  BY <1>1, <1>2

(* A line that the cache fetches, or only marks.                            *)
LEMMA EntrySteps ==
  ASSUME NEW e \in Entry
  PROVE  /\ Held(MakeStale(e)) <=> Held(e)
         /\ MakeStale(e).k # "Line" /\ \A f \in FetchIds : ~Waits(MakeStale(e), f)
         /\ \A f : /\ Held(Fetch(e, f)) <=> Held(e)
                   /\ Fetch(e, f).k # "Line" /\ \A g : Waits(Fetch(e, f), g) => g = f
         /\ \A v, s : Held(Line(v, s)) /\ Line(v, s).v = v /\ \A f : ~Waits(Line(v, s), f)
         /\ ~Held(NoEntry) /\ NoEntry.k # "Line" /\ \A f : ~Waits(NoEntry, f)
  BY DEF Held, MakeStale, Fetch, Waits, Line, NoEntry

(* A fetch that was not under way before has not been answered.             *)
LEMMA ScheduledIs ==
  ASSUME NEW now, NEW rows, NEW f \in DOMAIN Scheduled(now, rows)
  PROVE  LET F == Scheduled(now, rows)
         IN  \/ f \in DOMAIN fetches /\ F[f] = fetches[f] /\ (rows # {} => f # now)
             \/ rows # {} /\ f = now /\ F[f].got = "nothing" /\ DOMAIN F[f].ans = {}
  BY DEF Scheduled

(* The next delta names a row and brings its line, or has the client fetch  *)
(* or forget it; what it does not name will still be reported.              *)
LEMMA LinesAfterApply ==
  ASSUME RenderTypeOK, LinesInv, NEW admitted \in BOOLEAN, 1 \in 1 .. Len(pushes),
         Apply(1, admitted)
  PROVE  LinesInv'
<1>. DEFINE d == pushes[1]
            dirty == (d.dirty \cup (IF d.cur # client.cur THEN {d.cur, client.cur}
                                                   ELSE {})) \ DOMAIN d.bonus
            want == {r \in dirty : r >= d.top}
            now == CHOOSE f \in Free : TRUE
            n == Len(pushes)
<1>1. /\ UNCHANGED <<term, session, job, asked>>
      /\ want # {} /\ admitted => Free # {}
      /\ pushes' = Dropped(pushes, 1)
      /\ fetches' = IF admitted THEN Scheduled(now, want) ELSE fetches
      /\ lines' = [r \in Rows |->
          IF r \in DOMAIN d.bonus THEN Line(d.bonus[r], d.bonus[r][2])
          ELSE IF r \in dirty \ want THEN NoEntry
          ELSE IF r \in want THEN
                 IF admitted THEN Fetch(lines[r], now) ELSE MakeStale(lines[r])
          ELSE lines[r]]
      /\ client' = [client EXCEPT !.top = d.top, !.seqno = d.seqno, !.paint = TRUE,
          !.cur = IF d.serial = NoKey \/ d.serial >= client.serial THEN d.cur ELSE @,
          !.left = @ \ DOMAIN d.bonus]
  BY DEF Apply, ServerIsElsewhere
<1>2. /\ n \in Nat /\ n >= 1 /\ Len(pushes') = n - 1
      /\ \A i \in 1 .. n - 1 : pushes'[i] = pushes[i + 1]
  <2>1. pushes \in Seq(Delta) /\ n \in Nat /\ n >= 1
    BY ClientShape, LenProperties
  <2>2. pushes' = SubSeq(pushes, 1, 0) \o SubSeq(pushes, 2, n)
    BY <1>1 DEF Dropped
  <2>3. pushes' = Tail(pushes)
    BY <2>1, <2>2
  <2>. QED  BY <2>1, <2>3
<1>3. d \in Delta /\ DOMAIN d.bonus \subseteq Rows
  <2>1. d \in Delta
    BY ClientShape, ElementOfSeq
  <2>. QED  BY <2>1, AnswerHas DEF Delta
<1>4. /\ client'.cur = IF d.serial = NoKey \/ d.serial >= client.serial THEN d.cur ELSE client.cur
      /\ client'.left = client.left \ DOMAIN d.bonus
  BY <1>1, ClientShape
<1>5. admitted /\ want # {} => now \in Free
  BY <1>1
<1>6. ASSUME NEW f \in DOMAIN fetches'
      PROVE  \/ /\ f \in DOMAIN fetches /\ fetches'[f] = fetches[f]
                /\ admitted /\ want # {} => f # now
             \/ /\ admitted /\ want # {} /\ f = now /\ fetches'[f].got = "nothing"
                /\ DOMAIN fetches'[f].ans = {}
  <2>. HIDE DEF want, now
  <2>1. CASE admitted
    BY <1>1, <1>6, <2>1, ScheduledIs
  <2>2. CASE ~admitted
    BY <1>1, <1>6, <2>2
  <2>. QED  BY <2>1, <2>2
<1>7. DOMAIN fetches' \subseteq FetchIds
  <2>1. \A f \in Free : f \in FetchIds
    BY DEF Free
  <2>. QED  BY <1>5, <1>6, <2>1, ClientShape DEF FetchesOK
<1>8. \A r \in Rows : lines[r] \in Entry
  BY ClientShape
<1>9. \A r \in Rows : lines'[r] = IF r \in DOMAIN d.bonus THEN Line(d.bonus[r], d.bonus[r][2])
          ELSE IF r \in dirty \ want THEN NoEntry
          ELSE IF r \in want THEN
                 IF admitted THEN Fetch(lines[r], now) ELSE MakeStale(lines[r])
          ELSE lines[r]
  BY <1>1
<1>10. \A r : r \in dirty <=> r \notin DOMAIN d.bonus /\
                  (r \in d.dirty \/ (d.cur # client.cur /\ r \in {d.cur, client.cur}))
  OBVIOUS
<1>11. \A r \in DOMAIN d.bonus : r \in DOMAIN pushes[1].bonus /\ d.bonus[r] = pushes[1].bonus[r]
  OBVIOUS
<1>12. want \subseteq dirty
  OBVIOUS
<1>13. ASSUME NEW r, NEW i \in 0 .. n - 1, After(i + 1, r)
       PROVE  Comes(r) \/ \E j \in i + 1 .. Len(pushes') : Named(pushes'[j], r)
  <2>1. CASE Comes(r)
    BY <2>1
  <2>2. ASSUME NEW j \in i + 1 + 1 .. n, Named(pushes[j], r)
        PROVE  \E k \in i + 1 .. Len(pushes') : Named(pushes'[k], r)
    <3>1. j - 1 \in i + 1 .. n - 1 /\ j - 1 \in 1 .. n - 1 /\ j - 1 + 1 = j
      BY <1>2
    <3>. QED  BY <1>2, <2>2, <3>1
  <2>. QED  BY <1>13, <2>1, <2>2 DEF After
<1>14. ASSUME NEW r, After(0, r), ~Named(d, r)
       PROVE  Comes(r) \/ \E j \in 1 .. Len(pushes') : Named(pushes'[j], r)
  <2>1. \A j \in 0 + 1 .. n : j = 1 \/ j \in 0 + 1 + 1 .. n
    BY <1>2
  <2>2. After(0 + 1, r)
    BY <1>14, <2>1 DEF After
  <2>. QED  BY <1>2, <1>13, <2>2
<1>15. d.cur \in DOMAIN d.bonus \/ After(1, d.cur)
  BY <1>2 DEF LinesInv, Pushed
<1>16. ASSUME NEW r \in DOMAIN d.bonus PROVE Fine(1, r, d.bonus[r])
  BY <1>2, <1>16 DEF LinesInv, Pushed
<1>. HIDE DEF d, dirty, want, now, n
<1>17. \A r \in Rows : Known(r)' => Known(r)
  <2>1. ASSUME NEW r \in Rows, Held(lines'[r]) PROVE Known(r)
    <3>1. CASE r \in DOMAIN d.bonus
      BY <1>2, <1>11, <3>1 DEF Known, n
    <3>2. CASE r \notin DOMAIN d.bonus
      BY <1>8, <1>9, <2>1, <3>2, EntrySteps DEF Known
    <3>. QED  BY <3>1, <3>2
  <2>2. ASSUME NEW r \in Rows, NEW f \in DOMAIN fetches', r \in DOMAIN fetches'[f].ans
        PROVE  Known(r)
    BY <1>6, <2>2 DEF Known
  <2>3. ASSUME NEW r \in Rows, NEW i \in 1 .. Len(pushes'),
               r \in DOMAIN pushes'[i].bonus \/ r = pushes'[i].cur
        PROVE  Known(r)
    <3>1. i \in 1 .. n - 1 /\ i + 1 \in 1 .. n
      BY <1>2
    <3>. QED  BY <1>2, <2>3, <3>1 DEF Known, n
  <2>. QED  BY <2>1, <2>2, <2>3 DEF Known
<1>18. /\ Screen' /\ Computed' /\ Within'
       /\ \A r : V(r)' = V(r) /\ (Comes(r)' <=> Comes(r))
  BY <1>1, <1>17, Unmoved
<1>19. Pushed'
  <2>1. ASSUME NEW i \in 1 .. Len(pushes')
        PROVE  /\ pushes'[i].cur \in DOMAIN pushes'[i].bonus \/ After(i, pushes[i].cur)'
               /\ \A r \in DOMAIN pushes'[i].bonus : pushes'[i].bonus[r] = V(r)' \/ After(i, r)'
    <3>1. i \in 0 .. n - 1 /\ i \in 1 .. n - 1 /\ i + 1 \in 1 .. n
      BY <1>2
    <3>2. pushes'[i] = pushes[i + 1]
      BY <1>2, <3>1
    <3>3. /\ pushes[i + 1].cur \in DOMAIN pushes[i + 1].bonus \/ After(i + 1, pushes[i + 1].cur)
          /\ \A r \in DOMAIN pushes[i + 1].bonus :
               pushes[i + 1].bonus[r] = V(r) \/ After(i + 1, r)
      BY <3>1 DEF LinesInv, Pushed, Fine, n
    <3>4. \A r : After(i + 1, r) => After(i, r)'
      BY <1>13, <1>18, <3>1 DEF After
    <3>. QED  BY <1>18, <3>2, <3>3, <3>4 DEF After
  <2>. QED  BY <2>1 DEF Pushed, Fine
<1>20. ASSUME NEW r \in Rows
       PROVE  \/ Quiet(lines'[r], fetches')
              \/ /\ lines'[r].k = "Line" => \/ Fine(0, r, lines[r].v)'
                                            \/ lines'[r].v = Guess /\ r = client'.cur /\ KeyPending'
                                            \/ r \in client'.left
                 /\ \A f \in DOMAIN fetches' : Waits(lines'[r], f) => Waited(r, f)'
  <2>1. CASE r \in DOMAIN d.bonus
    <3>1. lines'[r] = Line(d.bonus[r], d.bonus[r][2])
      BY <1>9, <2>1
    <3>2. lines'[r].v = d.bonus[r] /\ \A f : ~Waits(lines'[r], f)
      BY <3>1 DEF Line, Waits
    <3>3. d.bonus[r] = V(r) \/ After(0 + 1, r)
      BY <1>16, <1>20, <2>1 DEF Fine
    <3>4. 0 \in 0 .. n - 1
      BY <1>2
    <3>5. lines'[r].v = V(r)' \/ After(0, r)'
      BY <1>13, <1>18, <3>2, <3>3, <3>4 DEF After
    <3>. QED  BY <3>2, <3>5 DEF Fine
  <2>2. CASE r \in dirty \ want
    <3>1. lines'[r] = NoEntry
      BY <1>9, <1>10, <2>2
    <3>. QED  BY <1>8, <3>1, EntrySteps DEF Quiet
  <2>3. CASE r \in want /\ ~admitted
    <3>1. lines'[r] = MakeStale(lines[r])
      BY <1>9, <1>10, <1>12, <2>3
    <3>. QED  BY <1>7, <1>8, <3>1, EntrySteps DEF Quiet
  <2>4. CASE r \in want /\ admitted
    <3>1. lines'[r] = Fetch(lines[r], now)
      BY <1>9, <1>10, <1>12, <2>4
    <3>2. \A f \in DOMAIN fetches' : f = now => fetches'[f].got = "nothing"
      BY <1>6, <2>4
    <3>. QED  BY <1>8, <3>1, <3>2, EntrySteps DEF Quiet
  <2>5. CASE r \notin DOMAIN d.bonus /\ r \notin dirty
    <3>1. lines'[r] = lines[r]
      BY <1>9, <1>12, <2>5
    <3>2. ~Named(d, r)
      BY <1>10, <2>5 DEF Named
    <3>3. After(0, r) => After(0, r)'
      BY <1>14, <1>18, <3>2 DEF After
    <3>4. ASSUME lines[r].k = "Line"
          PROVE  lines[r].v = V(r)' \/ After(0, r)' \/ r \in client'.left
      <4>1. ASSUME r = client.cur PROVE After(0, r)'
        <5>1. d.cur = r /\ After(0 + 1, r)
          BY <1>10, <1>15, <2>5, <4>1
        <5>2. 0 \in 0 .. n - 1
          BY <1>2
        <5>. QED  BY <1>13, <1>18, <5>1, <5>2 DEF After
      <4>. QED  BY <1>4, <1>18, <1>20, <2>5, <3>3, <3>4, <4>1 DEF LinesInv, Cached, Fine
    <3>5. ASSUME NEW f \in DOMAIN fetches', Waits(lines[r], f)
          PROVE  /\ fetches'[f].got = "lines" /\ r \in DOMAIN fetches'[f].ans =>
                      fetches'[f].ans[r] = V(r)' \/ After(0, r)'
                 /\ fetches'[f].got = "error" /\ Held(lines[r]) => After(0, r)'
      <4>1. f \in DOMAIN fetches /\ fetches'[f] = fetches[f]
        BY <1>5, <1>6, <3>5 DEF Free
      <4>. QED  BY <1>18, <1>20, <3>3, <3>5, <4>1 DEF LinesInv, Fetched, Fine
    <3>. QED  BY <3>1, <3>4, <3>5 DEF Waited, Fine
  <2>. QED  BY <1>12, <2>1, <2>2, <2>3, <2>4, <2>5
<1>21. Fetched' /\ Cached'
  BY <1>20, RowByRow
<1>. QED  BY <1>18, <1>19, <1>21 DEF LinesInv

(* A step of the client that leaves the deltas alone.                       *)
LEMMA LinesAfterLocal ==
  ASSUME LinesInv, UNCHANGED <<term, session, job, pushes>>,
         KeyPending => KeyPending',
         \A r \in Rows : Held(lines'[r]) => Held(lines[r]) \/ Known(r),
         \A f \in DOMAIN fetches' :
           DOMAIN fetches'[f].ans = {} \/ (f \in DOMAIN fetches /\ fetches'[f] = fetches[f]),
         \A r \in Rows :
           \/ Quiet(lines'[r], fetches')
           \/ /\ lines'[r].k = "Line" =>
                   \/ Fine(0, r, lines'[r].v)
                   \/ lines'[r].v = Guess /\ r = client'.cur /\ KeyPending'
                   \/ r \in client'.left
              /\ \A f \in DOMAIN fetches' : Waits(lines'[r], f) =>
                   /\ f \in DOMAIN fetches /\ fetches'[f] = fetches[f]
                   /\ Waits(lines[r], f) /\ (Held(lines'[r]) => Held(lines[r]))
  PROVE  LinesInv'
<1>1. \A r \in Rows : Known(r)' => Known(r)
  BY DEF Known
<1>2. /\ Screen' /\ Computed' /\ Within'
      /\ \A r : V(r)' = V(r) /\ (Comes(r)' <=> Comes(r))
  BY <1>1, Unmoved
<1>3. \A i, r : After(i, r)' <=> After(i, r)
  BY <1>2 DEF After
<1>4. Pushed'
  BY <1>2, <1>3 DEF LinesInv, Pushed, Fine
<1>5. ASSUME NEW r \in Rows
      PROVE  \/ Quiet(lines'[r], fetches')
             \/ /\ lines'[r].k = "Line" => \/ Fine(0, r, lines[r].v)'
                                           \/ lines'[r].v = Guess /\ r = client'.cur /\ KeyPending'
                                           \/ r \in client'.left
                /\ \A f \in DOMAIN fetches' : Waits(lines'[r], f) => Waited(r, f)'
  <2>1. Fine(0, r, lines'[r].v) => Fine(0, r, lines[r].v)'
    BY <1>2, <1>3 DEF Fine
  <2>2. ASSUME NEW f \in DOMAIN fetches', f \in DOMAIN fetches, fetches'[f] = fetches[f],
               Waits(lines[r], f), Held(lines'[r]) => Held(lines[r])
        PROVE  Waited(r, f)'
    BY <1>2, <1>3, <1>5, <2>2 DEF LinesInv, Fetched, Waited, Fine
  <2>. QED  BY <1>5, <2>1, <2>2
<1>6. Fetched' /\ Cached'
  BY <1>5, RowByRow
<1>. QED  BY <1>2, <1>4, <1>6 DEF LinesInv

(* An answer replaces a line only where the entry still waits for it; a     *)
(* failed fetch makes a stale line good again, which is why it must be      *)
(* reported.                                                                *)
LEMMA LinesAfterFetch ==
  ASSUME RenderTypeOK, LinesInv, NEW f \in DOMAIN fetches, FetchDone(f) PROVE LinesInv'
<1>. DEFINE rows == {r \in fetches[f].rows : Waits(lines[r], f)}
            ans == fetches[f].ans
<1>1. /\ UNCHANGED <<term, session, job, asked, pushes>>
      /\ fetches[f].got # "nothing"
      /\ \A r \in Rows : lines'[r] =
          IF r \notin rows THEN lines[r]
          ELSE IF fetches[f].got = "error"
               THEN IF Held(lines[r]) THEN Line(lines[r].v, lines[r].s) ELSE NoEntry
          ELSE IF r \in DOMAIN ans
               THEN Line(ans[r], Largest(ans[r][2], client.seqno))
          ELSE lines[r]
      /\ fetches' = [g \in DOMAIN fetches \ {f} |-> fetches[g]]
      /\ client' = [client EXCEPT !.paint = TRUE,
          !.left = IF fetches[f].got = "lines" THEN @ \ (rows \cap DOMAIN ans) ELSE @]
  BY DEF FetchDone, ServerIsElsewhere
<1>2. /\ client'.cur = client.cur
      /\ client'.left = IF fetches[f].got = "lines" THEN client.left \ (rows \cap DOMAIN ans)
                        ELSE client.left
  BY <1>1, ClientShape
<1>3. DOMAIN fetches' \subseteq DOMAIN fetches /\ f \notin DOMAIN fetches'
      /\ \A g \in DOMAIN fetches' : fetches'[g] = fetches[g]
  BY <1>1
<1>4. KeyPending => KeyPending'
  BY <1>1 DEF KeyPending
<1>5. fetches[f].got \in {"error", "lines"}
  BY <1>1, ClientShape DEF FetchesOK, FetchRecord
<1>6. \A r \in rows : Waits(lines[r], f)
  OBVIOUS
<1>7. \A r \in Rows : lines[r] \in Entry
  BY ClientShape
<1>. HIDE DEF rows
<1>8. ASSUME NEW r \in Rows PROVE Held(lines'[r]) => Held(lines[r]) \/ Known(r)
  <2>1. CASE fetches[f].got = "error" \/ r \notin rows \/ r \notin DOMAIN ans
    BY <1>1, <1>7, <2>1, EntrySteps
  <2>2. CASE r \in DOMAIN ans
    BY <2>2 DEF Known
  <2>. QED  BY <2>1, <2>2
<1>9. ASSUME NEW r \in Rows
      PROVE  \/ Quiet(lines'[r], fetches')
             \/ /\ lines'[r].k = "Line" =>
                     \/ Fine(0, r, lines'[r].v)
                     \/ lines'[r].v = Guess /\ r = client'.cur /\ KeyPending'
                     \/ r \in client'.left
                /\ \A g \in DOMAIN fetches' : Waits(lines'[r], g) =>
                     /\ g \in DOMAIN fetches /\ fetches'[g] = fetches[g]
                     /\ Waits(lines[r], g) /\ (Held(lines'[r]) => Held(lines[r]))
  <2>1. CASE lines'[r] = lines[r] /\ (r \in client.left => r \in client'.left)
    BY <1>2, <1>3, <1>4, <1>9, <2>1 DEF LinesInv, Cached
  <2>2. CASE r \in rows /\ fetches[f].got = "error" /\ Held(lines[r])
    <3>1. lines'[r] = Line(lines[r].v, lines[r].s)
      BY <1>1, <2>2
    <3>2. After(0, r)
      BY <1>6, <1>9, <2>2 DEF LinesInv, Fetched
    <3>. QED  BY <1>7, <3>1, <3>2, EntrySteps DEF Fine
  <2>3. CASE r \in rows /\ fetches[f].got = "error" /\ ~Held(lines[r])
    <3>1. lines'[r] = NoEntry
      BY <1>1, <2>3
    <3>. QED  BY <1>7, <3>1, EntrySteps DEF Quiet
  <2>4. CASE r \in rows /\ fetches[f].got = "lines" /\ r \in DOMAIN ans
    <3>1. lines'[r] = Line(ans[r], Largest(ans[r][2], client.seqno))
      BY <1>1, <2>4
    <3>2. Fine(0, r, ans[r])
      BY <1>6, <1>9, <2>4 DEF LinesInv, Fetched
    <3>3. lines'[r].v = ans[r] /\ \A g : ~Waits(lines'[r], g)
      BY <3>1 DEF Line, Waits
    <3>. QED  BY <3>2, <3>3 DEF Fine
  <2>. QED  BY <1>1, <1>2, <1>5, <2>1, <2>2, <2>3, <2>4
<1>. QED  BY <1>1, <1>3, <1>4, <1>8, <1>9, LinesAfterLocal

(* A repaint makes entries wait, or marks them stale.                       *)
LEMMA LinesAfterPaint ==
  ASSUME RenderTypeOK, LinesInv, NEW poll \in BOOLEAN, Paint(poll) PROVE LinesInv'
<1>. DEFINE ahead == {r \in View : lines[r].k = "Line" /\ lines[r].s > client.seqno}
            wait == {r \in View : lines[r].k \in {"None", "Stale"}}
            now == CHOOSE f \in Free : TRUE
<1>1. /\ UNCHANGED <<term, session, job, pushes>>
      /\ ahead \cup wait # {} => Free # {}
      /\ \A r \in Rows : lines'[r] = IF r \in ahead THEN MakeStale(lines[r])
                                     ELSE IF r \in wait THEN Fetch(lines[r], now)
                                     ELSE lines[r]
      /\ fetches' = Scheduled(now, ahead \cup wait)
      /\ asked' = [asked EXCEPT !.push = @ \/ poll]
      /\ client' = [client EXCEPT !.paint = FALSE]
  BY DEF Paint, ServerIsElsewhere
<1>2. client'.cur = client.cur /\ client'.left = client.left /\ asked'.keys = asked.keys
  BY <1>1, ClientShape
<1>3. KeyPending => KeyPending'
  BY <1>1, <1>2 DEF KeyPending
<1>4. \A r \in Rows : lines[r] \in Entry
  BY ClientShape
<1>5. ahead \cup wait # {} => now \in Free
  BY <1>1
<1>. HIDE DEF ahead, wait, now
<1>6. ASSUME NEW f \in DOMAIN fetches'
      PROVE  \/ /\ f \in DOMAIN fetches /\ fetches'[f] = fetches[f]
                /\ ahead \cup wait # {} => f # now
             \/ /\ f = now /\ now \in Free /\ fetches'[f].got = "nothing"
                /\ DOMAIN fetches'[f].ans = {}
  <2>. DEFINE S == ahead \cup wait
  <2>1. fetches' = Scheduled(now, S) /\ (S # {} => now \in Free)
    BY <1>1, <1>5
  <2>. HIDE DEF S
  <2>2. \/ f \in DOMAIN fetches /\ fetches'[f] = fetches[f] /\ (S # {} => f # now)
        \/ S # {} /\ f = now /\ fetches'[f].got = "nothing" /\ DOMAIN fetches'[f].ans = {}
    BY <1>6, <2>1, ScheduledIs
  <2>. QED  BY <2>1, <2>2 DEF S
<1>7. DOMAIN fetches' \subseteq FetchIds
  <2>1. \A f \in Free : f \in FetchIds
    BY DEF Free
  <2>. QED  BY <1>6, <2>1, ClientShape DEF FetchesOK
<1>8. \A r \in Rows : Held(lines'[r]) => Held(lines[r]) \/ Known(r)
  BY <1>1, <1>4, EntrySteps
<1>9. ASSUME NEW r \in Rows
      PROVE  \/ Quiet(lines'[r], fetches')
             \/ /\ lines'[r].k = "Line" =>
                     \/ Fine(0, r, lines'[r].v)
                     \/ lines'[r].v = Guess /\ r = client'.cur /\ KeyPending'
                     \/ r \in client'.left
                /\ \A g \in DOMAIN fetches' : Waits(lines'[r], g) =>
                     /\ g \in DOMAIN fetches /\ fetches'[g] = fetches[g]
                     /\ Waits(lines[r], g) /\ (Held(lines'[r]) => Held(lines[r]))
  <2>1. CASE r \in ahead
    <3>1. lines'[r] = MakeStale(lines[r])
      BY <1>1, <2>1
    <3>. QED  BY <1>4, <1>7, <3>1, EntrySteps DEF Quiet
  <2>2. CASE r \notin ahead /\ r \in wait
    <3>1. lines'[r] = Fetch(lines[r], now)
      BY <1>1, <2>2
    <3>2. \A f \in DOMAIN fetches' : f = now => fetches'[f].got = "nothing"
      BY <1>6, <2>2
    <3>. QED  BY <1>4, <3>1, <3>2, EntrySteps DEF Quiet
  <2>3. CASE r \notin ahead /\ r \notin wait
    <3>1. lines'[r] = lines[r]
      BY <1>1, <2>3
    <3>2. \A g \in DOMAIN fetches' : Waits(lines[r], g) =>
            g \in DOMAIN fetches /\ fetches'[g] = fetches[g]
      BY <1>6 DEF Free
    <3>. QED  BY <1>2, <1>3, <1>9, <3>1, <3>2 DEF LinesInv, Cached
  <2>. QED  BY <2>1, <2>2, <2>3
<1>. QED  BY <1>1, <1>3, <1>6, <1>8, <1>9, LinesAfterLocal

(* A predicted line stays on the row of the cursor until the key is         *)
(* answered; a row that a predicted motion leaves is remembered.            *)
LEMMA LinesAfterPress ==
  ASSUME RenderTypeOK, LinesInv, NEW row \in Rows, NEW v, Press(row, v),
         row = client.cur => v = Guess
  PROVE  LinesInv'
<1>. DEFINE e == lines[client.cur]
<1>1. /\ UNCHANGED <<term, session, job, pushes, fetches>>
      /\ lines' = IF ~Held(e) THEN lines
           ELSE [lines EXCEPT ![client.cur] =
                   IF e.k = "Both" THEN [e EXCEPT !.v = v] ELSE Line(v, e.s)]
      /\ client' = [client EXCEPT !.serial = @ + 1, !.cur = IF Held(e) THEN row ELSE @,
           !.left = IF Held(e) /\ row # client.cur THEN @ \cup {client.cur} ELSE @]
      /\ asked' = [asked EXCEPT !.keys = Append(@, client.serial + 1)]
  BY DEF Press, Acts, ServerIsElsewhere
<1>2. /\ client.cur \in Rows /\ client'.cur = IF Held(e) THEN row ELSE client.cur
      /\ client'.left = IF Held(e) /\ row # client.cur THEN client.left \cup {client.cur}
                        ELSE client.left
  BY <1>1, ClientShape
<1>3. KeyPending'
  <2>1. asked.keys \in Seq(Nat \ {NoKey}) /\ asked'.keys = Append(asked.keys, client.serial + 1)
    BY <1>1, ClientShape
  <2>2. Len(asked'.keys) = Len(asked.keys) + 1 /\ Len(asked.keys) \in Nat
    BY <2>1, AppendProperties, LenProperties
  <2>3. asked'.keys # <<>>
    BY <2>2
  <2>. QED  BY <2>3 DEF KeyPending
<1>4. /\ \A r \in Rows : r # client.cur => lines'[r] = lines[r]
      /\ ~Held(e) => lines'[client.cur] = e
      /\ Held(e) => lines'[client.cur] = IF e.k = "Both" THEN [e EXCEPT !.v = v]
                                         ELSE Line(v, e.s)
  BY <1>1, <1>2, ClientShape
<1>5. e \in Entry
  BY <1>2, ClientShape
<1>6. e.k = "Both" => /\ [e EXCEPT !.v = v].k = "Both"
                      /\ \A f : Waits([e EXCEPT !.v = v], f) => Waits(e, f)
  <2>1. e.k = "Both" => e = [k |-> "Both", v |-> e.v, s |-> e.s, t |-> e.t]
    BY <1>5, EntryShape
  <2>. HIDE DEF e
  <2>. QED  BY <2>1 DEF Waits
<1>7. \A r \in Rows : Held(lines'[r]) => Held(lines[r]) \/ Known(r)
  BY <1>4
<1>8. ASSUME NEW r \in Rows
      PROVE  \/ Quiet(lines'[r], fetches')
             \/ /\ lines'[r].k = "Line" =>
                     \/ Fine(0, r, lines'[r].v)
                     \/ lines'[r].v = Guess /\ r = client'.cur /\ KeyPending'
                     \/ r \in client'.left
                /\ \A g \in DOMAIN fetches' : Waits(lines'[r], g) =>
                     /\ g \in DOMAIN fetches /\ fetches'[g] = fetches[g]
                     /\ Waits(lines[r], g) /\ (Held(lines'[r]) => Held(lines[r]))
  <2>1. CASE r # client.cur \/ ~Held(e)
    <3>1. lines'[r] = lines[r]
      BY <1>4, <2>1
    <3>2. lines[r].k = "Line" => r # client.cur
      BY <2>1 DEF Held
    <3>. QED  BY <1>1, <1>2, <1>8, <3>1, <3>2 DEF LinesInv, Cached
  <2>2. CASE r = client.cur /\ Held(e) /\ e.k = "Both"
    BY <1>1, <1>4, <1>6, <2>2
  <2>3. CASE r = client.cur /\ Held(e) /\ e.k # "Both"
    <3>1. lines'[r] = Line(v, e.s)
      BY <1>4, <2>3
    <3>2. lines'[r].v = v /\ \A f : ~Waits(lines'[r], f)
      BY <3>1 DEF Line, Waits
    <3>. QED  BY <1>2, <1>3, <2>3, <3>2
  <2>. QED  BY <2>1, <2>2, <2>3
<1>. QED  BY <1>1, <1>3, <1>7, <1>8, LinesAfterLocal

(* Keys whose echo is predicted.                                            *)
LEMMA LinesAfterKey == ASSUME RenderTypeOK, LinesInv, Text \/ Motion PROVE LinesInv'
<1>1. CASE Text
  BY <1>1, LinesAfterPress, ClientShape DEF Text
<1>2. CASE Motion
  <2>1. PICK row \in {client.cur - 1, client.cur + 1} \cap Rows :
          Press(row, IF Held(lines[client.cur]) THEN lines[client.cur].v ELSE Guess)
    BY <1>2 DEF Motion
  <2>2. client.cur \in Int
    BY ClientShape, Constants DEF Rows
  <2>3. row # client.cur
    BY <2>1, <2>2
  <2>. QED  BY <2>1, <2>3, LinesAfterPress
<1>. QED  BY <1>1, <1>2

(* A new palette, a view that moves.                                        *)
LEMMA LinesAfterLook ==
  ASSUME RenderTypeOK, LinesInv, Invalidate \/ ScrollView PROVE LinesInv'
<1>1. UNCHANGED <<term, session, job, pushes, asked, fetches>>
  BY DEF Invalidate, ScrollView, Acts, ServerIsElsewhere
<1>2. client'.cur = client.cur /\ client'.left = client.left
  BY ClientShape DEF Invalidate, ScrollView
<1>3. \A r \in Rows : lines'[r] = lines[r] \/ lines'[r] = MakeStale(lines[r])
  BY DEF Invalidate, ScrollView
<1>4. KeyPending' <=> KeyPending
  BY <1>1 DEF KeyPending
<1>5. \A r \in Rows : lines[r] \in Entry
  BY ClientShape
<1>6. DOMAIN fetches' \subseteq FetchIds
  BY <1>1, ClientShape DEF FetchesOK
<1>7. \A r \in Rows : Held(lines'[r]) => Held(lines[r]) \/ Known(r)
  BY <1>3, <1>5, EntrySteps
<1>8. ASSUME NEW r \in Rows
      PROVE  \/ Quiet(lines'[r], fetches')
             \/ /\ lines'[r].k = "Line" =>
                     \/ Fine(0, r, lines'[r].v)
                     \/ lines'[r].v = Guess /\ r = client'.cur /\ KeyPending'
                     \/ r \in client'.left
                /\ \A g \in DOMAIN fetches' : Waits(lines'[r], g) =>
                     /\ g \in DOMAIN fetches /\ fetches'[g] = fetches[g]
                     /\ Waits(lines[r], g) /\ (Held(lines'[r]) => Held(lines[r]))
  <2>1. CASE lines'[r] = lines[r]
    BY <1>1, <1>2, <1>4, <1>8, <2>1 DEF LinesInv, Cached
  <2>2. CASE lines'[r] = MakeStale(lines[r])
    BY <1>5, <1>6, <2>2, EntrySteps DEF Quiet
  <2>. QED  BY <1>3, <2>1, <2>2
<1>. QED  BY <1>1, <1>4, <1>7, <1>8, LinesAfterLocal

(* A new session has seen nothing, so everything is still to be reported.   *)
LEMMA LinesAfterNewSession ==
  ASSUME RenderTypeOK, LinesInv, NewSession PROVE LinesInv'
<1>1. /\ session' = Fresh /\ job' = NoJob /\ UNCHANGED <<term, lines, client>>
  BY Zenon DEF NewSession
<1>2. PICK n \in 0 .. Len(pushes) : pushes' = SubSeq(pushes, 1, n)
  BY Zenon DEF NewSession
<1>3. PICK kept \in SUBSET {f \in DOMAIN fetches : fetches[f].got # "nothing"} :
        fetches' = [f \in DOMAIN fetches |->
                      IF f \in kept THEN fetches[f]
                      ELSE [fetches[f] EXCEPT !.got = "error", !.ans = <<>>]]
  BY Zenon DEF NewSession
<1>4. /\ Len(pushes') \in Nat /\ Len(pushes') <= Len(pushes) /\ Len(pushes) \in Nat
      /\ \A i \in 1 .. Len(pushes') : i \in 1 .. Len(pushes) /\ pushes'[i] = pushes[i]
  <2>1. pushes \in Seq(Delta) /\ Len(pushes) \in Nat
    BY ClientShape, LenProperties
  <2>2. /\ 1 .. n \subseteq DOMAIN pushes /\ Len(pushes') = n
        /\ \A i \in 1 .. n : pushes'[i] = pushes[i]
    BY <1>2, <2>1, SubSeqProperties
  <2>. QED  BY <1>2, <2>1, <2>2
<1>5. DOMAIN fetches' = DOMAIN fetches
      /\ \A f \in DOMAIN fetches : fetches'[f] = fetches[f] \/ DOMAIN fetches'[f].ans = {}
  <2>1. \A f \in DOMAIN fetches : [fetches[f] EXCEPT !.got = "error", !.ans = <<>>].ans = <<>>
    BY ClientShape DEF FetchesOK, FetchRecord
  <2>2. DOMAIN <<>> = {}
    OBVIOUS
  <2>. QED  BY <1>3, <2>1, <2>2
<1>6. job'.pc = "idle" /\ session'.seqno = 0 /\ \A r : V(r)' = V(r) /\ N(r)' = N(r)
  BY <1>1 DEF NoJob, Fresh, V, N
<1>7. \A r \in Rows : Known(r)' => Known(r)
  BY <1>1, <1>4, <1>5 DEF Known
<1>8. Screen' /\ Computed'
  BY <1>1, <1>6 DEF LinesInv, Screen, Computed
<1>9. \A r \in Rows : Known(r) => There(r)
  BY DEF LinesInv, Within, Asks
<1>10. Within'
  BY <1>1, <1>6, <1>7, <1>9 DEF Within, Asks, There
<1>11. ASSUME NEW r \in Rows, Known(r) PROVE Comes(r)'
  <2>1. N(r) > 0
    BY <1>9, <1>11, RowsThere DEF LinesInv
  <2>. QED  BY <1>6, <2>1 DEF Comes, Due
<1>12. Pushed'
  <2>1. ASSUME NEW i \in 1 .. Len(pushes')
        PROVE  /\ \A r \in Rows : r = pushes'[i].cur => Comes(r)'
               /\ \A r \in DOMAIN pushes'[i].bonus : Comes(r)'
    <3>1. i \in 1 .. Len(pushes) /\ pushes'[i] = pushes[i]
      BY <1>4
    <3>2. pushes[i] \in Delta
      BY <3>1, ClientShape, ElementOfSeq
    <3>3. DOMAIN pushes[i].bonus \subseteq Rows
      BY <3>2, AnswerHas DEF Delta
    <3>. QED  BY <1>11, <3>1, <3>3 DEF Known
  <2>2. \A i \in 1 .. Len(pushes') : pushes'[i].cur \in Rows
    <3>1. \A i \in 1 .. Len(pushes) : pushes[i] \in Delta
      BY ClientShape, ElementOfSeq
    <3>. QED  BY <1>4, <3>1 DEF Delta
  <2>. QED  BY <2>1, <2>2 DEF Pushed, Fine, After
<1>13. Fetched' /\ Cached'
  <2>1. \A r \in Rows : lines'[r].k = "Line" => Comes(r)'
    BY <1>1, <1>11 DEF Known, Held
  <2>2. \A f \in DOMAIN fetches', r \in Rows : Waits(lines'[r], f) =>
          /\ r \in DOMAIN fetches'[f].ans => Comes(r)'
          /\ Held(lines'[r]) => Comes(r)'
    BY <1>1, <1>5, <1>11 DEF Known
  <2>. QED  BY <2>1, <2>2 DEF Fetched, Cached, Fine, After
<1>. QED  BY <1>8, <1>10, <1>12, <1>13 DEF LinesInv

----------------------------------------------------------------------------
(* Every step keeps the invariant where deltas are applied in order.        *)
LEMMA LinesStep == ASSUME RenderTypeOK, ~Hydrates, LinesInv, RenderNext PROVE LinesInv'
<1>1. CASE AnswerFetches
  BY <1>1, LinesAfterAnswer DEF AnswerFetches
<1>2. CASE ApplyDelta
  BY <1>2, LinesAfterApply DEF ApplyDelta
<1>3. CASE FetchesDone
  BY <1>3, LinesAfterFetch DEF FetchesDone
<1>4. CASE Paints
  BY <1>4, LinesAfterPaint DEF Paints
<1>. QED  BY <1>1, <1>2, <1>3, <1>4, LinesAfterOutput, LinesAfterServe, LinesAfterKey,
              LinesAfterLook, LinesAfterNewSession DEF RenderNext

(* The inductive invariant of the lines: every version of a row that the    *)
(* client holds, awaits from a fetch or has on its way in a delta is the    *)
(* terminal's, is going to be reported again by what comes after it, or is  *)
(* of a row that was passed over or that a predicted motion left.           *)
THEOREM LinesInvariant == ~Hydrates => (RenderSpec => []LinesInv)
<1>. SUFFICES ASSUME ~Hydrates PROVE RenderSpec => []LinesInv
  OBVIOUS
<1>1. LinesInv /\ UNCHANGED renderVars => LinesInv'
  BY DEF LinesInv, renderVars, Screen, There, Within, Asks, Known, Computed, Pushed, Fetched,
         Cached, Fine, After, Comes, Due, PassedOver, V, N, KeyPending
<1>2. RenderInit => LinesInv
  BY LinesStart
<1>3. RenderTypeOK /\ LinesInv /\ [RenderNext]_renderVars => LinesInv'
  BY <1>1, LinesStep
<1>. QED  BY <1>2, <1>3, RenderTypeCorrect, PTL DEF RenderSpec

(* What is going to be reported again is promised; a guess is, because the  *)
(* answer to its key moves the cursor or brings or follows its row.         *)
LEMMA CachedIsPromised == ASSUME RenderTypeOK, LinesInv PROVE LinesAreUpToDate
<1>1. ASSUME NEW r \in Existing(term), NEW i \in 0 .. Len(pushes), After(i, r)
      PROVE  Promised(r) \/ PassedOver(r)
  <2>1. r \in Rows /\ r \in Existing(term) /\ N(r) = SeqAt(term, r)
    BY RowsOfTheTerminal, RowsThere DEF LinesInv
  <2>2. ASSUME job.pc = "dirty", N(r) > job.old, r < job.top + H
        PROVE  r \in Changed(job.old, job.top)
    <3>1. Top(term) \in Nat /\ job.top \in Nat
      BY <2>2, RowsOfTheTerminal, JobShape, Constants
    <3>. QED  BY <2>1, <2>2, <3>1, ChangedRows
  <2>3. Due(r) => Coming(r)
    BY <2>1, <2>2 DEF Due, Coming
  <2>4. Len(pushes) \in Nat
    BY ClientShape, LenProperties
  <2>5. \A j \in i + 1 .. Len(pushes) : j \in 1 .. Len(pushes)
    BY <2>4
  <2>. QED  BY <1>1, <2>3, <2>5 DEF After, Comes, Promised
<1>2. ASSUME NEW r \in Existing(term), lines[r].k = "Line", lines[r].v # LineAt(term, r)
      PROVE  Promised(r) \/ PassedOver(r) \/ r \in client.left
  <2>1. r \in Rows /\ V(r) = LineAt(term, r)
    BY RowsOfTheTerminal, RowsThere DEF LinesInv
  <2>2. Len(pushes) \in Nat /\ 0 \in 0 .. Len(pushes)
    BY ClientShape, LenProperties
  <2>3. CASE After(0, r)
    BY <1>1, <2>2, <2>3
  <2>4. CASE r = client.cur /\ KeyPending
    <3>1. ASSUME NEW i \in 1 .. Len(pushes), pushes[i].serial # NoKey
          PROVE  Promised(r) \/ PassedOver(r)
      <4>1. CASE pushes[i].cur # client.cur
        BY <4>1 DEF Promised
      <4>2. CASE pushes[i].cur = client.cur
        <5>1. r \in DOMAIN pushes[i].bonus \/ After(i, r)
          BY <2>4, <4>2 DEF LinesInv, Pushed
        <5>2. i \in 0 .. Len(pushes)
          BY <2>2
        <5>. QED  BY <1>1, <5>1, <5>2 DEF Promised, Named
      <4>. QED  BY <4>1, <4>2
    <3>. QED  BY <2>4, <3>1 DEF KeyPending, Promised
  <2>. QED  BY <1>2, <2>1, <2>3, <2>4 DEF LinesInv, Cached, Fine
<1>. QED  BY <1>2 DEF LinesAreUpToDate

(* A line that the cache calls up to date is the server's, or a correction  *)
(* is on its way, or its row was passed over or left by a predicted motion: *)
(* for every way to enter the alternate screen, any scrolling, any keys     *)
(* predicted, any losses of the connection, wherever deltas are applied in  *)
(* the order in which they were sent.                                       *)
THEOREM LinesStayUpToDate == ~Hydrates => (RenderSpec => []LinesAreUpToDate)
<1>. SUFFICES ASSUME ~Hydrates PROVE RenderSpec => []LinesAreUpToDate
  OBVIOUS
<1>1. RenderTypeOK /\ LinesInv => LinesAreUpToDate
  BY CachedIsPromised
<1>. QED  BY <1>1, LinesInvariant, RenderTypeCorrect, PTL

============================================================================
