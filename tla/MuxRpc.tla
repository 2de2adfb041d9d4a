------------------------------ MODULE MuxRpc ------------------------------
(* Requests of a client to the multiplexer (wezterm-client/src/client.rs)   *)
(* and the session of the server that answers them (dispatch.rs and         *)
(* sessionhandler.rs of wezterm-mux-server-impl).                           *)
(*                                                                          *)
(* Tasks of the client put requests into an unbounded queue and wait, each  *)
(* on a channel of its own.  One thread takes them, gives each the next     *)
(* serial, keeps the channel as a promise, writes, and reads: it does one   *)
(* of these at a time, and so does the server.  When the connection fails,  *)
(* the promises do, and the thread connects again or ends.                  *)
EXTENDS Naturals, Sequences, FiniteSets

CONSTANTS
  Requests,      \* requests the tasks make, each once
  Impatient,     \* those that are given up after a while (version check)
  Reconnectable, \* whether the domain is one to connect to again
  Cap,           \* what the socket holds in each direction
  MaxPushes,     \* bound: PDUs the server sends of its own accord
  MaxLosses      \* bound: connections that fail

ASSUME RpcAssumption ==
  /\ Impatient \subseteq Requests /\ Reconnectable \in BOOLEAN
  /\ Cap \in Nat /\ MaxPushes \in Nat /\ MaxLosses \in Nat

VARIABLES
  st,       \* what each request has come to
  got,      \* the request that what it was answered with answers
  queue,    \* requests the thread has yet to take
  thread,   \* the thread: "idle", "writing", "retry", "ending", "ended"
  serial,   \* next_serial
  promises, \* serial -> request
  conn,     \* the connection: "up", "closed" by the server, "lost"
  c2s, s2c, \* what is on its way
  tasks,    \* requests the session has spawned onto the main thread
  out,      \* what the session has yet to write
  spent     \* how much of the bounds is used

clientVars == <<st, got, queue, thread, serial, promises>>
serverVars == <<tasks, out>>
vars == <<clientVars, serverVars, conn, c2s, s2c, spent>>

Pdu(s, r) == [serial |-> s, re |-> r]
Nothing == [serial |-> 0, re |-> "nothing"]
None == [s \in {} |-> 0]

Init ==
  /\ st = [r \in Requests |-> "new"]
  /\ got = [r \in Requests |-> Nothing.re]
  /\ queue = <<>> /\ thread = [pc |-> "idle", pdu |-> Nothing]
  /\ serial = 1 /\ promises = None
  /\ conn = "up" /\ c2s = <<>> /\ s2c = <<>>
  /\ tasks = {} /\ out = <<>>
  /\ spent = [pushes |-> 0, losses |-> 0]

----------------------------------------------------------------------------
(* send_pdu: a task queues its request, unless the receiver is gone.        *)
Request(r) ==
  /\ st[r] = "new"
  /\ IF thread.pc = "ended"
     THEN st' = [st EXCEPT ![r] = "failed"] /\ UNCHANGED queue
     ELSE st' = [st EXCEPT ![r] = "waiting"] /\ queue' = Append(queue, r)
  /\ UNCHANGED <<got, thread, serial, promises, serverVars, conn, c2s, s2c, spent>>

(* verify_version_compat: a timer wins the race, the receiver is dropped.   *)
GiveUp(r) ==
  /\ r \in Impatient /\ st[r] = "waiting"
  /\ st' = [st EXCEPT ![r] = "given up"]
  /\ UNCHANGED <<got, queue, thread, serial, promises, serverVars, conn, c2s, s2c, spent>>

----------------------------------------------------------------------------
(* The client's thread.  What the tasks ask for goes before what can be     *)
(* read (smol::future::or).                                                 *)
Idle == [pc |-> "idle", pdu |-> Nothing]
IsIdle == thread.pc = "idle"

TakeRequest ==
  /\ IsIdle /\ queue # <<>>
  /\ promises' = [s \in DOMAIN promises \cup {serial} |->
                    IF s = serial THEN Head(queue) ELSE promises[s]]
  /\ thread' = [pc |-> "writing", pdu |-> Pdu(serial, Head(queue))]
  /\ serial' = serial + 1
  /\ queue' = Tail(queue)
  /\ UNCHANGED <<st, got, serverVars, conn, c2s, s2c, spent>>

WriteRequest ==
  /\ thread.pc = "writing" /\ conn = "up" /\ Len(c2s) < Cap
  /\ c2s' = Append(c2s, thread.pdu)
  /\ thread' = Idle
  /\ UNCHANGED <<st, got, queue, serial, promises, serverVars, conn, s2c, spent>>

\* A mutant of Broken: the promises outlive the connection.
BrokenKeepsPromises(pending, again) ==
  /\ thread' = [pc |-> IF again /\ Reconnectable THEN "retry" ELSE "ending",
                pdu |-> Nothing]
  /\ UNCHANGED <<st, got, queue, serial, promises>>

(* client_thread_async returns an error: the promises are dropped and fail. *)
(* The thread is to end, unless the error is one to connect again for.      *)
Broken(pending, again) ==
  /\ st' = [r \in Requests |->
              IF st[r] = "waiting" /\ \E s \in DOMAIN pending : pending[s] = r
              THEN "failed" ELSE st[r]]
  /\ promises' = None
  /\ thread' = [pc |-> IF again /\ Reconnectable THEN "retry" ELSE "ending",
                pdu |-> Nothing]
  /\ UNCHANGED <<got, queue, serial>>

WriteFails ==
  /\ thread.pc = "writing" /\ conn # "up"
  /\ Broken(promises, TRUE)
  /\ UNCHANGED <<serverVars, conn, c2s, s2c, spent>>

(* The server closed the connection: UnexpectedEof is not one of them.      *)
ReadFails ==
  /\ IsIdle /\ queue = <<>> /\ conn # "up" /\ s2c = <<>>
  /\ Broken(promises, conn = "lost")
  /\ UNCHANGED <<serverVars, conn, c2s, s2c, spent>>

(* The thread ends, and with it the receiver of the queue.  What has come   *)
(* into the queue stays there.                                              *)
Ends ==
  /\ thread.pc = "ending"
  /\ thread' = [thread EXCEPT !.pc = "ended"]
  /\ UNCHANGED <<st, got, queue, serial, promises, serverVars, conn, c2s, s2c, spent>>

(* A PDU: pushed by the server, the answer to a promise, or one whose task  *)
(* has gone, which ends the client, or that answers no promise at all.      *)
Without(f, s) == [x \in DOMAIN f \ {s} |-> f[x]]

Read ==
  /\ IsIdle /\ queue = <<>> /\ s2c # <<>>
  /\ s2c' = Tail(s2c)
  /\ LET pdu == Head(s2c)
         s == pdu.serial
     IN \/ s = 0 /\ UNCHANGED clientVars
        \/ /\ s \in DOMAIN promises /\ st[promises[s]] = "waiting"
           /\ st' = [st EXCEPT ![promises[s]] = "answered"]
           /\ got' = [got EXCEPT ![promises[s]] = pdu.re]
           /\ promises' = Without(promises, s)
           /\ UNCHANGED <<queue, thread, serial>>
        \/ /\ s # 0 /\ ~(s \in DOMAIN promises /\ st[promises[s]] = "waiting")
           /\ Broken(Without(promises, s), s \notin DOMAIN promises)
  /\ UNCHANGED <<serverVars, conn, c2s, spent>>

\* A mutant of Reconnect: what was read ahead of the old stream is kept.
ReconnectReadAhead ==
  /\ thread.pc = "retry"
  /\ thread' = Idle /\ serial' = 1
  /\ conn' = "up" /\ c2s' = <<>>
  /\ tasks' = {} /\ out' = <<>>
  /\ UNCHANGED <<st, got, queue, promises, s2c, spent>>

(* Reconnectable::connect: a new stream, and a new session on the server.   *)
(* What is left of the old session has nobody to answer.                    *)
Reconnect ==
  /\ thread.pc = "retry"
  /\ thread' = Idle /\ serial' = 1
  /\ conn' = "up" /\ c2s' = <<>> /\ s2c' = <<>>
  /\ tasks' = {} /\ out' = <<>>
  /\ UNCHANGED <<st, got, queue, promises, spent>>

----------------------------------------------------------------------------
(* The session of the server.  What it has to write goes before what it can *)
(* read.                                                                    *)
ServerKeeps == UNCHANGED <<clientVars, conn>>

Receive ==
  /\ conn = "up" /\ out = <<>> /\ c2s # <<>>
  /\ tasks' = tasks \cup {Head(c2s)}
  /\ c2s' = Tail(c2s)
  /\ UNCHANGED <<out, s2c, spent>> /\ ServerKeeps

\* A mutant of CarryOut: a handler that meets an error may end without a word.
CarryOutOrNot ==
  /\ \E t \in tasks : tasks' = tasks \ {t} /\ out' \in {out, Append(out, t)}
  /\ UNCHANGED <<c2s, s2c, spent>> /\ ServerKeeps

(* process_one: the main thread carries a request out; every handler ends   *)
(* with send_response, under the serial of the request.                     *)
CarryOut ==
  /\ \E t \in tasks : tasks' = tasks \ {t} /\ out' = Append(out, t)
  /\ UNCHANGED <<c2s, s2c, spent>> /\ ServerKeeps

Push ==
  /\ conn = "up"
  /\ spent.pushes < MaxPushes /\ spent' = [spent EXCEPT !.pushes = @ + 1]
  /\ out' = Append(out, Nothing)
  /\ UNCHANGED <<tasks, c2s, s2c>> /\ ServerKeeps

WriteItem ==
  /\ conn = "up" /\ out # <<>> /\ Len(s2c) < Cap
  /\ s2c' = Append(s2c, Head(out))
  /\ out' = Tail(out)
  /\ UNCHANGED <<tasks, c2s, spent>> /\ ServerKeeps

(* The server goes, or the network does; in the first case the client reads *)
(* what was written before.                                                 *)
Lose ==
  /\ conn = "up"
  /\ spent.losses < MaxLosses /\ spent' = [spent EXCEPT !.losses = @ + 1]
  /\ \/ conn' = "closed" /\ UNCHANGED s2c
     \/ conn' = "lost" /\ s2c' = <<>>
  /\ c2s' = <<>> /\ tasks' = {} /\ out' = <<>>
  /\ UNCHANGED clientVars

----------------------------------------------------------------------------
ClientThread ==
  TakeRequest \/ WriteRequest \/ WriteFails \/ ReadFails \/ Ends \/ Read
Server == Receive \/ CarryOut \/ WriteItem

Next == \/ \E r \in Requests : Request(r) \/ GiveUp(r)
        \/ ClientThread \/ Reconnect \/ Server \/ Push \/ Lose

Spec == Init /\ [][Next]_vars

(* The thread of the client and the server go on; a connection need not     *)
(* come back.                                                               *)
FairSpec == Spec /\ WF_vars(ClientThread) /\ WF_vars(Server)

----------------------------------------------------------------------------
Fates == {"new", "waiting", "answered", "failed", "given up"}

(* The types; a promise is kept under a serial of this connection, and the *)
(* sockets hold what they can.                                              *)
TypeOK ==
  /\ st \in [Requests -> Fates]
  /\ thread.pc \in {"idle", "writing", "retry", "ending", "ended"}
  /\ DOMAIN promises \subseteq 1 .. serial - 1
  /\ \A s \in DOMAIN promises : promises[s] \in Requests
  /\ Len(c2s) <= Cap /\ Len(s2c) <= Cap
  /\ conn \in {"up", "closed", "lost"}

(* A task gets the answer to its own request, whatever order the server     *)
(* answers in, and however many connections there have been.                *)
AnswersGoHome ==
  \A r \in Requests : got[r] = IF st[r] = "answered" THEN r ELSE Nothing.re

(* A request that is still in the queue when the thread ends: nobody will   *)
(* ever take it, and the task waits for ever.                               *)
LeftBehind(r) ==
  thread.pc = "ended" /\ \E i \in 1 .. Len(queue) : queue[i] = r

NobodyIsLeftBehind == \A r \in Requests : st[r] = "waiting" => ~LeftBehind(r)

(* Both ends write and neither reads: the thread finishes its write before  *)
(* it reads, the session writes what it has before it reads, and both       *)
(* sockets are full.  Only the end of the connection ends it.               *)
Jammed ==
  /\ conn = "up" /\ thread.pc = "writing" /\ Len(c2s) = Cap
  /\ out # <<>> /\ Len(s2c) = Cap

NeverJams == ~Jammed

(* Every other request is answered, fails, or waits for a new connection,   *)
(* unless the connection is jammed.                                         *)
EveryRequestSettles ==
  \A r \in Requests :
    st[r] = "waiting" ~>
      (st[r] # "waiting" \/ thread.pc = "retry" \/ LeftBehind(r) \/ Jammed)

=============================================================================
