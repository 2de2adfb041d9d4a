------------------------- MODULE WebSession_proofs -------------------------
(***************************************************************************)
(* Theorems of WebSession, for any panes, webviews, commands, messages and *)
(* exit codes: its state is well typed, and every step of a command and of *)
(* the app is a step that BlockingOpen promises, or none.                  *)
(***************************************************************************)
EXTENDS WebSession, WebViewManager_proofs

\* The app runs as it does alone.
LEMMA AppIsSafe == SessionSpec => Safe
  <1>1. SessionInit => Init
    BY DEF SessionInit
  <1>2. [SessionNext]_sessionVars => [Next]_vars
    <2> SUFFICES ASSUME [SessionNext]_sessionVars PROVE [Next]_vars
      OBVIOUS
    <2>1. CASE AppReads
      BY <2>1 DEF AppReads, Next
    <2>2. CASE AppWorks
      BY <2>2 DEF AppWorks, Next, UserEvent
    <2>3. CASE AppGoes
      BY <2>3 DEF AppGoes
    <2>4. ASSUME NEW c \in Conns, Start(c) \/ Command(c) \/ Killed(c)
          PROVE  UNCHANGED vars
      BY <2>4 DEF Start, Command, ReadAnswer, ReadTooMuch, ReadEvent, ReadEnd, Killed
    <2>5. CASE UNCHANGED sessionVars
      BY <2>5 DEF sessionVars
    <2> QED
      BY <2>1, <2>2, <2>3, <2>4, <2>5 DEF SessionNext
  <1> QED
    BY <1>1, <1>2, PTL DEF SessionSpec, Safe

\* A code that a page passes becomes one that a process can exit with.
LEMMA ClampTypes == \A k \in Int : Clamp(k) \in 0..255 /\ Clamp(k) # NotYet
  BY DEF Clamp, NotYet

-----------------------------------------------------------------------------
(* What holds in every state of a session.                                 *)

Opening(i, c) == mainQueue[i].kind = "handle" /\ mainQueue[i].conn = c

\* A command asks once, and is answered when its request is handled; its
\* connection is up for as long as it runs.
Asking ==
  \A c \in Conns :
    /\ cli[c] = "absent" => received[c] = 0
    /\ received[c] = 0 => out[c] = <<>>
    /\ conn[c] # "up" => cli[c] \in {"exited", "killed"}
    /\ \A i \in DOMAIN mainQueue :
         Opening(i, c) => received[c] # 0 /\ out[c] = <<>>
    /\ \A i, j \in DOMAIN mainQueue : Opening(i, c) /\ Opening(j, c) => i = j
    /\ \A i \in DOMAIN mainQueue :
         mainQueue[i].kind = "forget" /\ mainQueue[i].conn = c => conn[c] # "up"

\* A webview closes at most once, after its container was made, and nobody
\* hears of it from then on.
Fates ==
  \A v \in WebViews :
    /\ v \notin used =>
         said[v] = <<>> /\ ended[v] = NotYet /\ webviewConnections[v] = NoConn
    /\ v \in containers => ended[v] = NotYet
    /\ \A p \in Panes : Queued(mainQueue, v, p) => ended[v] = NotYet
    /\ webviewConnections[v] # NoConn => ended[v] = NotYet

\* A webview is granted to one command, and while both are there the tables
\* know it as the one to tell.
Grants ==
  /\ \A c \in Conns : Granted(c) => ItsView(c) \in used
  /\ \A c, d \in Conns :
       Granted(c) /\ Granted(d) /\ ItsView(c) = ItsView(d) => c = d
  /\ \A v \in WebViews, c \in Conns :
       webviewConnections[v] = c /\ conn[c] = "up" => Granted(c) /\ ItsView(c) = v
  /\ \A c \in Conns :
       Granted(c) /\ conn[c] = "up" /\ ended[ItsView(c)] = NotYet =>
         webviewConnections[ItsView(c)] = c

\* After the answer a connection carries what the page said, and then how it
\* ended; no line is missing but the last, of a command that is gone.
Heard(c, v) ==
  /\ \/ Len(out[c]) = Len(said[v]) + 1
     \/ /\ Len(out[c]) = Len(said[v]) + 2
        /\ out[c][Len(said[v]) + 2].kind = "closed"
        /\ ended[v] # NotYet
        /\ ended[v] = Clamp(out[c][Len(said[v]) + 2].code)
  /\ \A i \in DOMAIN said[v] :
       out[c][i + 1].kind = "console" /\ out[c][i + 1].msg = said[v][i]
  /\ ended[v] # NotYet /\ conn[c] = "up" => Len(out[c]) # Len(said[v]) + 1

Streams ==
  \A c \in Conns :
    /\ Answered(c) /\ ~Granted(c) => Len(out[c]) = 1 /\ out[c][1].kind = "error"
    /\ Granted(c) => Heard(c, ItsView(c))

\* A command that streams has printed what it has read but the answer.
Commands ==
  \A c \in Conns :
    /\ cli[c] \in {"absent", "waiting"} => taken[c] = 0 /\ printed[c] = <<>>
    /\ cli[c] = "streaming" =>
         /\ Granted(c) /\ taken[c] = Len(printed[c]) + 1
         /\ Len(printed[c]) <= Len(said[ItsView(c)])
         /\ \A i \in DOMAIN printed[c] : printed[c][i] = said[ItsView(c)][i]

\* What the app alone keeps, and the inductive invariant of the session.
AppInv == TypeOK /\ Hearing /\ Tables
Session == SessionTypeOK /\ Asking /\ Fates /\ Grants /\ Streams /\ Commands

\* The app's own invariants hold in a session.
LEMMA AppInvHolds == SessionSpec => []AppInv
  BY AppIsSafe, AlwaysTyped, AlwaysHearing, AlwaysTables, PTL DEF AppInv

\* Everything is unborn at first.
LEMMA SessionStarts == SessionInit => Session
  <1> SUFFICES ASSUME SessionInit PROVE Session
    OBVIOUS
  <1> USE DEF SessionInit, Init
  <1>1. SessionTypeOK
    BY DEF SessionTypeOK, NotYet
  <1>2. Asking /\ Commands
    BY DEF Asking, Commands, Opening
  <1>3. Fates
    BY DEF Fates, Queued
  <1>4. Grants /\ Streams
    BY NamesAssumption DEF Grants, Streams, Granted, Answered
  <1> QED
    BY <1>1, <1>2, <1>3, <1>4 DEF Session

-----------------------------------------------------------------------------
(* Requests and connections.                                               *)

\* A block runs: a request is answered as it leaves the queue.
LEMMA AskingPop ==
  ASSUME Asking, mainQueue # <<>>,
         UNCHANGED <<cli, received>>,
         \A i \in DOMAIN mainQueue' :
           \/ mainQueue'[i].kind = "create"
           \/ i + 1 \in DOMAIN mainQueue /\ mainQueue'[i] = mainQueue[i + 1],
         \A i \in DOMAIN mainQueue' : i \in Nat \ {0},
         1 \in DOMAIN mainQueue,
         \A c \in Conns : out'[c] = out[c] \/ Opening(1, c),
         \A c \in Conns :
           \/ conn'[c] = conn[c]
           \/ conn'[c] # "up" /\ conn[c] # "up"
  PROVE  Asking'
  <1> SUFFICES ASSUME NEW c \in Conns
               PROVE  /\ cli[c] = "absent" => received[c] = 0
                      /\ received[c] = 0 => out'[c] = <<>>
                      /\ conn'[c] # "up" => cli[c] \in {"exited", "killed"}
                      /\ \A i \in DOMAIN mainQueue' :
                           Opening(i, c)' => received[c] # 0 /\ out'[c] = <<>>
                      /\ \A i, j \in DOMAIN mainQueue' :
                           Opening(i, c)' /\ Opening(j, c)' => i = j
                      /\ \A i \in DOMAIN mainQueue' :
                           mainQueue'[i].kind = "forget" /\ mainQueue'[i].conn = c
                             => conn'[c] # "up"
    BY DEF Asking, Opening
  <1>1. /\ cli[c] = "absent" => received[c] = 0
        /\ conn'[c] # "up" => cli[c] \in {"exited", "killed"}
    BY DEF Asking
  <1>2. received[c] = 0 => out'[c] = <<>>
    BY DEF Asking
  <1>3. ASSUME NEW i \in DOMAIN mainQueue', Opening(i, c)'
        PROVE  /\ received[c] # 0 /\ out'[c] = <<>>
               /\ i + 1 \in DOMAIN mainQueue /\ Opening(i + 1, c)
    <2>1. i + 1 \in DOMAIN mainQueue /\ Opening(i + 1, c) /\ i + 1 # 1
      BY <1>3 DEF Opening
    <2>2. ~Opening(1, c)
      BY <2>1 DEF Asking
    <2> QED
      BY <2>1, <2>2 DEF Asking
  <1>4. ASSUME NEW i \in DOMAIN mainQueue', NEW j \in DOMAIN mainQueue',
               Opening(i, c)', Opening(j, c)'
        PROVE  i = j
    <2>1. i + 1 = j + 1
      BY <1>3, <1>4 DEF Asking
    <2> QED
      BY <2>1
  <1>5. ASSUME NEW i \in DOMAIN mainQueue',
               mainQueue'[i].kind = "forget", mainQueue'[i].conn = c
        PROVE  conn'[c] # "up"
    BY <1>5 DEF Asking
  <1> QED
    BY <1>1, <1>2, <1>3, <1>4, <1>5

\* Anything else but a request and a hangup: no line goes to a connection
\* that waits for its answer.
LEMMA AskingStays ==
  ASSUME Asking, UNCHANGED <<conn, received>>,
         \A c \in Conns :
           /\ cli'[c] = "absent" => cli[c] = "absent"
           /\ cli[c] \in {"exited", "killed"} => cli'[c] \in {"exited", "killed"},
         \A c \in Conns : out'[c] = out[c] \/ out[c] # <<>>,
         \A i \in DOMAIN mainQueue' :
           \/ i \in DOMAIN mainQueue /\ mainQueue'[i] = mainQueue[i]
           \/ mainQueue'[i].kind \notin {"handle", "forget"}
  PROVE  Asking'
  BY DEF Asking, Opening

\* The request of a command arrives.
LEMMA AskingReceive ==
  ASSUME TypeOK, Asking, NEW c \in Conns, NEW r \in Requests,
         cli[c] # "absent", received[c] = 0, Receive(c, r), UNCHANGED cli
  PROVE  Asking'
  <1> DEFINE b == [kind |-> "handle", conn |-> c, req |-> r]
  <1>1. b \in Blocks
    BY DEF Blocks
  <1>2. \A i \in DOMAIN mainQueue' :
          \/ i \in DOMAIN mainQueue /\ mainQueue'[i] = mainQueue[i]
          \/ i = Len(mainQueue) + 1 /\ mainQueue'[i] = b
    BY <1>1, AtTheEnd DEF TypeOK, Receive
  <1>3. UNCHANGED <<conn, out>>
    BY DEF Receive
  <1>4. received'[c] # 0 /\ \A d \in Conns : d # c => received'[d] = received[d]
    BY DEF Receive, TypeOK
  <1>5. b.kind = "handle" /\ b.conn = c
    OBVIOUS
  <1> HIDE DEF b
  <1>6. ASSUME NEW d \in Conns
        PROVE  /\ cli[d] = "absent" => received'[d] = 0
               /\ received'[d] = 0 => out[d] = <<>>
               /\ conn[d] # "up" => cli[d] \in {"exited", "killed"}
    BY <1>4 DEF Asking
  <1>7. ASSUME NEW d \in Conns, NEW i \in DOMAIN mainQueue', Opening(i, d)'
        PROVE  received'[d] # 0 /\ out[d] = <<>>
    <2>1. CASE i \in DOMAIN mainQueue /\ mainQueue'[i] = mainQueue[i]
      BY <1>4, <1>7, <2>1 DEF Asking, Opening
    <2>2. CASE i = Len(mainQueue) + 1 /\ mainQueue'[i] = b
      BY <1>4, <1>5, <1>7, <2>2 DEF Asking, Opening
    <2> QED
      BY <1>2, <2>1, <2>2
  <1>8. ASSUME NEW d \in Conns, NEW i \in DOMAIN mainQueue', NEW j \in DOMAIN mainQueue',
               Opening(i, d)', Opening(j, d)'
        PROVE  i = j
    BY <1>2, <1>5, <1>8 DEF Asking, Opening
  <1>9. ASSUME NEW d \in Conns, NEW i \in DOMAIN mainQueue',
               mainQueue'[i].kind = "forget", mainQueue'[i].conn = d
        PROVE  conn[d] # "up"
    BY <1>2, <1>5, <1>9 DEF Asking
  <1> QED
    BY <1>3, <1>6, <1>7, <1>8, <1>9 DEF Asking

\* A command that is gone is found to be.
LEMMA AskingHangup ==
  ASSUME TypeOK, Asking, NEW c \in Conns,
         cli[c] \in {"exited", "killed"}, Hangup(c), UNCHANGED cli
  PROVE  Asking'
  <1> DEFINE b == [kind |-> "forget", conn |-> c]
  <1>1. b \in Blocks
    BY DEF Blocks
  <1>2. \A i \in DOMAIN mainQueue' :
          \/ i \in DOMAIN mainQueue /\ mainQueue'[i] = mainQueue[i]
          \/ mainQueue'[i] = b
    BY <1>1, AtTheEnd DEF TypeOK, Hangup
  <1>3. UNCHANGED <<received, out>>
    BY DEF Hangup
  <1>4. conn'[c] = "eof" /\ \A d \in Conns : d # c => conn'[d] = conn[d]
    BY DEF Hangup, TypeOK
  <1>5. b.kind = "forget" /\ b.conn = c
    OBVIOUS
  <1> HIDE DEF b
  <1>6. \A i \in DOMAIN mainQueue', d \in Conns :
          Opening(i, d)' => i \in DOMAIN mainQueue /\ Opening(i, d)
    BY <1>2, <1>5 DEF Opening
  <1>7. ASSUME NEW d \in Conns, NEW i \in DOMAIN mainQueue',
               mainQueue'[i].kind = "forget", mainQueue'[i].conn = d
        PROVE  conn'[d] # "up"
    BY <1>2, <1>4, <1>5, <1>7 DEF Asking
  <1> QED
    BY <1>3, <1>4, <1>6, <1>7 DEF Asking

-----------------------------------------------------------------------------
(* Answers, lines and verdicts: what each step of the app does to them.    *)

\* The types that the proofs below use most.
LEMMA SessionTypes ==
  ASSUME AppInv, Session
  PROVE  /\ \A c \in Conns : out[c] \in Seq(Lines) /\ printed[c] \in Seq(Messages)
         /\ \A v \in WebViews : said[v] \in Seq(Messages) /\ ended[v] \in 0..NotYet
         /\ \A c \in Conns : Granted(c) => ItsView(c) \in WebViews
  <1>1. used \subseteq WebViews /\ \A c \in Conns : out[c] \in Seq(Lines)
    BY DEF AppInv, TypeOK
  <1>2. SessionTypeOK /\ Grants
    BY DEF Session
  <1> QED
    BY <1>1, <1>2 DEF SessionTypeOK, Grants

\* The request that is handled is the one request of its command.
LEMMA RequestFacts ==
  ASSUME TypeOK, Asking, Runs("handle")
  PROVE  /\ Client \in Conns /\ Request \in Requests
         /\ Opening(1, Client) /\ 1 \in DOMAIN mainQueue
         /\ out[Client] = <<>> /\ received[Client] # 0
         /\ cli[Client] # "absent"
  <1>1. /\ 1 \in DOMAIN mainQueue /\ Head(mainQueue) = mainQueue[1]
        /\ Head(mainQueue) \in Blocks /\ Head(mainQueue).kind = "handle"
    BY NextBlock
  <1>2. Client \in Conns /\ Request \in Requests
    BY <1>1, BlockTypes DEF Client, Request
  <1>3. Opening(1, Client)
    BY <1>1 DEF Opening, Client
  <1> QED
    BY <1>1, <1>2, <1>3 DEF Asking

\* open: a new id, and the first line of a connection that is up.
LEMMA OpenFacts ==
  ASSUME TypeOK, Asking, HandleOpen
  PROVE  \E v \in WebViews \ used, p \in Panes :
           /\ used' = used \cup {v}
           /\ webviewConnections' = [webviewConnections EXCEPT ![v] = Client]
           /\ mainQueue' = Append(Tail(mainQueue), Creation(v, p))
           /\ out' = IF conn[Client] = "up"
                     THEN [out EXCEPT ![Client] = <<[kind |-> "ok", view |-> v]>>]
                     ELSE out
  <1>1. PICK v \in WebViews \ used :
          /\ used' = used \cup {v}
          /\ webviewConnections' = [webviewConnections EXCEPT ![v] = Client]
          /\ mainQueue' = Append(Tail(mainQueue), Creation(v, Request.pane))
          /\ Send(Client, [kind |-> "ok", view |-> v])
    BY DEF HandleOpen, Creation
  <1>2. Request.pane \in Panes /\ Runs("handle")
    BY DEF HandleOpen
  <1>3. Client \in Conns /\ out[Client] = <<>>
    BY <1>2, RequestFacts
  <1>4. out' = IF conn[Client] = "up"
               THEN [out EXCEPT ![Client] = <<[kind |-> "ok", view |-> v]>>]
               ELSE out
    BY <1>1, <1>3 DEF Send
  <1> QED
    BY <1>1, <1>2, <1>4

\* A refusal is the first line, too.
LEMMA RefusalFacts ==
  ASSUME TypeOK, Asking, HandleOpenRefused
  PROVE  /\ out' = IF conn[Client] = "up"
                   THEN [out EXCEPT ![Client] = <<[kind |-> "error", view |-> NoView]>>]
                   ELSE out
         /\ UNCHANGED <<webviewConnections, containers, used, conn, received>>
         /\ mainQueue' = Tail(mainQueue)
  <1>1. Runs("handle") /\ Send(Client, [kind |-> "error", view |-> NoView])
    BY DEF HandleOpenRefused
  <1>2. Client \in Conns /\ out[Client] = <<>>
    BY <1>1, RequestFacts
  <1>3. out' = IF conn[Client] = "up"
               THEN [out EXCEPT ![Client] = <<[kind |-> "error", view |-> NoView]>>]
               ELSE out
    BY <1>1, <1>2 DEF Send
  <1> QED
    BY <1>3 DEF HandleOpenRefused, tables, clients

\* Every request is an open.
LEMMA OnlyOpens ==
  ASSUME TypeOK, Asking
  PROVE  ~HandleAnswerOnly /\ ~HandleSync
  BY RequestFacts, OpensAssumption DEF HandleAnswerOnly, HandleSync

\* A view with a container closes: its command, if it is still there, is told.
LEMMA CloseFacts ==
  ASSUME AppInv, Session, NEW v \in containers, NEW k \in ExitCodes,
         CloseWebView(v, k), Ends(v, k)
  PROVE  /\ v \in WebViews /\ ended[v] = NotYet
         /\ ended' = [ended EXCEPT ![v] = Clamp(k)]
         /\ webviewConnections' = [webviewConnections EXCEPT ![v] = NoConn]
         /\ UNCHANGED <<said, used, conn, received>>
         /\ \/ \E c \in Conns :
                 /\ conn[c] = "up" /\ Granted(c) /\ ItsView(c) = v
                 /\ Len(out[c]) = Len(said[v]) + 1
                 /\ out' = [out EXCEPT ![c] =
                              Append(@, [kind |-> "closed", view |-> v, code |-> k])]
            \/ /\ UNCHANGED out
               /\ \A c \in Conns : Granted(c) /\ ItsView(c) = v => conn[c] # "up"
  <1> DEFINE d == webviewConnections[v]
  <1>1. /\ v \in WebViews /\ d \in Conns \cup {NoConn}
    BY DEF AppInv, TypeOK
  <1>2. ended[v] = NotYet
    BY <1>1 DEF Session, Fates
  <1>3. /\ ended' = [ended EXCEPT ![v] = Clamp(k)]
        /\ webviewConnections' = [webviewConnections EXCEPT ![v] = NoConn]
        /\ UNCHANGED <<said, used, conn, received>>
    BY DEF Ends, CloseWebView, TellClosed, clients
  <1>4. CASE d # NoConn /\ conn[d] = "up"
    <2>1. d \in Conns /\ Granted(d) /\ ItsView(d) = v
      BY <1>1, <1>4 DEF Session, Grants
    <2>2. Len(out[d]) = Len(said[v]) + 1
      BY <1>2, <2>1 DEF Session, Streams, Heard
    <2>3. out' = [out EXCEPT ![d] =
                    Append(@, [kind |-> "closed", view |-> v, code |-> k])]
      BY <1>4 DEF CloseWebView, TellClosed, Send
    <2> QED
      BY <1>1, <1>2, <1>3, <1>4, <2>1, <2>2, <2>3
  <1>5. CASE ~(d # NoConn /\ conn[d] = "up")
    <2>1. UNCHANGED out
      BY <1>5 DEF CloseWebView, TellClosed, Send
    <2>2. ASSUME NEW c \in Conns, Granted(c), ItsView(c) = v, conn[c] = "up"
          PROVE  FALSE
      <3>1. d = c
        BY <1>2, <2>2 DEF Session, Grants
      <3> QED
        BY <1>5, <2>2, <3>1, NamesAssumption
    <2> QED
      BY <1>1, <1>2, <1>3, <2>1, <2>2
  <1> QED
    BY <1>4, <1>5

\* A view without a container was closed before: nothing changes for it.
LEMMA CloseAgainFacts ==
  ASSUME AppInv, NEW v \in WebViews, v \notin containers, NEW k \in ExitCodes,
         webviewConnections[v] = NoConn, CloseWebView(v, k), Ends(v, k)
  PROVE  /\ UNCHANGED <<mainQueue, webviewConnections, out, said, ended, used,
                        conn, received, containers>>
  BY DEF AppInv, TypeOK, CloseWebView, TellClosed, Ends, clients

\* A page logs: its command, if it is still there, hears it.
LEMMA LogFacts ==
  ASSUME AppInv, Session, NEW v \in WebViews, NEW m \in Messages,
         PageLogs(v, m), Says(v, m)
  PROVE  \/ \E c \in Conns :
              /\ conn[c] = "up" /\ Granted(c) /\ ItsView(c) = v
              /\ ended[v] = NotYet /\ Len(out[c]) = Len(said[v]) + 1
              /\ out' = [out EXCEPT ![c] =
                           Append(@, [kind |-> "console", view |-> v, msg |-> m])]
              /\ said' = [said EXCEPT ![v] = Append(@, m)]
         \/ UNCHANGED <<out, said>>
  <1> DEFINE d == webviewConnections[v]
  <1>1. d \in Conns
    BY DEF AppInv, TypeOK, PageLogs
  <1>2. ended[v] = NotYet
    BY DEF PageLogs, Session, Fates
  <1>3. CASE conn[d] = "up"
    <2>1. Granted(d) /\ ItsView(d) = v
      BY <1>1, <1>3 DEF Session, Grants
    <2>2. Len(out[d]) = Len(said[v]) + 1
      BY <1>1, <1>2, <2>1 DEF Session, Streams, Heard
    <2>3. /\ out' = [out EXCEPT ![d] =
                       Append(@, [kind |-> "console", view |-> v, msg |-> m])]
          /\ said' = [said EXCEPT ![v] = Append(@, m)]
      BY <1>3 DEF PageLogs, Send, Says
    <2> QED
      BY <1>1, <1>2, <1>3, <2>1, <2>2, <2>3
  <1>4. CASE conn[d] # "up"
    BY <1>4 DEF PageLogs, Send, Says
  <1> QED
    BY <1>3, <1>4

-----------------------------------------------------------------------------
(* The steps of the app keep the rest of the invariant.                    *)

\* What the fates, grants, streams and commands are made of.
Told == Fates /\ Grants /\ Streams /\ Commands

\* Nobody is told anything, and no command moves.
LEMMA QuietTold ==
  ASSUME Told,
         UNCHANGED <<webviewConnections, used, out, history, cli, taken, printed>>,
         \A c \in Conns : conn'[c] = "up" => conn[c] = "up",
         \A v \in WebViews :
           v \in containers' \/ (\E p \in Panes : Queued(mainQueue', v, p)) =>
             v \in containers \/ \E p \in Panes : Queued(mainQueue, v, p)
  PROVE  Told'
  <1> USE DEF history
  <1>1. Fates'
    BY DEF Told, Fates
  <1>2. Grants'
    BY DEF Told, Grants, Granted, Answered, ItsView
  <1>3. Streams'
    BY DEF Told, Streams, Granted, Answered, ItsView, Heard
  <1>4. Commands'
    BY DEF Told, Commands, Granted, Answered, ItsView
  <1> QED
    BY <1>1, <1>2, <1>3, <1>4 DEF Told

\* A new id is granted.
LEMMA OpenTold ==
  ASSUME AppInv, Session, NEW c \in Conns, c = Client, HandleOpen,
         UNCHANGED <<history, cli, taken, printed>>
  PROVE  Told'
  <1> USE DEF history
  <1>1. PICK v \in WebViews \ used, r \in Panes :
          /\ used' = used \cup {v}
          /\ webviewConnections' = [webviewConnections EXCEPT ![v] = c]
          /\ mainQueue' = Append(Tail(mainQueue), Creation(v, r))
          /\ out' = IF conn[c] = "up"
                    THEN [out EXCEPT ![c] = <<[kind |-> "ok", view |-> v]>>]
                    ELSE out
    BY OpenFacts DEF AppInv, Session
  <1>2. /\ out[c] = <<>> /\ Runs("handle")
        /\ UNCHANGED <<containers, conn>>
    BY RequestFacts DEF AppInv, Session, HandleOpen, clients
  <1>3. /\ \A u \in WebViews : u # v => webviewConnections'[u] = webviewConnections[u]
        /\ webviewConnections'[v] = c
    BY <1>1 DEF AppInv, TypeOK
  <1>4. /\ \A d \in Conns : d # c => out'[d] = out[d]
        /\ conn[c] = "up" => out'[c] = <<[kind |-> "ok", view |-> v]>>
        /\ conn[c] # "up" => out'[c] = <<>>
    BY <1>1, <1>2 DEF AppInv, TypeOK
  <1>5. /\ said[v] = <<>> /\ ended[v] = NotYet /\ webviewConnections[v] = NoConn
        /\ v \in WebViews
    BY <1>1 DEF Session, Fates
  <1>6. Head(mainQueue).kind # "create" /\ mainQueue # <<>>
          /\ mainQueue \in Seq(Blocks) /\ Once(mainQueue)
          /\ containers \subseteq used
    BY <1>2 DEF Runs, AppInv, TypeOK, Tables
  <1>7. \A u, p : Queued(mainQueue', u, p) => Queued(mainQueue, u, p) \/ u = v
    <2>1. /\ Tail(mainQueue) \in Seq(Blocks) /\ Once(Tail(mainQueue))
          /\ \A u, p : Queued(Tail(mainQueue), u, p) <=> Queued(mainQueue, u, p)
      BY <1>6, OtherPop, BehindHead
    <2>2. \A p \in Panes : ~Queued(Tail(mainQueue), v, p)
      BY <1>1, <2>1 DEF AppInv, Tables
    <2>3. \A u, p : Queued(Append(Tail(mainQueue), Creation(v, r)), u, p)
                      <=> Queued(Tail(mainQueue), u, p) \/ (u = v /\ p = r)
      <3> DEFINE q == Tail(mainQueue)
      <3>1. /\ q \in Seq(Blocks) /\ v \in WebViews /\ r \in Panes /\ Once(q)
            /\ \A p \in Panes : ~Queued(q, v, p)
        BY <1>1, <2>1, <2>2
      <3> HIDE DEF q
      <3>2. \A u, p : Queued(Append(q, Creation(v, r)), u, p)
                        <=> Queued(q, u, p) \/ (u = v /\ p = r)
        BY <3>1, CreatePush
      <3> QED
        BY <3>2 DEF q
    <2> QED
      BY <1>1, <2>1, <2>3
  <1>8. Fates'
    <2> SUFFICES ASSUME NEW u \in WebViews
                 PROVE  /\ u \notin used' =>
                             said[u] = <<>> /\ ended[u] = NotYet
                               /\ webviewConnections'[u] = NoConn
                        /\ u \in containers => ended[u] = NotYet
                        /\ \A p \in Panes : Queued(mainQueue', u, p) => ended[u] = NotYet
                        /\ webviewConnections'[u] # NoConn => ended[u] = NotYet
      BY <1>2 DEF Fates
    <2>1. CASE u = v
      BY <1>1, <1>5, <2>1
    <2>2. CASE u # v
      BY <1>1, <1>3, <1>7, <2>2 DEF Session, Fates
    <2> QED
      BY <2>1, <2>2
  <1>9. /\ ~Granted(c)
        /\ conn[c] = "up" => Granted(c)' /\ ItsView(c)' = v
        /\ conn[c] # "up" => ~Answered(c)'
        /\ \A d \in Conns : d # c =>
             /\ Granted(d)' = Granted(d) /\ ItsView(d)' = ItsView(d)
             /\ Answered(d)' = Answered(d)
    BY <1>2, <1>4 DEF Granted, ItsView, Answered
  <1>10. Grants'
    <2>1. \A d \in Conns : Granted(d)' => ItsView(d)' \in used'
      BY <1>1, <1>9 DEF Session, Grants, Granted, Answered
    <2>2. ASSUME NEW d \in Conns, NEW e \in Conns,
                 Granted(d)', Granted(e)', ItsView(d)' = ItsView(e)'
          PROVE  d = e
      <3>1. \A f \in Conns : f # c /\ Granted(f)' => Granted(f) /\ ItsView(f)' = ItsView(f)
              /\ ItsView(f) # v
        BY <1>1, <1>9 DEF Session, Grants
      <3>2. Granted(c)' => ItsView(c)' = v
        BY <1>9 DEF Granted
      <3> QED
        BY <2>2, <3>1, <3>2 DEF Session, Grants
    <2>3. ASSUME NEW u \in WebViews, NEW d \in Conns,
                 webviewConnections'[u] = d, conn[d] = "up"
          PROVE  Granted(d)' /\ ItsView(d)' = u
      <3>1. CASE u = v
        BY <1>3, <1>9, <2>3, <3>1
      <3>2. CASE u # v
        <4>1. Granted(d) /\ ItsView(d) = u
          BY <1>3, <2>3, <3>2 DEF Session, Grants
        <4>2. d # c
          BY <1>9, <4>1
        <4> QED
          BY <1>9, <4>1, <4>2
      <3> QED
        BY <3>1, <3>2
    <2>4. ASSUME NEW d \in Conns,
                 Granted(d)', conn[d] = "up", ended[ItsView(d)'] = NotYet
          PROVE  webviewConnections'[ItsView(d)'] = d
      <3>1. CASE d = c
        BY <1>3, <1>9, <2>4, <3>1
      <3>2. CASE d # c
        <4>1. Granted(d) /\ ItsView(d)' = ItsView(d) /\ ItsView(d) \in used
          BY <1>9, <2>4, <3>2 DEF Session, Grants
        <4>2. ItsView(d) # v /\ ItsView(d) \in WebViews
          BY <1>1, <4>1, SessionTypes
        <4> QED
          BY <1>3, <2>4, <4>1, <4>2 DEF Session, Grants
      <3> QED
        BY <3>1, <3>2
    <2> QED
      BY <1>2, <2>1, <2>2, <2>3, <2>4 DEF Grants
  <1>11. Streams'
    <2> SUFFICES ASSUME NEW d \in Conns
                 PROVE  /\ Answered(d)' /\ ~Granted(d)' =>
                             Len(out'[d]) = 1 /\ out'[d][1].kind = "error"
                        /\ Granted(d)' => Heard(d, ItsView(d))'
      BY DEF Streams
    <2>1. CASE d = c
      <3>1. Answered(d)' => conn[c] = "up" /\ Granted(d)' /\ ItsView(d)' = v
                              /\ Len(out'[d]) = 1
        BY <1>4, <1>9, <2>1
      <3>2. Len(said[v]) = 0 /\ DOMAIN said[v] = {}
        BY <1>5
      <3>3. Len(out'[d]) = 1 => Heard(d, v)'
        BY <1>5, <3>2 DEF Heard
      <3>4. Granted(d)' => Answered(d)'
        BY DEF Granted
      <3>5. ItsView(d)' = v /\ Heard(d, v)' => Heard(d, ItsView(d))'
        BY DEF Heard
      <3> QED
        BY <3>1, <3>3, <3>4, <3>5
    <2>2. CASE d # c
      <3>1. out'[d] = out[d] /\ conn'[d] = conn[d]
        BY <1>2, <1>4, <2>2
      <3> QED
        BY <1>9, <2>2, <3>1 DEF Session, Streams, Heard
    <2> QED
      BY <2>1, <2>2
  <1>12. Commands'
    <2>1. \A d \in Conns : cli[d] = "streaming" => Granted(d)' /\ ItsView(d)' = ItsView(d)
      BY <1>9 DEF Session, Commands
    <2> QED
      BY <2>1 DEF Session, Commands
  <1> QED
    BY <1>8, <1>10, <1>11, <1>12 DEF Told

\* A request is refused.
LEMMA RefusalTold ==
  ASSUME AppInv, Session, NEW c \in Conns, c = Client, HandleOpenRefused,
         UNCHANGED <<history, cli, taken, printed>>
  PROVE  Told'
  <1> USE DEF history
  <1>1. /\ out' = IF conn[c] = "up"
                  THEN [out EXCEPT ![c] = <<[kind |-> "error", view |-> NoView]>>]
                  ELSE out
        /\ UNCHANGED <<webviewConnections, containers, used, conn, received>>
        /\ mainQueue' = Tail(mainQueue)
    BY RefusalFacts DEF AppInv, Session
  <1>2. out[c] = <<>> /\ Runs("handle")
    BY RequestFacts DEF AppInv, Session, HandleOpenRefused
  <1>3. /\ \A d \in Conns : d # c => out'[d] = out[d]
        /\ Answered(c)' => out'[c] = <<[kind |-> "error", view |-> NoView]>>
    BY <1>1, <1>2 DEF AppInv, TypeOK, Answered
  <1>4. /\ ~Granted(c) /\ ~Granted(c)'
        /\ \A d \in Conns : d # c =>
             /\ Granted(d)' = Granted(d) /\ ItsView(d)' = ItsView(d)
             /\ Answered(d)' = Answered(d)
    BY <1>2, <1>3 DEF Granted, ItsView, Answered
  <1>5. \A v, p : Queued(mainQueue', v, p) => Queued(mainQueue, v, p)
    <2>1. mainQueue \in Seq(Blocks) /\ mainQueue # <<>>
      BY <1>2 DEF AppInv, TypeOK, Runs
    <2> QED
      BY <1>1, <2>1, BehindHead DEF Queued
  <1>6. Fates'
    BY <1>1, <1>5 DEF Session, Fates
  <1>7. Grants'
    BY <1>1, <1>4 DEF Session, Grants
  <1>8. Streams'
    <2>1. ASSUME NEW d \in Conns
          PROVE  /\ Answered(d)' /\ ~Granted(d)' =>
                      Len(out'[d]) = 1 /\ out'[d][1].kind = "error"
                 /\ Granted(d)' => Heard(d, ItsView(d))'
      <3>1. CASE d = c
        BY <1>3, <1>4, <3>1
      <3>2. CASE d # c
        <4>1. out'[d] = out[d] /\ conn'[d] = conn[d]
          BY <1>1, <1>3, <3>2
        <4> QED
          BY <1>4, <3>2, <4>1 DEF Session, Streams, Heard
      <3> QED
        BY <3>1, <3>2
    <2> QED
      BY <2>1 DEF Streams
  <1>9. Commands'
    BY <1>4 DEF Session, Commands
  <1> QED
    BY <1>6, <1>7, <1>8, <1>9 DEF Told

\* A line behind others.
LEMMA LineBehind ==
  ASSUME NEW s \in Seq(Lines), NEW line, s # <<>>
  PROVE  /\ Append(s, line) # <<>> /\ Append(s, line)[1] = s[1]
         /\ Len(Append(s, line)) = Len(s) + 1
         /\ Append(s, line)[Len(s) + 1] = line
         /\ \A i \in 1..Len(s) : Append(s, line)[i] = s[i]
  <1>1. Len(s) \in Nat /\ Len(s) # 0
    OBVIOUS
  <1> QED
    BY <1>1

\* A line to a command that was granted a webview changes no answer.
LEMMA SameAnswers ==
  ASSUME AppInv, Session, NEW c \in Conns, Granted(c), NEW line,
         out' = [out EXCEPT ![c] = Append(@, line)]
  PROVE  /\ out'[c] = Append(out[c], line) /\ \A d \in Conns : d # c => out'[d] = out[d]
         /\ \A d \in Conns : /\ Granted(d)' = Granted(d) /\ ItsView(d)' = ItsView(d)
                             /\ Answered(d)' = Answered(d)
  <1>1. /\ out'[c] = Append(out[c], line)
        /\ \A d \in Conns : d # c => out'[d] = out[d]
        /\ out[c] \in Seq(Lines) /\ out[c] # <<>>
    BY DEF AppInv, TypeOK, Granted, Answered
  <1>2. Append(out[c], line) # <<>> /\ Append(out[c], line)[1] = out[c][1]
    BY <1>1, LineBehind
  <1>3. ASSUME NEW d \in Conns
        PROVE  /\ Granted(d)' = Granted(d) /\ ItsView(d)' = ItsView(d)
               /\ Answered(d)' = Answered(d)
    <2>1. CASE d = c
      BY <1>1, <1>2, <2>1 DEF Granted, ItsView, Answered
    <2>2. CASE d # c
      BY <1>1, <2>2 DEF Granted, ItsView, Answered
    <2> QED
      BY <2>1, <2>2
  <1> QED
    BY <1>1, <1>3

\* What every command has read stays as it is when the pages say more.
LEMMA CommandsStay ==
  ASSUME AppInv, Session, UNCHANGED <<cli, taken, printed>>,
         \A d \in Conns : Granted(d)' = Granted(d) /\ ItsView(d)' = ItsView(d),
         NEW v \in WebViews,
         \/ UNCHANGED said
         \/ \E m \in Messages : said' = [said EXCEPT ![v] = Append(@, m)]
  PROVE  Commands'
  <1>1. ASSUME NEW u \in WebViews
        PROVE  /\ said'[u] \in Seq(Messages) /\ Len(said[u]) <= Len(said'[u])
               /\ \A i \in 1..Len(said[u]) : said'[u][i] = said[u][i]
    <2>1. said[u] \in Seq(Messages) /\ said \in [WebViews -> Seq(Messages)]
      BY SessionTypes DEF Session, SessionTypeOK
    <2>2. said'[u] = said[u] \/ \E m \in Messages : said'[u] = Append(said[u], m)
      BY <2>1
    <2>3. ASSUME NEW m \in Messages
          PROVE  /\ Append(said[u], m) \in Seq(Messages)
                 /\ Len(said[u]) <= Len(Append(said[u], m))
                 /\ \A i \in 1..Len(said[u]) : Append(said[u], m)[i] = said[u][i]
      BY <2>1
    <2>4. said'[u] = said[u] => Len(said[u]) <= Len(said'[u])
      BY <2>1
    <2> QED
      BY <2>1, <2>2, <2>3, <2>4
  <1>2. ASSUME NEW d \in Conns, cli[d] = "streaming"
        PROVE  /\ Granted(d)' /\ taken[d] = Len(printed[d]) + 1
               /\ Len(printed[d]) <= Len(said'[ItsView(d)'])
               /\ \A i \in DOMAIN printed[d] : printed[d][i] = said'[ItsView(d)'][i]
    <2> DEFINE u == ItsView(d)
    <2>1. /\ Granted(d) /\ taken[d] = Len(printed[d]) + 1
          /\ Len(printed[d]) <= Len(said[u])
          /\ \A i \in DOMAIN printed[d] : printed[d][i] = said[u][i]
      BY <1>2 DEF Session, Commands
    <2>2. /\ u \in WebViews /\ printed[d] \in Seq(Messages) /\ said[u] \in Seq(Messages)
          /\ said'[u] \in Seq(Messages)
      BY <1>1, <2>1, SessionTypes
    <2>3. Granted(d)' /\ ItsView(d)' = u
      BY <2>1
    <2> HIDE DEF u
    <2>4. /\ Len(said[u]) <= Len(said'[u])
          /\ \A i \in 1..Len(said[u]) : said'[u][i] = said[u][i]
      BY <1>1, <2>2
    <2>5. /\ DOMAIN printed[d] = 1..Len(printed[d]) /\ Len(printed[d]) \in Nat
          /\ Len(said[u]) \in Nat /\ Len(said'[u]) \in Nat
      BY <2>2
    <2>6. Len(printed[d]) <= Len(said'[u])
      BY <2>1, <2>4, <2>5
    <2>7. \A i \in DOMAIN printed[d] : printed[d][i] = said'[u][i]
      BY <2>1, <2>4, <2>5
    <2> QED
      BY <2>1, <2>3, <2>6, <2>7
  <1> QED
    BY <1>2 DEF Session, Commands

\* A view that has a container closes.
LEMMA CloseTold ==
  ASSUME AppInv, Session, NEW v \in containers, NEW k \in ExitCodes,
         CloseWebView(v, k), Ends(v, k), UNCHANGED <<cli, taken, printed>>
  PROVE  Told'
  <1>1. /\ v \in WebViews /\ ended[v] = NotYet
        /\ ended' = [ended EXCEPT ![v] = Clamp(k)]
        /\ webviewConnections' = [webviewConnections EXCEPT ![v] = NoConn]
        /\ UNCHANGED <<said, used, conn, received>>
    BY CloseFacts
  <1>2. Clamp(k) # NotYet
    BY ClampTypes, NamesAssumption
  <1>3. /\ ended'[v] = Clamp(k) /\ ended'[v] # NotYet
        /\ webviewConnections'[v] = NoConn
        /\ \A u \in WebViews : u # v =>
             ended'[u] = ended[u] /\ webviewConnections'[u] = webviewConnections[u]
    BY <1>1, <1>2 DEF Session, SessionTypeOK, AppInv, TypeOK
  <1>4. v \in used /\ containers' = containers \ {v} /\ \A p \in Panes : ~Queued(mainQueue, v, p)
    BY <1>1 DEF AppInv, Tables, CloseWebView
  <1>5. \A u, p : Queued(mainQueue', u, p) => Queued(mainQueue, u, p)
    <2> DEFINE r == webviewToPaneId[v]
               rest == IF r = NoPane THEN <<>> ELSE Without(paneStacks[r], v)
    <2>1. QueueRemoval(v, r, rest)
      BY DEF CloseWebView
    <2>2. r \in Panes \cup {NoPane}
      BY <1>1 DEF AppInv, TypeOK
    <2>3. rest \in Seq(WebViews)
      <3>1. r # NoPane => paneStacks[r] \in Seq(WebViews)
        BY <2>2 DEF AppInv, TypeOK
      <3> QED
        BY <3>1, WithoutKeeps
    <2> HIDE DEF r, rest
    <2>4. PICK b \in Blocks : b.kind = "remove" /\ mainQueue' = Append(mainQueue, b)
      BY <1>1, <2>1, <2>2, <2>3, RemovalTypes DEF AppInv
    <2>5. mainQueue \in Seq(Blocks) /\ Once(mainQueue)
      BY DEF AppInv, TypeOK, Tables
    <2> QED
      BY <2>4, <2>5, OtherPush
  <1>6. Fates'
    <2> SUFFICES ASSUME NEW u \in WebViews
                 PROVE  /\ u \notin used =>
                             said[u] = <<>> /\ ended'[u] = NotYet
                               /\ webviewConnections'[u] = NoConn
                        /\ u \in containers' => ended'[u] = NotYet
                        /\ \A p \in Panes : Queued(mainQueue', u, p) => ended'[u] = NotYet
                        /\ webviewConnections'[u] # NoConn => ended'[u] = NotYet
      BY <1>1 DEF Fates
    <2>1. CASE u = v
      BY <1>3, <1>4, <1>5, <2>1
    <2>2. CASE u # v
      BY <1>3, <1>4, <1>5, <2>2 DEF Session, Fates
    <2> QED
      BY <2>1, <2>2
  <1>7. \A d \in Conns : /\ Granted(d)' = Granted(d) /\ ItsView(d)' = ItsView(d)
                         /\ Answered(d)' = Answered(d)
    <2>1. CASE UNCHANGED out
      BY <2>1 DEF Granted, ItsView, Answered
    <2>2. ASSUME NEW c \in Conns, Granted(c),
                 out' = [out EXCEPT ![c] =
                           Append(@, [kind |-> "closed", view |-> v, code |-> k])]
          PROVE  \A d \in Conns :
                   /\ Granted(d)' = Granted(d) /\ ItsView(d)' = ItsView(d)
                   /\ Answered(d)' = Answered(d)
      BY <2>2, SameAnswers
    <2> QED
      BY <2>1, <2>2, CloseFacts
  <1>8. Grants'
    <2>1. ASSUME NEW u \in WebViews, NEW d \in Conns,
                 webviewConnections'[u] = d, conn'[d] = "up"
          PROVE  Granted(d)' /\ ItsView(d)' = u
      BY <1>1, <1>3, <1>7, <2>1, NamesAssumption DEF Session, Grants
    <2>2. ASSUME NEW d \in Conns, Granted(d)', conn'[d] = "up", ended'[ItsView(d)'] = NotYet
          PROVE  webviewConnections'[ItsView(d)'] = d
      <3>1. Granted(d) /\ ItsView(d) \in WebViews /\ ItsView(d)' = ItsView(d)
        BY <1>7, <2>2, SessionTypes
      <3>2. ItsView(d) # v
        BY <1>3, <2>2, <3>1
      <3> QED
        BY <1>1, <1>3, <2>2, <3>1, <3>2 DEF Session, Grants
    <2>3. /\ \A c \in Conns : Granted(c)' => ItsView(c)' \in used'
          /\ \A c, d \in Conns :
               Granted(c)' /\ Granted(d)' /\ ItsView(c)' = ItsView(d)' => c = d
      BY <1>1, <1>7 DEF Session, Grants
    <2> QED
      BY <2>1, <2>2, <2>3 DEF Grants
  <1>9. Streams'
    <2> SUFFICES ASSUME NEW d \in Conns
                 PROVE  /\ Answered(d)' /\ ~Granted(d)' =>
                             Len(out'[d]) = 1 /\ out'[d][1].kind = "error"
                        /\ Granted(d)' => Heard(d, ItsView(d))'
      BY DEF Streams
    <2>1. CASE ~Granted(d) /\ out'[d] = out[d]
      BY <1>7, <2>1 DEF Session, Streams
    <2>2. CASE Granted(d) /\ ItsView(d) # v /\ out'[d] = out[d]
      <3>1. ItsView(d) \in WebViews /\ Heard(d, ItsView(d))
        BY <2>2, SessionTypes DEF Session, Streams
      <3>2. ended'[ItsView(d)] = ended[ItsView(d)]
        BY <1>3, <2>2, <3>1
      <3>3. Heard(d, ItsView(d))'
        BY <1>1, <1>7, <2>2, <3>1, <3>2 DEF Heard
      <3> QED
        BY <1>7, <2>2, <3>3
    <2>3. CASE Granted(d) /\ ItsView(d) = v /\ conn[d] # "up" /\ out'[d] = out[d]
      <3>1. Heard(d, v) /\ Len(out[d]) = Len(said[v]) + 1
        BY <1>1, <2>3 DEF Session, Streams, Heard
      <3>2. Heard(d, v)'
        BY <1>1, <2>3, <3>1 DEF Heard
      <3> QED
        BY <1>7, <2>3, <3>2 DEF Heard
    <2>4. CASE /\ Granted(d) /\ ItsView(d) = v
               /\ Len(out[d]) = Len(said[v]) + 1
               /\ out' = [out EXCEPT ![d] =
                            Append(@, [kind |-> "closed", view |-> v, code |-> k])]
      <3> DEFINE line == [kind |-> "closed", view |-> v, code |-> k]
      <3>1. out'[d] = Append(out[d], line) /\ out[d] \in Seq(Lines) /\ out[d] # <<>>
        BY <2>4 DEF AppInv, TypeOK, Granted, Answered
      <3>2. said[v] \in Seq(Messages) /\ line.kind = "closed" /\ line.code = k
        BY <1>1, SessionTypes
      <3>3. Heard(d, v)
        BY <2>4 DEF Session, Streams
      <3> HIDE DEF line
      <3>4. /\ Len(out'[d]) = Len(said[v]) + 2 /\ out'[d][Len(said[v]) + 2] = line
            /\ \A i \in 1..(Len(said[v]) + 1) : out'[d][i] = out[d][i]
        <4>1. /\ Len(out'[d]) = Len(out[d]) + 1 /\ out'[d][Len(out[d]) + 1] = line
              /\ \A i \in 1..Len(out[d]) : out'[d][i] = out[d][i]
          BY <3>1, LineBehind
        <4>2. Len(said[v]) \in Nat
          BY <3>2
        <4>3. Len(out[d]) + 1 = Len(said[v]) + 2
          BY <2>4, <4>2
        <4> QED
          BY <2>4, <4>1, <4>3
      <3>5. \A i \in DOMAIN said[v] :
              out'[d][i + 1].kind = "console" /\ out'[d][i + 1].msg = said[v][i]
        <4>1. \A i \in DOMAIN said[v] : i + 1 \in 1..(Len(said[v]) + 1)
          BY <3>2
        <4> QED
          BY <3>3, <3>4, <4>1 DEF Heard
      <3>6. Heard(d, v)'
        <4>1. Len(said[v]) + 2 # Len(said[v]) + 1
          BY <3>2
        <4> QED
          BY <1>1, <1>3, <3>2, <3>4, <3>5, <4>1 DEF Heard
      <3>7. ItsView(d)' = v
        BY <1>7, <2>4
      <3>8. Heard(d, ItsView(d))'
        BY <3>6, <3>7 DEF Heard
      <3> QED
        BY <1>7, <2>4, <3>8
    <2>5. /\ \/ out'[d] = out[d]
             \/ /\ Granted(d) /\ ItsView(d) = v
                /\ Len(out[d]) = Len(said[v]) + 1
                /\ out' = [out EXCEPT ![d] =
                             Append(@, [kind |-> "closed", view |-> v, code |-> k])]
          /\ Granted(d) /\ ItsView(d) = v /\ out'[d] = out[d] => conn[d] # "up"
      <3>1. CASE UNCHANGED out /\ \A c \in Conns : Granted(c) /\ ItsView(c) = v => conn[c] # "up"
        BY <3>1
      <3>2. ASSUME NEW c \in Conns, conn[c] = "up", Granted(c), ItsView(c) = v,
                   Len(out[c]) = Len(said[v]) + 1,
                   out' = [out EXCEPT ![c] =
                             Append(@, [kind |-> "closed", view |-> v, code |-> k])]
            PROVE  /\ \/ out'[d] = out[d]
                      \/ /\ Granted(d) /\ ItsView(d) = v
                         /\ Len(out[d]) = Len(said[v]) + 1
                         /\ out' = [out EXCEPT ![d] = Append(@,
                                      [kind |-> "closed", view |-> v, code |-> k])]
                   /\ Granted(d) /\ ItsView(d) = v /\ out'[d] = out[d] => conn[d] # "up"
        <4>1. CASE d = c
          <5>1. out'[c] # out[c]
            BY <3>2, SameAnswers, LineBehind DEF AppInv, TypeOK, Granted, Answered
          <5> QED
            BY <3>2, <4>1, <5>1
        <4>2. CASE d # c
          <5>1. out'[d] = out[d]
            BY <3>2, <4>2, SameAnswers
          <5>2. Granted(d) => ItsView(d) # v
            BY <3>2, <4>2 DEF Session, Grants
          <5> QED
            BY <5>1, <5>2
        <4> QED
          BY <4>1, <4>2
      <3> QED
        BY <3>1, <3>2, CloseFacts
    <2> QED
      BY <2>1, <2>2, <2>3, <2>4, <2>5
  <1>10. Commands'
    BY <1>1, <1>7, CommandsStay
  <1> QED
    BY <1>6, <1>8, <1>9, <1>10 DEF Told

\* A page logs, and its command hears it.
LEMMA LogTold ==
  ASSUME AppInv, Session, NEW v \in WebViews, NEW m \in Messages,
         PageLogs(v, m), Says(v, m), UNCHANGED <<cli, taken, printed>>
  PROVE  Told'
  <1>1. UNCHANGED <<webviewConnections, containers, used, conn, mainQueue, ended>>
    BY DEF PageLogs, Says, tables, clients
  <1>2. CASE UNCHANGED <<out, said>>
    BY <1>1, <1>2, QuietTold DEF history, Session, Told
  <1>3. ASSUME NEW c \in Conns,
               conn[c] = "up", Granted(c), ItsView(c) = v,
               ended[v] = NotYet, Len(out[c]) = Len(said[v]) + 1,
               out' = [out EXCEPT ![c] =
                         Append(@, [kind |-> "console", view |-> v, msg |-> m])],
               said' = [said EXCEPT ![v] = Append(@, m)]
        PROVE  Told'
    <2> DEFINE line == [kind |-> "console", view |-> v, msg |-> m]
    <2>1. /\ out'[c] = Append(out[c], line) /\ \A d \in Conns : d # c => out'[d] = out[d]
          /\ \A d \in Conns : /\ Granted(d)' = Granted(d) /\ ItsView(d)' = ItsView(d)
                              /\ Answered(d)' = Answered(d)
      BY <1>3, SameAnswers
    <2>2. /\ out[c] \in Seq(Lines) /\ out[c] # <<>> /\ line.kind = "console" /\ line.msg = m
          /\ said[v] \in Seq(Messages)
          /\ said \in [WebViews -> Seq(Messages)]
      BY <1>3, SessionTypes DEF Granted, Answered, Session, SessionTypeOK
    <2> HIDE DEF line
    <2>3. said'[v] = Append(said[v], m) /\ \A u \in WebViews : u # v => said'[u] = said[u]
      BY <1>3, <2>2
    <2>4. v \in used
      BY <1>3 DEF Session, Grants
    <2>5. Fates'
      <3> SUFFICES ASSUME NEW u \in WebViews
                   PROVE  /\ u \notin used =>
                               said'[u] = <<>> /\ ended[u] = NotYet
                                 /\ webviewConnections[u] = NoConn
                          /\ u \in containers => ended[u] = NotYet
                          /\ \A p \in Panes : Queued(mainQueue, u, p) => ended[u] = NotYet
                          /\ webviewConnections[u] # NoConn => ended[u] = NotYet
        BY <1>1 DEF Fates
      <3> QED
        BY <2>3, <2>4 DEF Session, Fates
    <2>6. Grants'
      BY <1>1, <2>1 DEF Session, Grants
    <2>7. Heard(c, v)'
      <3>1. Heard(c, v) /\ Len(said[v]) \in Nat
        BY <1>3, <2>2 DEF Session, Streams
      <3>2. /\ Len(out'[c]) = Len(said[v]) + 2
            /\ out'[c][Len(said[v]) + 2] = line
            /\ \A i \in 1..(Len(said[v]) + 1) : out'[c][i] = out[c][i]
        <4>1. /\ Len(out'[c]) = Len(out[c]) + 1 /\ out'[c][Len(out[c]) + 1] = line
              /\ \A i \in 1..Len(out[c]) : out'[c][i] = out[c][i]
          BY <2>1, <2>2, LineBehind
        <4>2. Len(out[c]) + 1 = Len(said[v]) + 2
          BY <1>3, <3>1
        <4> QED
          BY <1>3, <4>1, <4>2
      <3>3. /\ Len(said'[v]) = Len(said[v]) + 1
            /\ DOMAIN said'[v] = 1..(Len(said[v]) + 1)
            /\ said'[v][Len(said[v]) + 1] = m
            /\ \A i \in 1..Len(said[v]) : said'[v][i] = said[v][i]
        BY <2>2, <2>3
      <3>4. DOMAIN said[v] = 1..Len(said[v])
        BY <2>2
      <3>5. ASSUME NEW i \in DOMAIN said'[v]
            PROVE  out'[c][i + 1].kind = "console" /\ out'[c][i + 1].msg = said'[v][i]
        <4>1. CASE i \in 1..Len(said[v])
          <5>1. i + 1 \in 1..(Len(said[v]) + 1)
            BY <3>1, <4>1
          <5> QED
            BY <3>1, <3>2, <3>3, <3>4, <4>1, <5>1 DEF Heard
        <4>2. CASE i = Len(said[v]) + 1
          <5>1. i + 1 = Len(said[v]) + 2
            BY <3>1, <4>2
          <5> QED
            BY <2>2, <3>2, <3>3, <4>2, <5>1
        <4> QED
          BY <3>1, <3>3, <4>1, <4>2
      <3>6. Len(out'[c]) = Len(said'[v]) + 1
        BY <3>1, <3>2, <3>3
      <3> QED
        BY <1>1, <1>3, <3>5, <3>6 DEF Heard
    <2>8. Streams'
      <3> SUFFICES ASSUME NEW d \in Conns
                   PROVE  /\ Answered(d)' /\ ~Granted(d)' =>
                               Len(out'[d]) = 1 /\ out'[d][1].kind = "error"
                          /\ Granted(d)' => Heard(d, ItsView(d))'
        BY DEF Streams
      <3>1. CASE d = c
        <4>1. Granted(d)' /\ ItsView(d)' = v
          BY <1>3, <2>1, <3>1
        <4>2. Heard(d, v)'
          BY <2>7, <3>1 DEF Heard
        <4> QED
          BY <4>1, <4>2 DEF Heard
      <3>2. CASE d # c
        <4>1. CASE Granted(d)
          <5>1. ItsView(d) # v /\ ItsView(d) \in WebViews /\ Heard(d, ItsView(d))
            BY <1>3, <3>2, <4>1, SessionTypes DEF Session, Grants, Streams
          <5>2. out'[d] = out[d] /\ said'[ItsView(d)] = said[ItsView(d)]
            BY <2>1, <2>3, <3>2, <5>1
          <5> QED
            BY <1>1, <2>1, <4>1, <5>1, <5>2 DEF Heard
        <4>2. CASE ~Granted(d)
          BY <2>1, <3>2, <4>2 DEF Session, Streams
        <4> QED
          BY <4>1, <4>2
      <3> QED
        BY <3>1, <3>2
    <2>9. Commands'
      BY <1>3, <2>1, CommandsStay
    <2> QED
      BY <2>5, <2>6, <2>8, <2>9 DEF Told
  <1> QED
    BY <1>2, <1>3, LogFacts

-----------------------------------------------------------------------------
(* The steps of a command.                                                 *)

\* The answer is the first line.
LEMMA AnswerFacts ==
  ASSUME AppInv, Session, NEW c \in Conns, cli[c] = "waiting", Pending(c) > 0
  PROVE  /\ NextLine(c) = out[c][1] /\ Answered(c)
         /\ NextLine(c).kind = "ok" <=> Granted(c)
         /\ taken[c] = 0 /\ printed[c] = <<>>
  <1>1. taken[c] = 0 /\ printed[c] = <<>> /\ out[c] \in Seq(Lines)
    BY SessionTypes DEF Session, Commands
  <1>2. NextLine(c) = out[c][1]
    BY <1>1 DEF NextLine
  <1>3. out[c] # <<>>
    BY <1>1 DEF Pending
  <1> QED
    BY <1>1, <1>2, <1>3 DEF Answered, Granted

\* What a command reads next: the next line of its page, or the verdict
\* behind the last one.
LEMMA EventFacts ==
  ASSUME AppInv, Session, NEW c \in Conns, cli[c] = "streaming", Pending(c) > 0
  PROVE  /\ Granted(c) /\ ItsView(c) \in WebViews
         /\ \/ /\ NextLine(c).kind = "console"
               /\ Len(printed[c]) < Len(said[ItsView(c)])
               /\ NextLine(c).msg = said[ItsView(c)][Len(printed[c]) + 1]
            \/ /\ NextLine(c).kind = "closed"
               /\ Len(printed[c]) = Len(said[ItsView(c)])
               /\ ended[ItsView(c)] # NotYet
               /\ ended[ItsView(c)] = Clamp(NextLine(c).code)
  <1> DEFINE v == ItsView(c)
             n == Len(printed[c])
             k == Len(said[v])
  <1>1. /\ Granted(c) /\ taken[c] = n + 1 /\ n <= k
        /\ \A i \in DOMAIN printed[c] : printed[c][i] = said[v][i]
    BY DEF Session, Commands
  <1>2. /\ v \in WebViews /\ printed[c] \in Seq(Messages) /\ said[v] \in Seq(Messages)
        /\ out[c] \in Seq(Lines) /\ Heard(c, v)
    BY <1>1, SessionTypes DEF Session, Streams
  <1>3. n \in Nat /\ k \in Nat /\ Len(out[c]) \in Nat /\ DOMAIN said[v] = 1..k
    BY <1>2
  <1> HIDE DEF n, k, v
  <1>4. n + 2 <= Len(out[c]) /\ NextLine(c) = out[c][n + 2]
    <2>1. taken[c] + 1 = n + 2
      BY <1>1, <1>3
    <2>2. Len(out[c]) > taken[c]
      BY <1>1, <1>3 DEF Pending
    <2> QED
      BY <1>1, <1>3, <2>1, <2>2 DEF NextLine
  <1>5. CASE n < k
    <2>1. n + 1 \in 1..k /\ (n + 1) + 1 = n + 2
      BY <1>3, <1>5
    <2>2. out[c][n + 2].kind = "console" /\ out[c][n + 2].msg = said[v][n + 1]
      BY <1>2, <1>3, <2>1 DEF Heard
    <2> QED
      BY <1>1, <1>2, <1>4, <1>5, <2>2 DEF n, k, v
  <1>6. CASE n = k
    <2>1. Len(out[c]) # k + 1
      BY <1>3, <1>4, <1>6
    <2>2. /\ out[c][n + 2].kind = "closed" /\ ended[v] # NotYet
          /\ ended[v] = Clamp(out[c][n + 2].code)
      BY <1>2, <1>6, <2>1 DEF Heard, k
    <2> QED
      BY <1>1, <1>2, <1>4, <1>6, <2>2 DEF n, k, v
  <1> QED
    BY <1>1, <1>3, <1>5, <1>6

\* A step of one command: what it must leave behind for that command.
LEMMA MoveKeeps ==
  ASSUME AppInv, Session, NEW c \in Conns, UNCHANGED <<vars, history>>,
         \A d \in Conns : d # c =>
           cli'[d] = cli[d] /\ taken'[d] = taken[d] /\ printed'[d] = printed[d],
         cli'[c] # "absent",
         cli[c] \notin {"exited", "killed"},
         cli'[c] = "waiting" => taken'[c] = 0 /\ printed'[c] = <<>>,
         cli'[c] = "streaming" =>
           /\ Granted(c) /\ taken'[c] = Len(printed'[c]) + 1
           /\ Len(printed'[c]) <= Len(said[ItsView(c)])
           /\ \A i \in DOMAIN printed'[c] : printed'[c][i] = said[ItsView(c)][i]
  PROVE  Asking' /\ Told'
  <1> USE DEF history
  <1>1. UNCHANGED <<containers, webviewConnections, used, conn, received, out, mainQueue>>
    BY DEF vars
  <1>2. ASSUME NEW d \in Conns
        PROVE  /\ cli'[d] = "absent" => cli[d] = "absent"
               /\ cli[d] \in {"exited", "killed"} => cli'[d] \in {"exited", "killed"}
    <2>1. CASE d = c
      BY <2>1
    <2>2. CASE d # c
      BY <2>2
    <2> QED
      BY <2>1, <2>2
  <1>3. Asking'
    BY <1>1, <1>2, AskingStays DEF Session
  <1>4. Fates'
    BY <1>1 DEF Session, Fates
  <1>5. \A d \in Conns : /\ Granted(d)' = Granted(d) /\ ItsView(d)' = ItsView(d)
                         /\ Answered(d)' = Answered(d)
    BY <1>1 DEF Granted, ItsView, Answered
  <1>6. Grants'
    BY <1>1, <1>5 DEF Session, Grants
  <1>7. Streams'
    BY <1>1, <1>5 DEF Session, Streams, Heard
  <1>8. Commands'
    <2> SUFFICES ASSUME NEW d \in Conns
                 PROVE  /\ cli'[d] \in {"absent", "waiting"} =>
                             taken'[d] = 0 /\ printed'[d] = <<>>
                        /\ cli'[d] = "streaming" =>
                             /\ Granted(d)' /\ taken'[d] = Len(printed'[d]) + 1
                             /\ Len(printed'[d]) <= Len(said'[ItsView(d)'])
                             /\ \A i \in DOMAIN printed'[d] :
                                  printed'[d][i] = said'[ItsView(d)'][i]
      BY DEF Commands
    <2>1. CASE d = c
      BY <1>5, <2>1
    <2>2. CASE d # c
      <3>1. cli'[d] = cli[d] /\ taken'[d] = taken[d] /\ printed'[d] = printed[d]
        BY <2>2
      <3> QED
        BY <1>5, <3>1 DEF Session, Commands
    <2> QED
      BY <2>1, <2>2
  <1> QED
    BY <1>3, <1>4, <1>6, <1>7, <1>8 DEF Told

\* Every command step keeps the invariant.
LEMMA CommandKeeps ==
  ASSUME AppInv, Session, NEW c \in Conns, Start(c) \/ Command(c) \/ Killed(c)
  PROVE  Session'
  <1> USE DEF history
  <1>1. /\ app \in {"running", "gone"}
        /\ cli \in [Conns -> {"absent", "waiting", "streaming", "exited", "killed"}]
        /\ code \in [Conns -> 0..255] /\ taken \in [Conns -> Nat]
        /\ printed \in [Conns -> Seq(Messages)]
        /\ said \in [WebViews -> Seq(Messages)] /\ ended \in [WebViews -> 0..NotYet]
    BY DEF Session, SessionTypeOK
  <1>2. ASSUME NEW k \in 0..255, Exits(c, k), UNCHANGED <<vars, history, app, printed>>,
               cli[c] \in {"waiting", "streaming"}, taken' \in [Conns -> Nat],
               \A d \in Conns : d # c => taken'[d] = taken[d]
        PROVE  Session'
    <2>1. /\ cli'[c] = "exited" /\ \A d \in Conns : d # c => cli'[d] = cli[d]
          /\ cli' \in [Conns -> {"absent", "waiting", "streaming", "exited", "killed"}]
          /\ code' \in [Conns -> 0..255]
      BY <1>1, <1>2 DEF Exits
    <2>2. SessionTypeOK'
      BY <1>1, <1>2, <2>1 DEF SessionTypeOK
    <2>3. Asking' /\ Told'
      BY <1>2, <2>1, MoveKeeps
    <2> QED
      BY <2>2, <2>3 DEF Session, Told
  <1>3. CASE Start(c)
    <2>1. /\ cli'[c] = "waiting" /\ \A d \in Conns : d # c => cli'[d] = cli[d]
          /\ cli' \in [Conns -> {"absent", "waiting", "streaming", "exited", "killed"}]
          /\ UNCHANGED <<vars, history, app, code, taken, printed>>
          /\ cli[c] = "absent"
      BY <1>1, <1>3 DEF Start
    <2>2. SessionTypeOK'
      BY <1>1, <2>1 DEF SessionTypeOK
    <2>3. taken[c] = 0 /\ printed[c] = <<>>
      BY <2>1 DEF Session, Commands
    <2>4. Asking' /\ Told'
      BY <2>1, <2>3, MoveKeeps
    <2> QED
      BY <2>2, <2>4 DEF Session, Told
  <1>4. CASE Killed(c)
    <2>1. /\ cli'[c] = "killed" /\ \A d \in Conns : d # c => cli'[d] = cli[d]
          /\ cli' \in [Conns -> {"absent", "waiting", "streaming", "exited", "killed"}]
          /\ UNCHANGED <<vars, history, app, code, taken, printed>>
          /\ cli[c] \in {"waiting", "streaming"}
      BY <1>1, <1>4 DEF Killed
    <2>2. SessionTypeOK'
      BY <1>1, <2>1 DEF SessionTypeOK
    <2>3. Asking' /\ Told'
      BY <2>1, MoveKeeps
    <2> QED
      BY <2>2, <2>3 DEF Session, Told
  <1>5. CASE ReadAnswer(c)
    <2>1. /\ taken' = [taken EXCEPT ![c] = @ + 1] /\ cli[c] = "waiting" /\ Pending(c) > 0
          /\ UNCHANGED <<vars, history, app, printed>>
      BY <1>5 DEF ReadAnswer
    <2>2. /\ taken' \in [Conns -> Nat] /\ taken'[c] = 1
          /\ \A d \in Conns : d # c => taken'[d] = taken[d]
      BY <1>1, <2>1, AnswerFacts
    <2>3. CASE NextLine(c).kind = "ok"
      <3>1. /\ cli' = [cli EXCEPT ![c] = "streaming"] /\ code' = code
            /\ Granted(c) /\ printed[c] = <<>>
        BY <1>5, <2>1, <2>3, AnswerFacts DEF ReadAnswer
      <3>2. /\ cli'[c] = "streaming" /\ \A d \in Conns : d # c => cli'[d] = cli[d]
            /\ cli' \in [Conns -> {"absent", "waiting", "streaming", "exited", "killed"}]
        BY <1>1, <3>1
      <3>3. SessionTypeOK'
        BY <1>1, <2>1, <2>2, <3>1, <3>2 DEF SessionTypeOK
      <3>4. Len(said[ItsView(c)]) \in Nat
        BY <3>1, SessionTypes
      <3>5. Asking' /\ Told'
        BY <2>1, <2>2, <3>1, <3>2, <3>4, MoveKeeps
      <3> QED
        BY <3>3, <3>5 DEF Session, Told
    <2>4. CASE NextLine(c).kind # "ok"
      <3>1. Exits(c, 1)
        BY <1>5, <2>4 DEF ReadAnswer
      <3> QED
        BY <1>2, <2>1, <2>2, <3>1
    <2> QED
      BY <2>3, <2>4
  <1>6. CASE ReadTooMuch(c)
    BY <1>1, <1>2, <1>6 DEF ReadTooMuch
  <1>7. CASE ReadEnd(c)
    BY <1>1, <1>2, <1>7 DEF ReadEnd
  <1>8. CASE ReadEvent(c)
    <2>1. /\ taken' = [taken EXCEPT ![c] = @ + 1] /\ cli[c] = "streaming" /\ Pending(c) > 0
          /\ UNCHANGED <<vars, history, app>>
      BY <1>8 DEF ReadEvent
    <2>2. /\ taken' \in [Conns -> Nat] /\ taken'[c] = taken[c] + 1
          /\ \A d \in Conns : d # c => taken'[d] = taken[d]
      BY <1>1, <2>1
    <2>3. Granted(c) /\ ItsView(c) \in WebViews
      BY <2>1, EventFacts
    <2>4. CASE /\ NextLine(c).kind = "console"
               /\ printed' = [printed EXCEPT ![c] = Append(@, NextLine(c).msg)]
               /\ UNCHANGED <<cli, code>>
      <3> DEFINE v == ItsView(c)
      <3>1. /\ Len(printed[c]) < Len(said[v])
            /\ NextLine(c).msg = said[v][Len(printed[c]) + 1]
        BY <2>1, <2>4, EventFacts
      <3>2. /\ taken[c] = Len(printed[c]) + 1
            /\ \A i \in DOMAIN printed[c] : printed[c][i] = said[v][i]
        BY <2>1 DEF Session, Commands
      <3>3. printed[c] \in Seq(Messages) /\ said[v] \in Seq(Messages)
        BY <1>1, <2>3
      <3>4. printed'[c] = Append(printed[c], said[v][Len(printed[c]) + 1])
        BY <1>1, <2>4, <3>1
      <3>5. \A d \in Conns : d # c => printed'[d] = printed[d]
        BY <1>1, <2>4
      <3> HIDE DEF v
      <3>6. said[v][Len(printed[c]) + 1] \in Messages
        BY <3>1, <3>3
      <3>7. /\ printed'[c] \in Seq(Messages) /\ Len(printed'[c]) = Len(printed[c]) + 1
            /\ \A i \in DOMAIN printed'[c] : printed'[c][i] = said[v][i]
        BY <3>2, <3>3, <3>4, <3>6
      <3>8. printed' \in [Conns -> Seq(Messages)]
        BY <1>1, <2>4, <3>1, <3>6
      <3>9. SessionTypeOK'
        BY <1>1, <2>1, <2>2, <2>4, <3>8 DEF SessionTypeOK
      <3>10. /\ taken'[c] = Len(printed'[c]) + 1 /\ Len(printed'[c]) <= Len(said[v])
        BY <2>2, <3>1, <3>2, <3>3, <3>7
      <3>11. Asking' /\ Told'
        BY <2>1, <2>2, <2>3, <2>4, <3>5, <3>7, <3>10, MoveKeeps DEF v
      <3> QED
        BY <3>9, <3>11 DEF Session, Told
    <2>5. CASE /\ NextLine(c).kind = "closed"
               /\ Exits(c, Clamp(NextLine(c).code))
               /\ UNCHANGED printed
      <3>1. Clamp(NextLine(c).code) \in 0..255
        <4> DEFINE v == ItsView(c)
        <4>1. ended[v] = Clamp(NextLine(c).code) /\ ended[v] # NotYet
          BY <2>1, <2>5, EventFacts
        <4>2. ended[v] \in 0..NotYet
          BY <1>1, <2>3
        <4> HIDE DEF v
        <4> QED
          BY <4>1, <4>2 DEF NotYet
      <3> QED
        BY <1>2, <2>1, <2>2, <2>5, <3>1
    <2> QED
      BY <1>8, <2>4, <2>5 DEF ReadEvent
  <1> QED
    BY <1>3, <1>4, <1>5, <1>6, <1>7, <1>8 DEF Command

-----------------------------------------------------------------------------
(* The invariant holds.                                                    *)

\* The types, at a step of the app.
LEMMA AppTypes ==
  ASSUME Session, UNCHANGED cliVars,
         said' \in [WebViews -> Seq(Messages)], ended' \in [WebViews -> 0..NotYet]
  PROVE  SessionTypeOK'
  BY DEF Session, SessionTypeOK, cliVars

\* A block that leaves the queue, and changes no client.
LEMMA BlockKeeps ==
  ASSUME AppInv, Session, UNCHANGED <<cliVars, history>>,
         Create \/ CreateFails \/ Remove \/ Forget
  PROVE  Session'
  <1> USE DEF history, cliVars
  <1>1. /\ mainQueue \in Seq(Blocks) /\ mainQueue # <<>> /\ mainQueue' = Tail(mainQueue)
        /\ Once(mainQueue)
        /\ UNCHANGED <<webviewConnections, used, out, received>>
    BY DEF AppInv, TypeOK, Tables, Create, CreateFails, Remove, Forget, Runs, clients,
           tables
  <1>2. /\ 1 \in DOMAIN mainQueue /\ Head(mainQueue) = mainQueue[1]
        /\ \A i \in DOMAIN mainQueue' : i \in Nat \ {0}
        /\ \A i \in DOMAIN mainQueue' :
             i + 1 \in DOMAIN mainQueue /\ mainQueue'[i] = mainQueue[i + 1]
    BY <1>1, BehindHead
  <1>3. \A c \in Conns : conn'[c] = conn[c] \/ (conn'[c] # "up" /\ conn[c] # "up")
    <2>1. CASE Forget
      <3>1. /\ Head(mainQueue).kind = "forget"
            /\ conn' = [conn EXCEPT ![Head(mainQueue).conn] = "freed"]
        BY <2>1 DEF Forget, Runs
      <3>2. \A c \in Conns : Head(mainQueue).conn = c => conn[c] # "up"
        BY <1>2, <3>1 DEF Session, Asking
      <3> QED
        BY <3>1, <3>2 DEF AppInv, TypeOK
    <2>2. CASE Create \/ CreateFails \/ Remove
      BY <2>2 DEF Create, CreateFails, Remove, clients
    <2> QED
      BY <2>1, <2>2
  <1>4. Asking'
    BY <1>1, <1>2, <1>3, AskingPop DEF Session
  <1>5. \A v \in WebViews :
          v \in containers' \/ (\E p \in Panes : Queued(mainQueue', v, p)) =>
            v \in containers \/ \E p \in Panes : Queued(mainQueue, v, p)
    <2>1. \A v, p : Queued(mainQueue', v, p) => Queued(mainQueue, v, p)
      BY <1>2 DEF Queued
    <2>2. CASE Create
      <3>1. Head(mainQueue).kind = "create"
              /\ containers' = containers \cup {Head(mainQueue).view}
        BY <2>2 DEF Create, Runs
      <3>2. Head(mainQueue).pane \in Panes
        BY <1>1, <3>1, BehindHead, BlockTypes
      <3>3. Queued(mainQueue, Head(mainQueue).view, Head(mainQueue).pane)
        BY <1>1, <3>1, CreatePop
      <3> QED
        BY <2>1, <3>1, <3>2, <3>3
    <2>3. CASE CreateFails \/ Remove \/ Forget
      BY <2>1, <2>3 DEF CreateFails, Remove, Forget, tables
    <2> QED
      BY <2>2, <2>3
  <1>6. Told'
    BY <1>1, <1>3, <1>5, QuietTold DEF Session, Told
  <1>7. SessionTypeOK'
    BY AppTypes DEF Session, SessionTypeOK
  <1> QED
    BY <1>4, <1>6, <1>7 DEF Session, Told

\* A block that answers.
LEMMA AnswerKeeps ==
  ASSUME AppInv, Session, UNCHANGED <<cliVars, history>>,
         HandleOpen \/ HandleOpenRefused
  PROVE  Session'
  <1> USE DEF history, cliVars
  <1>1. Runs("handle")
    BY DEF HandleOpen, HandleOpenRefused
  <1>2. PICK c \in Conns : c = Client /\ Opening(1, c) /\ 1 \in DOMAIN mainQueue
    BY <1>1, RequestFacts DEF AppInv, Session
  <1>3. mainQueue \in Seq(Blocks) /\ mainQueue # <<>> /\ UNCHANGED <<conn, received>>
    BY DEF AppInv, TypeOK, HandleOpen, HandleOpenRefused, Runs, clients
  <1>4. \A d \in Conns : out'[d] = out[d] \/ Opening(1, d)
    <2>1. \A d \in Conns : d # c => out'[d] = out[d]
      BY <1>2, OpenFacts, RefusalFacts DEF AppInv, Session, TypeOK
    <2> QED
      BY <1>2, <2>1
  <1>5. /\ \A i \in DOMAIN mainQueue' :
             \/ mainQueue'[i].kind = "create"
             \/ i + 1 \in DOMAIN mainQueue /\ mainQueue'[i] = mainQueue[i + 1]
        /\ \A i \in DOMAIN mainQueue' : i \in Nat \ {0}
    <2> DEFINE q == Tail(mainQueue)
    <2>1. /\ q \in Seq(Blocks)
          /\ \A i \in DOMAIN q : i + 1 \in DOMAIN mainQueue /\ q[i] = mainQueue[i + 1]
      BY <1>3, BehindHead
    <2>2. CASE mainQueue' = q
      BY <2>1, <2>2
    <2>3. CASE HandleOpen
      <3>1. PICK v \in WebViews, p \in Panes : mainQueue' = Append(q, Creation(v, p))
        BY <2>3, OpenFacts DEF AppInv, Session
      <3>2. Creation(v, p) \in Blocks /\ Creation(v, p).kind = "create"
        BY DEF Creation, Blocks
      <3> HIDE DEF q
      <3>3. /\ mainQueue' \in Seq(Blocks)
            /\ \A i \in DOMAIN mainQueue' :
                 \/ i \in DOMAIN q /\ mainQueue'[i] = q[i]
                 \/ mainQueue'[i] = Creation(v, p)
        BY <2>1, <3>1, <3>2, AtTheEnd
      <3> QED
        BY <2>1, <3>2, <3>3
    <2> QED
      BY <2>2, <2>3 DEF HandleOpenRefused
  <1>6. Asking'
    BY <1>2, <1>3, <1>4, <1>5, AskingPop DEF Session
  <1>7. Told'
    BY <1>2, OpenTold, RefusalTold
  <1>8. SessionTypeOK'
    BY AppTypes DEF Session, SessionTypeOK
  <1> QED
    BY <1>6, <1>7, <1>8 DEF Session, Told

\* A webview closes, or is closed again.
LEMMA CloseKeeps ==
  ASSUME AppInv, Session, UNCHANGED cliVars, NEW v \in WebViews, NEW k \in ExitCodes,
         CloseWebView(v, k), Ends(v, k),
         v \in containers \/ webviewConnections[v] = NoConn
  PROVE  Session'
  <1> USE DEF cliVars
  <1>1. CASE v \notin containers
    <2>1. UNCHANGED <<mainQueue, webviewConnections, out, history, used, conn, received,
                      containers>>
      BY <1>1, CloseAgainFacts DEF history
    <2>2. Asking'
      BY <2>1, AskingStays DEF Session
    <2>3. Told'
      BY <2>1, QuietTold DEF Session, Told
    <2>4. SessionTypeOK'
      BY <2>1, AppTypes DEF Session, SessionTypeOK, history
    <2> QED
      BY <2>2, <2>3, <2>4 DEF Session, Told
  <1>2. CASE v \in containers
    <2>1. /\ ended' = [ended EXCEPT ![v] = Clamp(k)] /\ said' = said
          /\ UNCHANGED <<conn, received>>
      BY <1>2, CloseFacts
    <2>2. \A c \in Conns : out'[c] = out[c] \/ out[c] # <<>>
      <3>1. ASSUME NEW c \in Conns, Granted(c),
                   out' = [out EXCEPT ![c] =
                             Append(@, [kind |-> "closed", view |-> v, code |-> k])]
            PROVE  \A d \in Conns : out'[d] = out[d] \/ out[d] # <<>>
        BY <3>1, SameAnswers DEF Granted, Answered
      <3> QED
        BY <1>2, <3>1, CloseFacts
    <2>3. \A i \in DOMAIN mainQueue' :
            \/ i \in DOMAIN mainQueue /\ mainQueue'[i] = mainQueue[i]
            \/ mainQueue'[i].kind \notin {"handle", "forget"}
      <3> DEFINE r == webviewToPaneId[v]
                 rest == IF r = NoPane THEN <<>> ELSE Without(paneStacks[r], v)
      <3>1. QueueRemoval(v, r, rest)
        BY <1>2 DEF CloseWebView
      <3>2. r \in Panes \cup {NoPane}
        BY DEF AppInv, TypeOK
      <3>3. rest \in Seq(WebViews)
        <4>1. r # NoPane => paneStacks[r] \in Seq(WebViews)
          BY <3>2 DEF AppInv, TypeOK
        <4> QED
          BY <4>1, WithoutKeeps
      <3> HIDE DEF r, rest
      <3>4. PICK b \in Blocks : b.kind = "remove" /\ mainQueue' = Append(mainQueue, b)
        BY <3>1, <3>2, <3>3, RemovalTypes DEF AppInv
      <3>5. mainQueue \in Seq(Blocks)
        BY DEF AppInv, TypeOK
      <3> QED
        BY <3>4, <3>5, AtTheEnd
    <2>4. Asking'
      BY <2>1, <2>2, <2>3, AskingStays DEF Session
    <2>5. Told'
      BY <1>2, CloseTold
    <2>6. SessionTypeOK'
      <3>1. Clamp(k) \in 0..NotYet
        BY ClampTypes, NamesAssumption DEF NotYet
      <3>2. ended' \in [WebViews -> 0..NotYet]
        BY <2>1, <3>1 DEF Session, SessionTypeOK
      <3> QED
        BY <2>1, <3>2, AppTypes DEF Session, SessionTypeOK
    <2> QED
      BY <2>4, <2>5, <2>6 DEF Session, Told
  <1> QED
    BY <1>1, <1>2

\* A page logs.
LEMMA LogKeeps ==
  ASSUME AppInv, Session, UNCHANGED cliVars, NEW v \in WebViews, NEW m \in Messages,
         PageLogs(v, m), Says(v, m)
  PROVE  Session'
  <1> USE DEF cliVars
  <1>1. UNCHANGED <<conn, received, mainQueue, ended>>
    BY DEF PageLogs, Says, clients
  <1>2. \A c \in Conns : out'[c] = out[c] \/ out[c] # <<>>
    <2>1. ASSUME NEW c \in Conns, Granted(c),
                 out' = [out EXCEPT ![c] =
                           Append(@, [kind |-> "console", view |-> v, msg |-> m])]
          PROVE  \A d \in Conns : out'[d] = out[d] \/ out[d] # <<>>
      BY <2>1, SameAnswers DEF Granted, Answered
    <2> QED
      BY <2>1, LogFacts
  <1>3. Asking'
    BY <1>1, <1>2, AskingStays DEF Session
  <1>4. Told'
    BY LogTold
  <1>5. SessionTypeOK'
    <2>1. said \in [WebViews -> Seq(Messages)]
      BY DEF Session, SessionTypeOK
    <2>2. Append(said[v], m) \in Seq(Messages)
      BY <2>1
    <2>3. said' \in [WebViews -> Seq(Messages)]
      BY <2>1, <2>2 DEF Says
    <2> QED
      BY <1>1, <2>3, AppTypes DEF Session, SessionTypeOK
  <1> QED
    BY <1>3, <1>4, <1>5 DEF Session, Told

\* A view on screen without a container, or one that waits to be taken down,
\* has no client.
LEMMA ClosableFacts ==
  ASSUME AppInv
  PROVE  /\ \A p \in Panes : subviews[p] # <<>> =>
              LET v == Top(subviews[p])
              IN  v \in WebViews /\ (v \in containers \/ webviewConnections[v] = NoConn)
         /\ \A v \in WebViews : Live(v) =>
              v \in containers \/ webviewConnections[v] = NoConn
  <1>1. ASSUME NEW p \in Panes, subviews[p] # <<>>
        PROVE  LET v == Top(subviews[p])
               IN  v \in WebViews /\ (v \in containers \/ webviewConnections[v] = NoConn)
    <2>1. subviews[p] \in Seq(WebViews)
      BY DEF AppInv, TypeOK
    <2>2. Len(subviews[p]) \in DOMAIN subviews[p] /\ Top(subviews[p]) \in WebViews
      BY <1>1, <2>1 DEF Top
    <2> QED
      BY <2>2 DEF Top, AppInv, Hearing, NobodyLeftToTell
  <1>2. ASSUME NEW v \in WebViews, Live(v)
        PROVE  v \in containers \/ webviewConnections[v] = NoConn
    BY <1>2 DEF Live, Waits, AppInv, Hearing, NobodyLeftToTell, Removal
  <1> QED
    BY <1>1, <1>2

\* What the inductive invariant of the session is: each command asks once, is
\* granted a webview of its own, hears all of it in order and how it ended,
\* and prints what it hears, whatever the app, its users and the other
\* commands do.
THEOREM SessionHolds == SessionSpec => []Session
  <1>1. AppInv /\ Session /\ [SessionNext]_sessionVars => Session'
    <2> SUFFICES ASSUME AppInv, Session, [SessionNext]_sessionVars PROVE Session'
      OBVIOUS
    <2> USE DEF history
    <2>1. ASSUME UNCHANGED <<vars, history, cli, code, taken, printed>>,
                 app' \in {"running", "gone"}
          PROVE  Session'
      <3>1. SessionTypeOK'
        BY <2>1 DEF Session, SessionTypeOK
      <3>2. Asking'
        BY <2>1, AskingStays DEF Session, vars
      <3>3. Told'
        BY <2>1, QuietTold DEF Session, Told, vars
      <3> QED
        BY <3>1, <3>2, <3>3 DEF Session, Told
    <2>2. CASE AppGoes
      BY <2>1, <2>2 DEF AppGoes
    <2>3. ASSUME NEW c \in Conns, Start(c) \/ Command(c) \/ Killed(c) PROVE Session'
      BY <2>3, CommandKeeps
    <2>4. ASSUME UNCHANGED <<cliVars, history>>,
                 UNCHANGED <<webviewConnections, used, out, containers>>,
                 Asking',
                 \A d \in Conns : conn'[d] = "up" => conn[d] = "up",
                 \A v, p : Queued(mainQueue', v, p) => Queued(mainQueue, v, p)
          PROVE  Session'
      <3>1. Told'
        BY <2>4, QuietTold DEF Session, Told, cliVars
      <3>2. SessionTypeOK'
        BY <2>4, AppTypes DEF Session, SessionTypeOK
      <3> QED
        BY <2>4, <3>1, <3>2 DEF Session, Told
    <2>5. CASE AppReads
      <3>1. UNCHANGED <<cliVars, history>>
        BY <2>5 DEF AppReads
      <3>2. mainQueue \in Seq(Blocks) /\ Once(mainQueue)
        BY DEF AppInv, TypeOK, Tables
      <3>3. ASSUME NEW c \in Conns, NEW r \in Requests,
                   cli[c] # "absent", received[c] = 0, Receive(c, r)
            PROVE  Session'
        <4>1. Asking'
          BY <3>1, <3>3, AskingReceive DEF AppInv, Session, cliVars
        <4>2. [kind |-> "handle", conn |-> c, req |-> r] \in Blocks
          BY DEF Blocks
        <4>3. \A v, p : Queued(mainQueue', v, p) => Queued(mainQueue, v, p)
          BY <3>2, <3>3, <4>2, OtherPush DEF Receive
        <4> QED
          BY <2>4, <3>1, <3>3, <4>1, <4>3 DEF Receive, tables
      <3>4. ASSUME NEW c \in Conns, cli[c] \in {"exited", "killed"}, Hangup(c)
            PROVE  Session'
        <4>1. Asking'
          BY <3>1, <3>4, AskingHangup DEF AppInv, Session, cliVars
        <4>2. [kind |-> "forget", conn |-> c] \in Blocks
          BY DEF Blocks
        <4>3. \A v, p : Queued(mainQueue', v, p) => Queued(mainQueue, v, p)
          BY <3>2, <3>4, <4>2, OtherPush DEF Hangup
        <4>4. \A d \in Conns : conn'[d] = "up" => conn[d] = "up"
          BY <3>4 DEF Hangup, AppInv, TypeOK
        <4> QED
          BY <2>4, <3>1, <3>4, <4>1, <4>3, <4>4 DEF Hangup, tables
      <3> QED
        BY <2>5, <3>3, <3>4 DEF AppReads
    <2>6. CASE AppWorks
      <3>1. UNCHANGED cliVars
        BY <2>6 DEF AppWorks
      <3>2. CASE RunBlock /\ UNCHANGED history
        BY <3>1, <3>2, BlockKeeps, AnswerKeeps, OnlyOpens DEF RunBlock, AppInv, Session
      <3>3. ASSUME NEW p \in Panes, PaneOpens(p) \/ PaneDies(p), UNCHANGED history
            PROVE  Session'
        <4>1. UNCHANGED <<webviewConnections, used, out, containers, conn, received,
                          mainQueue>>
          BY <3>3 DEF PaneOpens, PaneDies, tables, clients
        <4>2. Asking'
          BY <3>1, <4>1, AskingStays DEF Session, cliVars
        <4> QED
          BY <2>4, <3>1, <3>3, <4>1, <4>2
      <3>4. ASSUME NEW p \in Panes, UserCloses(p), Ends(Top(subviews[p]), 0)
            PROVE  Session'
        BY <3>1, <3>4, CloseKeeps, ClosableFacts, NamesAssumption DEF UserCloses
      <3>5. ASSUME NEW v \in WebViews, NEW k \in ExitCodes, PageExits(v, k), Ends(v, k)
            PROVE  Session'
        BY <3>1, <3>5, CloseKeeps, ClosableFacts DEF PageExits
      <3>6. ASSUME NEW v \in WebViews, NEW m \in Messages, PageLogs(v, m), Says(v, m)
            PROVE  Session'
        BY <3>1, <3>6, LogKeeps
      <3> QED
        BY <2>6, <3>2, <3>3, <3>4, <3>5, <3>6 DEF AppWorks
    <2>7. CASE UNCHANGED sessionVars
      BY <2>1, <2>7 DEF sessionVars, cliVars, Session, SessionTypeOK
    <2> QED
      BY <2>2, <2>3, <2>5, <2>6, <2>7 DEF SessionNext
  <1> QED
    BY <1>1, SessionStarts, AppInvHolds, PTL DEF SessionSpec

\* The state of a session keeps its types, the exit codes among them: what a
\* command exits with is a byte, whatever number its page passed.
THEOREM SessionTypeCorrect == SessionSpec => []SessionTypeOK
  <1>1. Session => SessionTypeOK
    BY DEF Session
  <1> QED
    BY <1>1, SessionHolds, PTL

-----------------------------------------------------------------------------
(* The steps of the session are steps of BlockingOpen.                     *)

\* BlockingOpen without its fairness.
PromiseSteps == Promise!Init /\ [][Promise!Next]_(Promise!vars)

\* What the variables of BlockingOpen stand for.
Views == [c \in Conns |-> ViewOf(c)]
Verdicts == [c \in Conns |-> VerdictOf(c)]
Logs == [c \in Conns |-> LoggedOf(c)]
Shells == [c \in Conns |-> ShellOf(c)]

\* Nothing that BlockingOpen sees has changed.
LEMMA Stutters ==
  ASSUME UNCHANGED <<Views, Verdicts, Logs, Shells, printed, code>>
  PROVE  UNCHANGED Promise!vars
  BY DEF Promise!vars, Views, Verdicts, Logs, Shells

\* What a command does not change.
LEMMA AppIsStill ==
  ASSUME UNCHANGED <<vars, history>>
  PROVE  UNCHANGED <<Views, Verdicts, Logs>>
  BY DEF vars, history, Views, Verdicts, Logs, ViewOf, VerdictOf, LoggedOf, Granted,
         Answered, ItsView

\* What the app does not change.
LEMMA CommandsAreStill ==
  ASSUME UNCHANGED cliVars
  PROVE  UNCHANGED <<Shells, printed, code>>
  BY DEF cliVars, Shells, ShellOf

\* The first line of a connection and the fate of the webview it grants are
\* all that matters of the app to BlockingOpen.
LEMMA SameForOne ==
  ASSUME NEW c \in Conns, Answered(c)' = Answered(c), Granted(c)' = Granted(c),
         ItsView(c)' = ItsView(c),
         Granted(c) => /\ ended'[ItsView(c)] = ended[ItsView(c)]
                       /\ said'[ItsView(c)] = said[ItsView(c)]
  PROVE  Views'[c] = Views[c] /\ Verdicts'[c] = Verdicts[c] /\ Logs'[c] = Logs[c]
  BY DEF Views, Verdicts, Logs, ViewOf, VerdictOf, LoggedOf

\* What the shell sees when a command moves.
LEMMA ShellMoves ==
  ASSUME Session, NEW c \in Conns, NEW s, cli' = [cli EXCEPT ![c] = s]
  PROVE  Shells' = [Shells EXCEPT ![c] =
                      IF s \in {"waiting", "streaming"} THEN "blocked" ELSE s]
  <1>1. /\ cli'[c] = s
        /\ \A d \in Conns : d # c => cli'[d] = cli[d]
    BY DEF Session, SessionTypeOK
  <1> QED
    BY <1>1 DEF Shells, ShellOf

\* A command exits.
LEMMA ExitMoves ==
  ASSUME Session, NEW c \in Conns, NEW k, Exits(c, k),
         UNCHANGED <<vars, history, printed>>
  PROVE  Promise!Exits(c, k)
  <1>1. Shells' = [Shells EXCEPT ![c] = "exited"]
    BY ShellMoves DEF Exits
  <1>2. UNCHANGED <<Views, Verdicts, Logs>>
    BY AppIsStill
  <1>3. code' = [code EXCEPT ![c] = k]
    BY DEF Exits
  <1> QED
    BY <1>1, <1>2, <1>3 DEF Promise!Exits, Views, Verdicts, Logs, Shells

\* What BlockingOpen sees of one command.
LEMMA Seen ==
  ASSUME Session, NEW c \in Conns
  PROVE  /\ Views[c] = ViewOf(c) /\ Verdicts[c] = VerdictOf(c) /\ Logs[c] = LoggedOf(c)
         /\ cli[c] \in {"waiting", "streaming"} <=> Promise!Blocked(c)
         /\ Promise!Blocked(c) <=> Shells[c] = "blocked"
  <1>1. cli[c] \in {"absent", "waiting", "streaming", "exited", "killed"}
    BY DEF Session, SessionTypeOK
  <1> QED
    BY <1>1 DEF Views, Verdicts, Logs, Shells, ShellOf, Promise!Blocked

\* The steps of a command.
LEMMA CommandImplements ==
  ASSUME AppInv, Session, NEW c \in Conns, Start(c) \/ Command(c) \/ Killed(c)
  PROVE  Promise!Next \/ UNCHANGED Promise!vars
  <1> USE DEF history
  <1>1. CASE Start(c)
    <2>1. UNCHANGED <<vars, history, printed, code>> /\ cli[c] = "absent"
            /\ cli' = [cli EXCEPT ![c] = "waiting"]
      BY <1>1 DEF Start
    <2>2. Shells' = [Shells EXCEPT ![c] = "blocked"] /\ Shells[c] = "absent"
      BY <2>1, ShellMoves DEF Shells, ShellOf
    <2>3. Promise!Ask(c)
      BY <2>1, <2>2, AppIsStill DEF Promise!Ask, Views, Verdicts, Logs, Shells
    <2> QED
      BY <2>3 DEF Promise!Next
  <1>2. CASE Killed(c)
    <2>1. UNCHANGED <<vars, history, printed, code>> /\ cli[c] \in {"waiting", "streaming"}
            /\ cli' = [cli EXCEPT ![c] = "killed"]
      BY <1>2 DEF Killed
    <2>2. Shells' = [Shells EXCEPT ![c] = "killed"]
      BY <2>1, ShellMoves
    <2>3. Promise!Kill(c)
      BY <2>1, <2>2, AppIsStill, Seen DEF Promise!Kill, Views, Verdicts, Logs, Shells
    <2> QED
      BY <2>3 DEF Promise!Next
  <1>3. CASE ReadAnswer(c)
    <2>1. cli[c] = "waiting" /\ Pending(c) > 0 /\ UNCHANGED <<vars, history, printed>>
      BY <1>3 DEF ReadAnswer
    <2>2. CASE NextLine(c).kind = "ok"
      <3>1. cli' = [cli EXCEPT ![c] = "streaming"] /\ code' = code
        BY <1>3, <2>2 DEF ReadAnswer
      <3>2. Shells' = [Shells EXCEPT ![c] = "blocked"] /\ Shells[c] = "blocked"
        BY <2>1, <3>1, ShellMoves DEF Shells, ShellOf
      <3>3. Shells' = Shells
        BY <3>2 DEF Shells
      <3> QED
        BY <2>1, <3>1, <3>3, AppIsStill, Stutters
    <2>3. CASE NextLine(c).kind # "ok"
      <3>1. Exits(c, 1)
        BY <1>3, <2>3 DEF ReadAnswer
      <3>2. ViewOf(c) = "refused"
        BY <2>1, <2>3, AnswerFacts DEF ViewOf
      <3>3. Promise!Refused(c)
        BY <2>1, <3>1, <3>2, ExitMoves, Seen DEF Promise!Refused, Views
      <3> QED
        BY <3>3 DEF Promise!Next
    <2> QED
      BY <2>2, <2>3
  <1>4. CASE ReadTooMuch(c)
    <2>1. cli[c] = "waiting" /\ Pending(c) > 1 /\ Exits(c, 1)
            /\ UNCHANGED <<vars, history, printed>>
      BY <1>4 DEF ReadTooMuch
    <2>2. taken[c] = 0 /\ printed[c] = <<>> /\ out[c] \in Seq(Lines)
      BY <2>1, SessionTypes DEF Session, Commands
    <2> DEFINE n == Len(out[c])
    <2>3. n \in Nat /\ n > 1 /\ Answered(c)
      BY <2>1, <2>2 DEF Pending, Answered
    <2>4. Granted(c)
      <3>1. ~Granted(c) => n = 1
        BY <2>3 DEF Session, Streams
      <3> HIDE DEF n
      <3> QED
        BY <2>3, <3>1
    <2>5. /\ Heard(c, ItsView(c)) /\ said[ItsView(c)] \in Seq(Messages)
      BY <2>4, SessionTypes DEF Session, Streams
    <2>6. said[ItsView(c)] # <<>> \/ ended[ItsView(c)] # NotYet
      BY <2>3, <2>5 DEF Heard
    <2>7. Logs[c] # <<>> \/ Views[c] = "closed"
      BY <2>3, <2>4, <2>6 DEF Logs, Views, LoggedOf, ViewOf
    <2>8. Promise!Garbled(c)
      BY <2>1, <2>2, <2>7, ExitMoves, Seen DEF Promise!Garbled, Views, Logs
    <2> QED
      BY <2>8 DEF Promise!Next
  <1>5. CASE ReadEvent(c)
    <2>1. cli[c] = "streaming" /\ Pending(c) > 0 /\ UNCHANGED <<vars, history>>
      BY <1>5 DEF ReadEvent
    <2> DEFINE v == ItsView(c)
    <2>2. /\ Granted(c) /\ v \in WebViews
          /\ printed[c] \in Seq(Messages) /\ said[v] \in Seq(Messages)
          /\ \A i \in DOMAIN printed[c] : printed[c][i] = said[v][i]
      BY <2>1, EventFacts, SessionTypes DEF Session, Commands
    <2>3. Logs[c] = said[v]
      BY <2>2 DEF Logs, LoggedOf
    <2>4. CASE /\ NextLine(c).kind = "console"
               /\ printed' = [printed EXCEPT ![c] = Append(@, NextLine(c).msg)]
               /\ UNCHANGED <<cli, code>>
      <3>1. /\ Len(printed[c]) < Len(Logs[c])
            /\ NextLine(c).msg = Logs[c][Len(printed[c]) + 1]
        BY <2>1, <2>3, <2>4, EventFacts
      <3>2. printed' = [printed EXCEPT ![c] = Append(@, Logs[c][Len(@) + 1])]
        BY <2>4, <3>1
      <3>3. UNCHANGED <<Views, Verdicts, Logs, Shells, code>>
        BY <2>1, <2>4, AppIsStill DEF Shells, ShellOf
      <3>4. Promise!PrintLine(c)
        BY <2>1, <3>1, <3>2, <3>3, Seen
           DEF Promise!PrintLine, Views, Verdicts, Logs, Shells
      <3> QED
        BY <3>4 DEF Promise!Next
    <2>5. CASE /\ NextLine(c).kind = "closed"
               /\ Exits(c, Clamp(NextLine(c).code))
               /\ UNCHANGED printed
      <3>1. /\ Len(printed[c]) = Len(said[v]) /\ ended[v] # NotYet
            /\ ended[v] = Clamp(NextLine(c).code)
        BY <2>1, <2>5, EventFacts
      <3>2. printed[c] = said[v]
        <4>1. DOMAIN printed[c] = 1..Len(printed[c]) /\ DOMAIN said[v] = 1..Len(said[v])
          BY <2>2
        <4> QED
          BY <2>2, <3>1, <4>1
      <3>3. ViewOf(c) = "closed" /\ VerdictOf(c) = ended[v]
        BY <2>2, <3>1 DEF ViewOf, VerdictOf, Granted
      <3>4. Promise!Exits(c, VerdictOf(c))
        BY <2>1, <2>5, <3>1, <3>3, ExitMoves
      <3>5. Promise!Exit(c)
        BY <2>1, <2>3, <3>2, <3>3, <3>4, Seen
           DEF Promise!Exit, Views, Verdicts, Logs
      <3> QED
        BY <3>5 DEF Promise!Next
    <2> QED
      BY <1>5, <2>4, <2>5 DEF ReadEvent
  <1>6. CASE ReadEnd(c)
    <2>1. /\ cli[c] \in {"waiting", "streaming"} /\ Pending(c) = 0
          /\ Exits(c, IF cli[c] = "waiting" THEN 1 ELSE 0)
          /\ UNCHANGED <<vars, history, printed>>
      BY <1>6 DEF ReadEnd
    <2>2. out[c] \in Seq(Lines) /\ printed[c] \in Seq(Messages)
      BY SessionTypes
    <2>3. CASE cli[c] = "waiting"
      <3>1. printed[c] = <<>> /\ taken[c] = 0
        BY <2>3 DEF Session, Commands
      <3>2. out[c] = <<>>
        BY <2>1, <2>2, <3>1 DEF Pending
      <3>3. ViewOf(c) = "none" /\ LoggedOf(c) = <<>>
        BY <3>2 DEF ViewOf, LoggedOf, Granted, Answered
      <3>4. Promise!Exits(c, 1)
        BY <2>1, <2>3, ExitMoves
      <3>5. Promise!AppLost(c)
        BY <2>1, <3>1, <3>3, <3>4, Seen DEF Promise!AppLost, Views, Logs
      <3> QED
        BY <3>5 DEF Promise!Next
    <2>4. CASE cli[c] = "streaming"
      <3> DEFINE v == ItsView(c)
      <3>1. /\ Granted(c) /\ taken[c] = Len(printed[c]) + 1
            /\ Len(printed[c]) <= Len(said[v])
            /\ \A i \in DOMAIN printed[c] : printed[c][i] = said[v][i]
        BY <2>4 DEF Session, Commands
      <3>2. /\ said[v] \in Seq(Messages) /\ Heard(c, v) /\ conn[c] = "up"
        BY <2>4, <3>1, SessionTypes DEF Session, Streams, Asking
      <3> HIDE DEF v
      <3>3. Len(out[c]) = Len(printed[c]) + 1
        BY <2>1, <2>2, <3>1 DEF Pending
      <3>4. Len(out[c]) = Len(said[v]) + 1 /\ Len(printed[c]) = Len(said[v])
        BY <2>2, <3>1, <3>2, <3>3 DEF Heard
      <3>5. ended[v] = NotYet
        BY <3>2, <3>4 DEF Heard
      <3>6. printed[c] = said[v]
        <4>1. DOMAIN printed[c] = 1..Len(printed[c]) /\ DOMAIN said[v] = 1..Len(said[v])
          BY <2>2, <3>2
        <4> QED
          BY <2>2, <3>1, <3>2, <3>4, <4>1
      <3>7. ViewOf(c) = "open" /\ LoggedOf(c) = said[v]
        BY <3>1, <3>5 DEF ViewOf, LoggedOf, Granted, v
      <3>8. Promise!Exits(c, 0)
        BY <2>1, <2>4, ExitMoves
      <3>9. Promise!AppLost(c)
        BY <2>1, <3>6, <3>7, <3>8, Seen DEF Promise!AppLost, Views, Logs
      <3> QED
        BY <3>9 DEF Promise!Next
    <2> QED
      BY <2>1, <2>3, <2>4
  <1> QED
    BY <1>1, <1>2, <1>3, <1>4, <1>5, <1>6 DEF Command

\* A step of the app that answers nobody, and lets no page say or end
\* anything.
LEMMA QuietAppImplements ==
  ASSUME UNCHANGED <<cliVars, history, out>>
  PROVE  UNCHANGED Promise!vars
  <1>1. UNCHANGED <<Views, Verdicts, Logs>>
    BY DEF history, Views, Verdicts, Logs, ViewOf, VerdictOf, LoggedOf, Granted, Answered,
           ItsView
  <1> QED
    BY <1>1, CommandsAreStill, Stutters

\* An answer decides.
LEMMA AnswerImplements ==
  ASSUME AppInv, Session, UNCHANGED <<cliVars, history>>,
         HandleOpen \/ HandleOpenRefused
  PROVE  Promise!Next \/ UNCHANGED Promise!vars
  <1> USE DEF history
  <1>1. PICK c \in Conns : c = Client /\ out[c] = <<>> /\ cli[c] # "absent"
    BY RequestFacts DEF HandleOpen, HandleOpenRefused, AppInv, Session
  <1>2. /\ out \in [Conns -> Seq(Lines)]
        /\ cli \in [Conns -> {"absent", "waiting", "streaming", "exited", "killed"}]
    BY DEF AppInv, TypeOK, Session, SessionTypeOK
  <1>3. CASE conn[c] # "up"
    <2>1. UNCHANGED out
      BY <1>1, <1>3, OpenFacts, RefusalFacts DEF AppInv, Session
    <2> QED
      BY <2>1, QuietAppImplements
  <1>4. CASE conn[c] = "up"
    <2>1. \/ \E v \in WebViews \ used : out' = [out EXCEPT ![c] = <<[kind |-> "ok", view |-> v]>>]
          \/ out' = [out EXCEPT ![c] = <<[kind |-> "error", view |-> NoView]>>]
      BY <1>1, <1>4, OpenFacts, RefusalFacts DEF AppInv, Session
    <2>2. \A d \in Conns : d # c => out'[d] = out[d]
      BY <1>2, <2>1
    <2>3. ViewOf(c) = "none" /\ VerdictOf(c) = 0 /\ LoggedOf(c) = <<>>
      BY <1>1 DEF ViewOf, VerdictOf, LoggedOf, Granted, Answered
    <2>4. Shells[c] # "absent"
      BY <1>1, <1>2 DEF Shells, ShellOf
    <2>5. UNCHANGED <<Shells, printed, code>>
      BY CommandsAreStill
    <2>6. ASSUME NEW how \in {"open", "refused"},
                 ViewOf(c)' = how, VerdictOf(c)' = 0, LoggedOf(c)' = <<>>
          PROVE  Promise!Decide(c, how)
      <3>1. ASSUME NEW d \in Conns, d # c
            PROVE  ViewOf(d)' = ViewOf(d) /\ VerdictOf(d)' = VerdictOf(d)
                     /\ LoggedOf(d)' = LoggedOf(d)
        BY <2>2, <3>1 DEF ViewOf, VerdictOf, LoggedOf, Granted, Answered, ItsView
      <3>2. Views' = [Views EXCEPT ![c] = how] /\ Verdicts' = Verdicts /\ Logs' = Logs
        BY <2>3, <2>6, <3>1 DEF Views, Verdicts, Logs
      <3> QED
        BY <2>3, <2>4, <2>5, <3>2 DEF Promise!Decide, Views, Verdicts, Logs, Shells
    <2>7. ASSUME NEW v \in WebViews \ used,
                 out' = [out EXCEPT ![c] = <<[kind |-> "ok", view |-> v]>>]
          PROVE  Promise!Decide(c, "open")
      <3>1. out'[c] = <<[kind |-> "ok", view |-> v]>>
        BY <1>2, <2>7
      <3>2. Granted(c)' /\ ItsView(c)' = v /\ Answered(c)'
        BY <3>1 DEF Granted, Answered, ItsView
      <3>3. ended'[v] = NotYet /\ said'[v] = <<>>
        BY <2>7 DEF Session, Fates
      <3>4. ViewOf(c)' = "open" /\ VerdictOf(c)' = 0 /\ LoggedOf(c)' = <<>>
        BY <3>2, <3>3 DEF ViewOf, VerdictOf, LoggedOf
      <3> QED
        BY <2>6, <3>4
    <2>8. CASE out' = [out EXCEPT ![c] = <<[kind |-> "error", view |-> NoView]>>]
      <3>1. out'[c] = <<[kind |-> "error", view |-> NoView]>>
        BY <1>2, <2>8
      <3>2. ~Granted(c)' /\ Answered(c)'
        BY <3>1 DEF Granted, Answered
      <3>3. ViewOf(c)' = "refused" /\ VerdictOf(c)' = 0 /\ LoggedOf(c)' = <<>>
        BY <3>2 DEF ViewOf, VerdictOf, LoggedOf
      <3>4. Promise!Decide(c, "refused")
        BY <2>6, <3>3
      <3> QED
        BY <3>4 DEF Promise!Next
    <2> QED
      BY <2>1, <2>7, <2>8 DEF Promise!Next
  <1> QED
    BY <1>3, <1>4

\* A webview closes.
LEMMA CloseImplements ==
  ASSUME AppInv, Session, UNCHANGED cliVars, NEW v \in WebViews, NEW k \in ExitCodes,
         CloseWebView(v, k), Ends(v, k),
         v \in containers \/ webviewConnections[v] = NoConn
  PROVE  Promise!Next \/ UNCHANGED Promise!vars
  <1>1. CASE v \notin containers
    BY <1>1, CloseAgainFacts, QuietAppImplements DEF history
  <1>2. CASE v \in containers
    <2>1. /\ ended[v] = NotYet /\ ended' = [ended EXCEPT ![v] = Clamp(k)] /\ said' = said
      BY <1>2, CloseFacts
    <2>2. /\ ended'[v] = Clamp(k) /\ Clamp(k) # NotYet
          /\ \A u \in WebViews : u # v => ended'[u] = ended[u]
      BY <2>1, ClampTypes, NamesAssumption DEF Session, SessionTypeOK
    <2>3. \A d \in Conns : /\ Granted(d)' = Granted(d) /\ ItsView(d)' = ItsView(d)
                           /\ Answered(d)' = Answered(d)
      <3>1. CASE UNCHANGED out
        BY <3>1 DEF Granted, ItsView, Answered
      <3>2. ASSUME NEW c \in Conns, Granted(c),
                   out' = [out EXCEPT ![c] =
                             Append(@, [kind |-> "closed", view |-> v, code |-> k])]
            PROVE  \A d \in Conns :
                     /\ Granted(d)' = Granted(d) /\ ItsView(d)' = ItsView(d)
                     /\ Answered(d)' = Answered(d)
        BY <3>2, SameAnswers
      <3> QED
        BY <1>2, <3>1, <3>2, CloseFacts
    <2>4. ASSUME NEW d \in Conns, Granted(d) => ItsView(d) # v
          PROVE  Views'[d] = Views[d] /\ Verdicts'[d] = Verdicts[d] /\ Logs'[d] = Logs[d]
      <3>1. Granted(d) => ended'[ItsView(d)] = ended[ItsView(d)]
        BY <2>2, <2>4, SessionTypes
      <3> QED
        BY <2>1, <2>3, <3>1, SameForOne
    <2>5. ASSUME NEW c \in Conns, Granted(c), ItsView(c) = v
          PROVE  Promise!Close(c, Clamp(k))
      <3>1. \A d \in Conns : d # c => (Granted(d) => ItsView(d) # v)
        BY <2>5 DEF Session, Grants
      <3>2. /\ ViewOf(c) = "open" /\ ViewOf(c)' = "closed" /\ VerdictOf(c)' = Clamp(k)
            /\ LoggedOf(c)' = LoggedOf(c)
        BY <2>1, <2>2, <2>3, <2>5 DEF ViewOf, VerdictOf, LoggedOf, Granted
      <3>3. \A d \in Conns : d # c =>
              Views'[d] = Views[d] /\ Verdicts'[d] = Verdicts[d] /\ Logs'[d] = Logs[d]
        BY <2>4, <3>1
      <3>4. /\ Views' = [Views EXCEPT ![c] = "closed"]
            /\ Verdicts' = [Verdicts EXCEPT ![c] = Clamp(k)]
            /\ Logs' = Logs
        BY <3>2, <3>3 DEF Views, Verdicts, Logs
      <3> QED
        BY <3>2, <3>4, CommandsAreStill
           DEF Promise!Close, Views, Verdicts, Logs, Shells
    <2>6. CASE \A c \in Conns : Granted(c) => ItsView(c) # v
      <3>1. UNCHANGED <<Views, Verdicts, Logs>>
        <4>1. \A d \in Conns :
                Views'[d] = Views[d] /\ Verdicts'[d] = Verdicts[d] /\ Logs'[d] = Logs[d]
          BY <2>4, <2>6
        <4> QED
          BY <4>1 DEF Views, Verdicts, Logs
      <3> QED
        BY <3>1, CommandsAreStill, Stutters
    <2> QED
      BY <2>5, <2>6 DEF Promise!Next
  <1> QED
    BY <1>1, <1>2

\* A page logs.
LEMMA LogImplements ==
  ASSUME AppInv, Session, UNCHANGED cliVars, NEW v \in WebViews, NEW m \in Messages,
         PageLogs(v, m), Says(v, m)
  PROVE  Promise!Next \/ UNCHANGED Promise!vars
  <1>1. ended' = ended
    BY DEF Says
  <1>2. CASE UNCHANGED <<out, said>>
    BY <1>1, <1>2, QuietAppImplements DEF history
  <1>3. ASSUME NEW c \in Conns, Granted(c), ItsView(c) = v, ended[v] = NotYet,
               out' = [out EXCEPT ![c] =
                         Append(@, [kind |-> "console", view |-> v, msg |-> m])],
               said' = [said EXCEPT ![v] = Append(@, m)]
        PROVE  Promise!Log(c, m)
    <2>1. \A d \in Conns : /\ Granted(d)' = Granted(d) /\ ItsView(d)' = ItsView(d)
                           /\ Answered(d)' = Answered(d)
      BY <1>3, SameAnswers
    <2>2. /\ said'[v] = Append(said[v], m)
          /\ \A u \in WebViews : u # v => said'[u] = said[u]
      BY <1>3 DEF Session, SessionTypeOK
    <2>3. /\ ViewOf(c) = "open" /\ ViewOf(c)' = ViewOf(c) /\ VerdictOf(c)' = VerdictOf(c)
          /\ LoggedOf(c)' = Append(LoggedOf(c), m)
      BY <1>1, <1>3, <2>1, <2>2 DEF ViewOf, VerdictOf, LoggedOf, Granted
    <2>4. ASSUME NEW d \in Conns, d # c
          PROVE  Views'[d] = Views[d] /\ Verdicts'[d] = Verdicts[d] /\ Logs'[d] = Logs[d]
      <3>1. Granted(d) => ItsView(d) # v /\ ItsView(d) \in WebViews
        BY <1>3, <2>4, SessionTypes DEF Session, Grants
      <3> QED
        BY <1>1, <2>1, <2>2, <3>1, SameForOne
    <2>5. Views' = Views /\ Verdicts' = Verdicts
            /\ Logs' = [Logs EXCEPT ![c] = Append(Logs[c], m)]
      BY <2>3, <2>4 DEF Views, Verdicts, Logs
    <2> QED
      BY <2>3, <2>5, CommandsAreStill DEF Promise!Log, Views, Verdicts, Logs, Shells
  <1> QED
    BY <1>2, <1>3, LogFacts DEF Promise!Next

\* The command is faithful to its page, step by step: for any number of
\* commands, panes and webviews, whatever is killed, closed or gone in
\* between, a command prints what its page logged, in order and once, and
\* exits with what the page passed, or in one of the ways that BlockingOpen
\* names.  That it does so eventually is not part of this.
THEOREM KeepsPromiseStepwise == SessionSpec => PromiseSteps
  <1>1. SessionInit => Promise!Init
    BY DEF SessionInit, Init, Promise!Init, ViewOf, VerdictOf, LoggedOf, ShellOf, Granted,
           Answered
  <1>2. AppInv /\ Session /\ [SessionNext]_sessionVars => [Promise!Next]_(Promise!vars)
    <2> SUFFICES ASSUME AppInv, Session, [SessionNext]_sessionVars
                 PROVE  Promise!Next \/ UNCHANGED Promise!vars
      OBVIOUS
    <2>1. CASE AppReads
      <3>1. UNCHANGED <<cliVars, history, out>>
        BY <2>1 DEF AppReads, Receive, Hangup
      <3> QED
        BY <3>1, QuietAppImplements
    <2>2. CASE AppWorks
      <3>1. UNCHANGED cliVars
        BY <2>2 DEF AppWorks
      <3>2. CASE RunBlock /\ UNCHANGED history
        <4>1. CASE HandleOpen \/ HandleOpenRefused
          BY <3>1, <3>2, <4>1, AnswerImplements
        <4>2. CASE Create \/ CreateFails \/ Remove \/ Forget
          <5>1. UNCHANGED out
            BY <4>2 DEF Create, CreateFails, Remove, Forget
          <5> QED
            BY <3>1, <3>2, <5>1, QuietAppImplements
        <4> QED
          BY <3>2, <4>1, <4>2, OnlyOpens DEF RunBlock, AppInv, Session
      <3>3. ASSUME NEW p \in Panes, PaneOpens(p) \/ PaneDies(p), UNCHANGED history
            PROVE  UNCHANGED Promise!vars
        BY <3>1, <3>3, QuietAppImplements DEF PaneOpens, PaneDies
      <3>4. ASSUME NEW p \in Panes, UserCloses(p), Ends(Top(subviews[p]), 0)
            PROVE  Promise!Next \/ UNCHANGED Promise!vars
        BY <3>1, <3>4, CloseImplements, ClosableFacts, NamesAssumption DEF UserCloses
      <3>5. ASSUME NEW v \in WebViews, NEW k \in ExitCodes, PageExits(v, k), Ends(v, k)
            PROVE  Promise!Next \/ UNCHANGED Promise!vars
        BY <3>1, <3>5, CloseImplements, ClosableFacts DEF PageExits
      <3>6. ASSUME NEW v \in WebViews, NEW m \in Messages, PageLogs(v, m), Says(v, m)
            PROVE  Promise!Next \/ UNCHANGED Promise!vars
        BY <3>1, <3>6, LogImplements
      <3> QED
        BY <2>2, <3>2, <3>3, <3>4, <3>5, <3>6 DEF AppWorks
    <2>3. CASE AppGoes
      BY <2>3, AppIsStill, Stutters DEF AppGoes, Shells, ShellOf
    <2>4. ASSUME NEW c \in Conns, Start(c) \/ Command(c) \/ Killed(c)
          PROVE  Promise!Next \/ UNCHANGED Promise!vars
      BY <2>4, CommandImplements
    <2>5. CASE UNCHANGED sessionVars
      BY <2>5, AppIsStill, Stutters DEF sessionVars, cliVars, Shells, ShellOf
    <2> QED
      BY <2>1, <2>2, <2>3, <2>4, <2>5 DEF SessionNext
  <1> QED
    BY <1>1, <1>2, AppInvHolds, SessionHolds, PTL DEF SessionSpec, PromiseSteps

=============================================================================
