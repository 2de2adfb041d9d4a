----------------------- MODULE WebViewManager_proofs -----------------------
(***************************************************************************)
(* Theorems of WebViewManager, for any panes, webviews, clients, requests  *)
(* and bounds: its tables are well typed and agree with each other, no     *)
(* entry of a client is removed without its `closed`, which is the last it *)
(* hears of a webview, a pane shows its webviews in the order of the       *)
(* tables, and the labels of the control bars settle.                      *)
(***************************************************************************)
EXTENDS WebViewManager, TLAPS

\* Spec without its fairness: what a safety theorem needs, and what is left of
\* Spec in a system that schedules the main thread together with other things.
Safe == Init /\ [][Next]_vars

\* Removing an id leaves a sequence of ids, and adds none.
LEMMA WithoutKeeps ==
  ASSUME NEW S, NEW s \in Seq(S), NEW e
  PROVE  /\ Without(s, e) \in Seq(S)
         /\ \A u : In(Without(s, e), u) => In(s, u)
  <1>1. CASE ~In(s, e)
    BY <1>1 DEF Without
  <1>2. CASE In(s, e)
    <2> DEFINE k == CHOOSE i \in DOMAIN s : s[i] = e
               r == [i \in 1..(Len(s) - 1) |-> IF i < k THEN s[i] ELSE s[i + 1]]
    <2>1. Without(s, e) = r
      BY <1>2 DEF Without
    <2>2. Len(s) \in Nat /\ DOMAIN s = 1..Len(s) /\ s # <<>>
      BY <1>2 DEF In
    <2>3. Len(s) - 1 \in Nat
      BY <2>2
    <2>4. \A i \in 1..(Len(s) - 1) : i \in 1..Len(s) /\ i + 1 \in 1..Len(s)
      BY <2>2
    <2>5. \A i \in 1..(Len(s) - 1) : r[i] = s[i] \/ r[i] = s[i + 1]
      OBVIOUS
    <2>6. r \in Seq(S)
      BY <2>2, <2>3, <2>4
    <2>7. DOMAIN r = 1..(Len(s) - 1)
      OBVIOUS
    <2> HIDE DEF r
    <2>8. \A u : In(r, u) => In(s, u)
      BY <2>2, <2>4, <2>5, <2>7 DEF In
    <2> QED
      BY <2>1, <2>6, <2>8
  <1> QED
    BY <1>1, <1>2

\* What is queued behind a block that runs stays queued.
LEMMA BehindHead ==
  ASSUME NEW S, NEW q \in Seq(S), q # <<>>
  PROVE  /\ Head(q) \in S /\ Head(q) = q[1] /\ 1 \in DOMAIN q
         /\ Tail(q) \in Seq(S)
         /\ \A i \in DOMAIN Tail(q) : i + 1 \in DOMAIN q /\ Tail(q)[i] = q[i + 1]
  OBVIOUS

\* A new entry goes to the end, and the others stay.
LEMMA AtTheEnd ==
  ASSUME NEW S, NEW q \in Seq(S), NEW b \in S
  PROVE  /\ Append(q, b) \in Seq(S)
         /\ Append(q, b)[Len(q) + 1] = b /\ Len(q) + 1 \in DOMAIN Append(q, b)
         /\ \A i \in DOMAIN q : i \in DOMAIN Append(q, b) /\ Append(q, b)[i] = q[i]
         /\ \A i \in DOMAIN Append(q, b) :
              (i \in DOMAIN q /\ Append(q, b)[i] = q[i])
                \/ (i = Len(q) + 1 /\ Append(q, b)[i] = b)
  OBVIOUS

\* What a client receives is one line more, or nothing when it is gone.
LEMMA SendAppends ==
  ASSUME TypeOK, NEW c \in Conns, NEW line \in Lines, Send(c, line)
  PROVE  /\ out' \in [Conns -> Seq(Lines)]
         /\ \A d \in Conns : \A i \in DOMAIN out[d] :
              i \in DOMAIN out'[d] /\ out'[d][i] = out[d][i]
         /\ \A d \in Conns : \A i \in DOMAIN out'[d] :
              \/ i \in DOMAIN out[d] /\ out'[d][i] = out[d][i]
              \/ d = c /\ i = Len(out[d]) + 1 /\ out'[d][i] = line
         /\ conn[c] = "up" => \E i \in DOMAIN out'[c] : out'[c][i] = line
  <1>1. out \in [Conns -> Seq(Lines)] /\ out[c] \in Seq(Lines)
    BY DEF TypeOK
  <1>2. CASE conn[c] = "up"
    <2>1. out' = [out EXCEPT ![c] = Append(out[c], line)]
      BY <1>2 DEF Send
    <2>2. Append(out[c], line) \in Seq(Lines)
      BY <1>1, AtTheEnd
    <2>3. out' \in [Conns -> Seq(Lines)]
      BY <1>1, <2>1, <2>2
    <2>4. out'[c] = Append(out[c], line) /\ \A d \in Conns : d # c => out'[d] = out[d]
      BY <1>1, <2>1
    <2>5. /\ out'[c][Len(out[c]) + 1] = line
          /\ Len(out[c]) + 1 \in DOMAIN out'[c]
          /\ \A i \in DOMAIN out[c] : i \in DOMAIN out'[c] /\ out'[c][i] = out[c][i]
          /\ \A i \in DOMAIN out'[c] :
               (i \in DOMAIN out[c] /\ out'[c][i] = out[c][i])
                 \/ (i = Len(out[c]) + 1 /\ out'[c][i] = line)
      BY <1>1, <2>4, AtTheEnd
    <2>6. ASSUME NEW d \in Conns, d # c
          PROVE  out'[d] = out[d]
      BY <2>4, <2>6
    <2>7. ASSUME NEW d \in Conns, NEW i \in DOMAIN out[d]
          PROVE  i \in DOMAIN out'[d] /\ out'[d][i] = out[d][i]
      BY <2>5, <2>6
    <2>8. ASSUME NEW d \in Conns, NEW i \in DOMAIN out'[d]
          PROVE  \/ i \in DOMAIN out[d] /\ out'[d][i] = out[d][i]
                 \/ d = c /\ i = Len(out[d]) + 1 /\ out'[d][i] = line
      BY <2>5, <2>6
    <2>9. \E i \in DOMAIN out'[c] : out'[c][i] = line
      BY <2>5
    <2> QED
      BY <2>3, <2>7, <2>8, <2>9
  <1>3. CASE conn[c] # "up"
    BY <1>1, <1>3 DEF Send
  <1> QED
    BY <1>2, <1>3

\* The labels keep their type.
LEMMA RelabelTypes ==
  ASSUME TypeOK, NEW s \in Seq(WebViews), NEW known, Relabel(s, known)
  PROVE  stackInfo' \in [WebViews -> [pos : Nat, total : Nat]]
  <1> DEFINE new(v) ==
        IF v \in known /\ In(s, v)
        THEN [pos |-> CHOOSE i \in DOMAIN s : s[i] = v, total |-> Len(s)]
        ELSE stackInfo[v]
  <1>1. ASSUME NEW v \in WebViews
        PROVE  new(v) \in [pos : Nat, total : Nat]
    <2>1. CASE v \in known /\ In(s, v)
      <3>1. (CHOOSE i \in DOMAIN s : s[i] = v) \in DOMAIN s
        BY <2>1 DEF In
      <3>2. DOMAIN s \subseteq Nat /\ Len(s) \in Nat
        OBVIOUS
      <3> QED
        BY <2>1, <3>1, <3>2
    <2>2. CASE ~(v \in known /\ In(s, v))
      BY <2>2 DEF TypeOK
    <2> QED
      BY <2>1, <2>2
  <1>2. stackInfo' = [v \in WebViews |-> new(v)]
    BY DEF Relabel
  <1> QED
    BY <1>1, <1>2

\* What each kind of block carries.
LEMMA BlockTypes ==
  ASSUME NEW b \in Blocks
  PROVE  /\ b.kind = "handle" => b.conn \in Conns /\ b.req \in Requests
         /\ b.kind = "create" => b.view \in WebViews /\ b.pane \in Panes
         /\ b.kind = "remove" => b.view \in WebViews /\ b.rest \in Seq(WebViews)
         /\ b.kind = "forget" => b.conn \in Conns
  BY DEF Blocks

\* The block that runs, and the queue behind it.
LEMMA NextBlock ==
  ASSUME TypeOK, NEW kind, Runs(kind)
  PROVE  /\ Head(mainQueue) \in Blocks /\ Head(mainQueue).kind = kind
         /\ Head(mainQueue) = mainQueue[1] /\ 1 \in DOMAIN mainQueue
         /\ Tail(mainQueue) \in Seq(Blocks)
         /\ \A i \in DOMAIN Tail(mainQueue) :
              i + 1 \in DOMAIN mainQueue /\ Tail(mainQueue)[i] = mainQueue[i + 1]
  <1>1. mainQueue \in Seq(Blocks) /\ mainQueue # <<>> /\ Head(mainQueue).kind = kind
    BY DEF TypeOK, Runs
  <1> QED
    BY <1>1, BehindHead

\* What a removal block captures is well typed.
LEMMA RemovalTypes ==
  ASSUME TypeOK, NEW v \in WebViews, NEW p \in Panes \cup {NoPane},
         NEW rest \in Seq(WebViews), QueueRemoval(v, p, rest)
  PROVE  \E b \in Blocks : /\ b.kind = "remove" /\ b.view = v
                           /\ mainQueue' = Append(mainQueue, b)
  <1> DEFINE b == [kind |-> "remove", view |-> v,
                   pane |-> IF p \in Panes /\ surface[p] = "alive" THEN p ELSE NoPane,
                   rest |-> rest,
                   known |-> {u \in containers \ {v} : In(rest, u)}]
  <1>1. b.known \in SUBSET WebViews
    BY DEF TypeOK
  <1>2. b.pane \in Panes \cup {NoPane}
    OBVIOUS
  <1>3. b \in Blocks
    BY <1>1, <1>2 DEF Blocks
  <1>4. mainQueue' = Append(mainQueue, b)
    BY DEF QueueRemoval
  <1> QED
    BY <1>3, <1>4

\* A close keeps every variable in its type.
LEMMA CloseTypes ==
  ASSUME TypeOK, NEW v \in WebViews, NEW code \in ExitCodes, CloseWebView(v, code)
  PROVE  TypeOK'
  <1> DEFINE p == webviewToPaneId[v]
             rest == IF p = NoPane THEN <<>> ELSE Without(paneStacks[p], v)
  <1> USE DEF CloseWebView
  <1>1. p \in Panes \cup {NoPane}
    BY DEF TypeOK
  <1>2. rest \in Seq(WebViews)
    <2>1. CASE p = NoPane
      BY <2>1
    <2>2. CASE p # NoPane
      <3>1. paneStacks[p] \in Seq(WebViews)
        BY <1>1, <2>2 DEF TypeOK
      <3> QED
        BY <2>2, <3>1, WithoutKeeps
    <2> QED
      BY <2>1, <2>2
  <1>3. paneStacks' \in [Panes -> Seq(WebViews)]
    <2>1. CASE p = NoPane
      BY <2>1 DEF TypeOK
    <2>2. CASE p # NoPane
      <3>1. paneStacks' = [paneStacks EXCEPT ![p] = rest]
        BY <2>2
      <3> HIDE DEF rest
      <3> QED
        BY <1>2, <3>1 DEF TypeOK
    <2> QED
      BY <2>1, <2>2
  <1>4. mainQueue' \in Seq(Blocks)
    <2>1. CASE v \in containers
      <3>1. QueueRemoval(v, p, rest)
        BY <2>1
      <3> HIDE DEF p, rest
      <3>2. PICK b \in Blocks : mainQueue' = Append(mainQueue, b)
        BY <1>1, <1>2, <3>1, RemovalTypes
      <3> QED
        BY <3>2, AtTheEnd DEF TypeOK
    <2>2. CASE v \notin containers
      BY <2>2 DEF TypeOK
    <2> QED
      BY <2>1, <2>2
  <1>5. out' \in [Conns -> Seq(Lines)]
    <2>1. CASE v \in containers /\ webviewConnections[v] # NoConn
      <3>1. webviewConnections[v] \in Conns
        BY <2>1 DEF TypeOK
      <3>2. [kind |-> "closed", view |-> v, code |-> code] \in Lines
        BY DEF Lines
      <3>3. Send(webviewConnections[v], [kind |-> "closed", view |-> v, code |-> code])
        BY <2>1 DEF TellClosed
      <3> QED
        BY <3>1, <3>2, <3>3, SendAppends
    <2>2. CASE ~(v \in containers /\ webviewConnections[v] # NoConn)
      BY <2>2 DEF TellClosed, TypeOK
    <2> QED
      BY <2>1, <2>2
  <1>6. /\ containers' \subseteq WebViews
        /\ webviewToPaneId' \in [WebViews -> Panes \cup {NoPane}]
        /\ webviewConnections' \in [WebViews -> Conns \cup {NoConn}]
    BY DEF TypeOK, TellClosed
  <1>7. UNCHANGED <<surface, stackInfo, subviews, used, conn, received, main>>
    BY DEF views, clients
  <1> QED
    BY <1>3, <1>4, <1>5, <1>6, <1>7 DEF TypeOK

\* Answers that every handler may send.
LEMMA AnswerTypes ==
  /\ \A v \in WebViews \cup {NoView} : [kind |-> "ok", view |-> v] \in Lines
  /\ [kind |-> "error", view |-> NoView] \in Lines
  BY DEF Lines

\* No block and no event leaves the types.
LEMMA AlwaysTyped == Safe => []TypeOK
  <1>1. Init => TypeOK
    <2>1. [pos |-> 1, total |-> 1] \in [pos : Nat, total : Nat]
      OBVIOUS
    <2> QED
      BY <2>1 DEF Init, TypeOK
  <1>2. TypeOK /\ [Next]_vars => TypeOK'
    <2> SUFFICES ASSUME TypeOK, [Next]_vars
                 PROVE  TypeOK'
      OBVIOUS
    <2>1. CASE HandleOpen
      <3>1. PICK v \in WebViews \ used :
              /\ used' = used \cup {v}
              /\ webviewConnections' = [webviewConnections EXCEPT ![v] = Client]
              /\ paneStacks' = [paneStacks EXCEPT ![Request.pane] = Append(@, v)]
              /\ mainQueue' = Append(Tail(mainQueue),
                                [kind |-> "create", view |-> v, pane |-> Request.pane])
              /\ Send(Client, [kind |-> "ok", view |-> v])
        BY <2>1 DEF HandleOpen
      <3>2. Client \in Conns /\ Request.pane \in Panes
        BY <2>1, NextBlock, BlockTypes DEF HandleOpen, Client, Request
      <3>3. [kind |-> "create", view |-> v, pane |-> Request.pane] \in Blocks
        BY <3>2 DEF Blocks
      <3>4. mainQueue' \in Seq(Blocks)
        <4>1. Tail(mainQueue) \in Seq(Blocks)
          BY <2>1, NextBlock DEF HandleOpen
        <4> QED
          BY <3>1, <3>3, <4>1, AtTheEnd
      <3>5. out' \in [Conns -> Seq(Lines)]
        BY <3>1, <3>2, SendAppends, AnswerTypes
      <3>6. paneStacks' \in [Panes -> Seq(WebViews)]
        BY <3>1, <3>2, AtTheEnd DEF TypeOK
      <3>7. webviewConnections' \in [WebViews -> Conns \cup {NoConn}]
        BY <3>1, <3>2 DEF TypeOK
      <3>8. used' \subseteq WebViews
        BY <3>1 DEF TypeOK
      <3>9. UNCHANGED <<surface, stackInfo, subviews, containers,
                        webviewToPaneId, conn, received, main>>
        BY <2>1 DEF HandleOpen, views, clients
      <3> QED
        BY <3>4, <3>5, <3>6, <3>7, <3>8, <3>9 DEF TypeOK
    <2>2. ASSUME HandleOpenRefused \/ HandleAnswerOnly
          PROVE  TypeOK'
      <3>1. PICK line \in Lines : Send(Client, line)
        BY <2>2, AnswerTypes DEF HandleOpenRefused, HandleAnswerOnly
      <3>2. Runs("handle") /\ mainQueue' = Tail(mainQueue)
        BY <2>2 DEF HandleOpenRefused, HandleAnswerOnly
      <3>3. Client \in Conns
        BY <3>2, NextBlock, BlockTypes DEF Client
      <3>4. out' \in [Conns -> Seq(Lines)]
        BY <3>1, <3>3, SendAppends
      <3>5. mainQueue' \in Seq(Blocks)
        BY <3>2, NextBlock
      <3> QED
        BY <2>2, <3>4, <3>5
           DEF HandleOpenRefused, HandleAnswerOnly, TypeOK, tables, views, clients
    <2>3. CASE HandleSync
      BY <2>3 DEF HandleSync, TypeOK, tables, views, clients
    <2>4. CASE Create
      <3> DEFINE v == Head(mainQueue).view
                 p == Head(mainQueue).pane
      <3>1. v \in WebViews /\ p \in Panes /\ Tail(mainQueue) \in Seq(Blocks)
        BY <2>4, NextBlock, BlockTypes DEF Create
      <3>2. /\ subviews' = [subviews EXCEPT ![p] = Append(@, v)]
            /\ containers' = containers \cup {v}
            /\ webviewToPaneId' = [webviewToPaneId EXCEPT ![v] = p]
            /\ Relabel(paneStacks[p], containers')
            /\ mainQueue' = Tail(mainQueue)
            /\ UNCHANGED <<surface, webviewConnections, paneStacks, used, conn,
                           received, out, main>>
        BY <2>4 DEF Create, clients
      <3> HIDE DEF v, p
      <3>3. paneStacks[p] \in Seq(WebViews)
        BY <3>1 DEF TypeOK
      <3>4. stackInfo' \in [WebViews -> [pos : Nat, total : Nat]]
        BY <3>2, <3>3, RelabelTypes
      <3>5. subviews' \in [Panes -> Seq(WebViews)]
        BY <3>1, <3>2, AtTheEnd DEF TypeOK
      <3>6. webviewToPaneId' \in [WebViews -> Panes \cup {NoPane}]
        BY <3>1, <3>2 DEF TypeOK
      <3>7. containers' \subseteq WebViews
        BY <3>1, <3>2 DEF TypeOK
      <3>8. mainQueue' \in Seq(Blocks)
        BY <3>1, <3>2
      <3> QED
        BY <3>2, <3>4, <3>5, <3>6, <3>7, <3>8 DEF TypeOK
    <2>5. CASE CreateFails
      <3> DEFINE v == Head(mainQueue).view
                 p == Head(mainQueue).pane
      <3>1. v \in WebViews /\ p \in Panes /\ mainQueue' \in Seq(Blocks)
        BY <2>5, NextBlock, BlockTypes DEF CreateFails
      <3>2. paneStacks' = [paneStacks EXCEPT ![p] = Without(paneStacks[p], v)]
        BY <2>5 DEF CreateFails
      <3> HIDE DEF v, p
      <3>3. Without(paneStacks[p], v) \in Seq(WebViews)
        BY <3>1, WithoutKeeps DEF TypeOK
      <3>4. paneStacks' \in [Panes -> Seq(WebViews)]
        BY <3>1, <3>2, <3>3 DEF TypeOK
      <3> QED
        BY <2>5, <3>1, <3>4 DEF CreateFails, TypeOK, views, clients
    <2>6. CASE Remove
      <3> DEFINE b == Head(mainQueue)
      <3>1. b.rest \in Seq(WebViews) /\ mainQueue' \in Seq(Blocks)
        BY <2>6, NextBlock, BlockTypes DEF Remove
      <3>2. /\ Relabel(b.rest, b.known)
            /\ subviews' = [p \in Panes |-> Without(subviews[p], b.view)]
        BY <2>6 DEF Remove
      <3>3. stackInfo' \in [WebViews -> [pos : Nat, total : Nat]]
        BY <3>1, <3>2, RelabelTypes
      <3>4. subviews' \in [Panes -> Seq(WebViews)]
        BY <3>2, WithoutKeeps DEF TypeOK
      <3> QED
        BY <2>6, <3>1, <3>3, <3>4 DEF Remove, TypeOK, tables, clients
    <2>7. CASE Forget
      <3>1. Head(mainQueue).conn \in Conns /\ mainQueue' \in Seq(Blocks)
        BY <2>7, NextBlock, BlockTypes DEF Forget
      <3>2. conn' \in [Conns -> {"up", "eof", "freed"}]
        BY <2>7 DEF Forget, TypeOK
      <3> QED
        BY <2>7, <3>1, <3>2 DEF Forget, TypeOK, tables, views
    <2>8. ASSUME NEW p \in Panes, UserCloses(p)
          PROVE  TypeOK'
      <3>1. subviews[p] \in Seq(WebViews) /\ subviews[p] # <<>>
        BY <2>8 DEF UserCloses, TypeOK
      <3>2. Top(subviews[p]) \in WebViews
        BY <3>1 DEF Top
      <3> QED
        BY <2>8, <3>2, CloseTypes, NamesAssumption DEF UserCloses
    <2>9. ASSUME NEW v \in WebViews, NEW code \in ExitCodes, PageExits(v, code)
          PROVE  TypeOK'
      BY <2>9, CloseTypes DEF PageExits
    <2>10. ASSUME NEW v \in WebViews, NEW m \in Messages, PageLogs(v, m)
           PROVE  TypeOK'
      <3>1. webviewConnections[v] \in Conns
        BY <2>10 DEF PageLogs, TypeOK
      <3>2. [kind |-> "console", view |-> v, msg |-> m] \in Lines
        BY DEF Lines
      <3>3. Send(webviewConnections[v], [kind |-> "console", view |-> v, msg |-> m])
        BY <2>10 DEF PageLogs
      <3>4. out' \in [Conns -> Seq(Lines)]
        BY <3>1, <3>2, <3>3, SendAppends
      <3> QED
        BY <2>10, <3>4 DEF PageLogs, TypeOK, tables, views, clients
    <2>11. ASSUME NEW p \in Panes, PaneOpens(p)
           PROVE  TypeOK'
      BY <2>11 DEF PaneOpens, TypeOK, tables, clients
    <2>12. ASSUME NEW p \in Panes, PaneDies(p)
           PROVE  TypeOK'
      BY <2>12 DEF PaneDies, TypeOK, tables, clients
    <2>13. ASSUME NEW c \in Conns, Hangup(c)
           PROVE  TypeOK'
      <3>1. [kind |-> "forget", conn |-> c] \in Blocks
        BY DEF Blocks
      <3>2. mainQueue' \in Seq(Blocks)
        BY <2>13, <3>1, AtTheEnd DEF Hangup, TypeOK
      <3> QED
        BY <2>13, <3>2 DEF Hangup, TypeOK, tables, views
    <2>14. ASSUME NEW c \in Conns, NEW r \in Requests, Receive(c, r)
           PROVE  TypeOK'
      <3>1. [kind |-> "handle", conn |-> c, req |-> r] \in Blocks
        BY DEF Blocks
      <3>2. mainQueue' \in Seq(Blocks)
        BY <2>14, <3>1, AtTheEnd DEF Receive, TypeOK
      <3> QED
        BY <2>14, <3>2 DEF Receive, TypeOK, tables, views
    <2>15. CASE UNCHANGED vars
      BY <2>15 DEF vars, TypeOK
    <2> QED
      BY <2>1, <2>2, <2>3, <2>4, <2>5, <2>6, <2>7, <2>8, <2>9, <2>10, <2>11,
         <2>12, <2>13, <2>14, <2>15
         DEF Next, RunBlock, UserEvent
  <1> QED
    BY <1>1, <1>2, PTL DEF Safe

\* Every variable stays in its type, through every block and every event.
THEOREM TypeCorrect == Spec => []TypeOK
  BY AlwaysTyped, PTL DEF Spec, Safe

-----------------------------------------------------------------------------
(* What the clients hear.  The order of the blocks matters: an id is known *)
(* to the tables, the queue or a client only after createWebView made it,  *)
(* and a view without a container has no client any more, whether its      *)
(* removal is still queued or not.                                         *)

Removal(i) == mainQueue[i].kind = "remove"

\* Every id in use was generated.
Generated ==
  /\ containers \subseteq used
  /\ \A p \in Panes : \A i \in DOMAIN subviews[p] : subviews[p][i] \in used
  /\ \A i \in DOMAIN mainQueue :
       mainQueue[i].kind \in {"create", "remove"} => mainQueue[i].view \in used
  /\ \A c \in Conns : \A i \in DOMAIN out[c] :
       out[c][i].view \in used \cup {NoView}

\* A view that waits to be removed has no client, nor has one on screen
\* without a container, nor has one that was reported closed.
NobodyLeftToTell ==
  /\ \A i \in DOMAIN mainQueue :
       Removal(i) => webviewConnections[mainQueue[i].view] = NoConn
  /\ \A p \in Panes : \A i \in DOMAIN subviews[p] :
       subviews[p][i] \in containers \/ webviewConnections[subviews[p][i]] = NoConn
  /\ \A c \in Conns : \A i \in DOMAIN out[c] :
       out[c][i].kind = "closed" =>
         out[c][i].view \in WebViews /\ webviewConnections[out[c][i].view] = NoConn

\* The inductive invariant, with TypeOK.
Hearing == Generated /\ NobodyLeftToTell /\ NoSilentDrop /\ NothingAfterClosed

\* A step that tells nobody anything, generates nothing and changes no client.
LEMMA QuietStep ==
  ASSUME TypeOK, Hearing,
         UNCHANGED <<containers, webviewConnections, used, out>>,
         \A d \in Conns : conn'[d] = "up" => conn[d] = "up",
         \A i \in DOMAIN mainQueue' :
           \/ mainQueue'[i].kind \in {"handle", "forget"}
           \/ \E j \in DOMAIN mainQueue : mainQueue'[i] = mainQueue[j],
         \A p \in Panes : \A i \in DOMAIN subviews'[p] :
           \E j \in DOMAIN subviews[p] : subviews'[p][i] = subviews[p][j]
  PROVE  Hearing'
  <1> USE DEF Hearing
  <1>1. Generated'
    <2>1. ASSUME NEW p \in Panes, NEW i \in DOMAIN subviews'[p]
          PROVE  subviews'[p][i] \in used
      BY <2>1 DEF Generated
    <2>2. ASSUME NEW i \in DOMAIN mainQueue',
                 mainQueue'[i].kind \in {"create", "remove"}
          PROVE  mainQueue'[i].view \in used
      BY <2>2 DEF Generated
    <2> QED
      BY <2>1, <2>2 DEF Generated
  <1>2. NobodyLeftToTell'
    <2>1. ASSUME NEW i \in DOMAIN mainQueue', mainQueue'[i].kind = "remove"
          PROVE  webviewConnections[mainQueue'[i].view] = NoConn
      BY <2>1 DEF NobodyLeftToTell, Removal
    <2>2. ASSUME NEW p \in Panes, NEW i \in DOMAIN subviews'[p]
          PROVE  \/ subviews'[p][i] \in containers
                 \/ webviewConnections[subviews'[p][i]] = NoConn
      BY <2>2 DEF NobodyLeftToTell
    <2> QED
      BY <2>1, <2>2 DEF NobodyLeftToTell, Removal
  <1>3. NoSilentDrop'
    BY DEF NoSilentDrop, Sent
  <1>4. NothingAfterClosed'
    BY DEF NothingAfterClosed
  <1> QED
    BY <1>1, <1>2, <1>3, <1>4

\* A line about a webview not reported closed to this client.
LEMMA LineAfterOthers ==
  ASSUME TypeOK, NothingAfterClosed, NEW c \in Conns, NEW line \in Lines,
         Send(c, line),
         \A i \in DOMAIN out[c] :
           out[c][i].kind = "closed" => out[c][i].view # line.view
  PROVE  NothingAfterClosed'
  <1> SUFFICES ASSUME NEW d \in Conns, NEW i \in DOMAIN out'[d],
                      NEW j \in DOMAIN out'[d],
                      i < j, out'[d][i].kind = "closed"
               PROVE  out'[d][j].view # out'[d][i].view
    BY DEF NothingAfterClosed
  <1>1. out[d] \in Seq(Lines) /\ out'[d] \in Seq(Lines)
    BY SendAppends DEF TypeOK
  <1>2. CASE j \in DOMAIN out[d] /\ out'[d][j] = out[d][j]
    <2>1. i \in DOMAIN out[d]
      BY <1>1, <1>2
    <2>2. out'[d][i] = out[d][i]
      BY <2>1, SendAppends
    <2> QED
      BY <1>2, <2>1, <2>2 DEF NothingAfterClosed
  <1>3. CASE d = c /\ j = Len(out[d]) + 1 /\ out'[d][j] = line
    <2>1. i \in DOMAIN out[d]
      BY <1>1, <1>3
    <2>2. out'[d][i] = out[d][i]
      BY <2>1, SendAppends
    <2> QED
      BY <1>3, <2>1, <2>2
  <1> QED
    BY <1>2, <1>3, SendAppends

\* A handler that only answers.
LEMMA AnswerStep ==
  ASSUME TypeOK, Hearing, HandleOpenRefused \/ HandleAnswerOnly
  PROVE  Hearing'
  <1> USE DEF Hearing
  <1>1. PICK line \in Lines : line.view = NoView /\ line.kind \in {"ok", "error"}
                                /\ Send(Client, line)
    BY AnswerTypes DEF HandleOpenRefused, HandleAnswerOnly
  <1>2. Runs("handle") /\ mainQueue' = Tail(mainQueue)
    BY DEF HandleOpenRefused, HandleAnswerOnly
  <1>3. Client \in Conns
    BY <1>2, NextBlock, BlockTypes DEF Client
  <1>4. UNCHANGED <<containers, webviewConnections, subviews, used, conn>>
    BY DEF HandleOpenRefused, HandleAnswerOnly, tables, views, clients
  <1>5. \A d \in Conns : \A i \in DOMAIN out'[d] :
          (i \in DOMAIN out[d] /\ out'[d][i] = out[d][i]) \/ out'[d][i] = line
    BY <1>1, <1>3, SendAppends
  <1>6. \A i \in DOMAIN mainQueue' :
          i + 1 \in DOMAIN mainQueue /\ mainQueue'[i] = mainQueue[i + 1]
    BY <1>2, NextBlock
  <1>7. Generated'
    <2>1. \A i \in DOMAIN mainQueue' :
            mainQueue'[i].kind \in {"create", "remove"} => mainQueue'[i].view \in used
      BY <1>6 DEF Generated
    <2>2. \A c \in Conns : \A i \in DOMAIN out'[c] :
            out'[c][i].view \in used \cup {NoView}
      BY <1>1, <1>5 DEF Generated
    <2> QED
      BY <1>4, <2>1, <2>2 DEF Generated
  <1>8. NobodyLeftToTell'
    <2>1. \A i \in DOMAIN mainQueue' : mainQueue'[i].kind = "remove" =>
            webviewConnections[mainQueue'[i].view] = NoConn
      BY <1>6 DEF NobodyLeftToTell, Removal
    <2>2. \A c \in Conns : \A i \in DOMAIN out'[c] :
            out'[c][i].kind = "closed" =>
              out'[c][i].view \in WebViews
                /\ webviewConnections[out'[c][i].view] = NoConn
      BY <1>1, <1>5 DEF NobodyLeftToTell
    <2> QED
      BY <1>4, <2>1, <2>2 DEF NobodyLeftToTell, Removal
  <1>9. NoSilentDrop'
    <2> SUFFICES ASSUME NEW c \in Conns, NEW v \in WebViews,
                        Sent(c, "ok", v)', conn[c] = "up"
                 PROVE  webviewConnections[v] = c \/ Sent(c, "closed", v)'
      BY <1>4 DEF NoSilentDrop
    <2>1. Sent(c, "ok", v)
      BY <1>1, <1>5, NamesAssumption DEF Sent
    <2>2. Sent(c, "closed", v) => Sent(c, "closed", v)'
      BY <1>1, <1>3, SendAppends DEF Sent
    <2> QED
      BY <2>1, <2>2 DEF NoSilentDrop
  <1>10. NothingAfterClosed'
    <2>1. \A i \in DOMAIN out[Client] :
            out[Client][i].kind = "closed" => out[Client][i].view # line.view
      BY <1>1, <1>3, NamesAssumption DEF NobodyLeftToTell
    <2> QED
      BY <1>1, <1>3, <2>1, LineAfterOthers
  <1> QED
    BY <1>7, <1>8, <1>9, <1>10

\* open: the new id is in no table, block or line yet.
LEMMA OpenStep ==
  ASSUME TypeOK, Hearing, HandleOpen
  PROVE  Hearing'
  <1> USE DEF Hearing
  <1>1. PICK v \in WebViews \ used :
          /\ used' = used \cup {v}
          /\ webviewConnections' = [webviewConnections EXCEPT ![v] = Client]
          /\ mainQueue' = Append(Tail(mainQueue),
                            [kind |-> "create", view |-> v, pane |-> Request.pane])
          /\ Send(Client, [kind |-> "ok", view |-> v])
    BY DEF HandleOpen
  <1>2. UNCHANGED <<containers, subviews, conn>>
    BY DEF HandleOpen, views, clients
  <1>3. Client \in Conns /\ Request.pane \in Panes /\ Tail(mainQueue) \in Seq(Blocks)
    BY NextBlock, BlockTypes DEF HandleOpen, Client, Request
  <1> DEFINE b == [kind |-> "create", view |-> v, pane |-> Request.pane]
             line == [kind |-> "ok", view |-> v]
  <1>4. b \in Blocks /\ line \in Lines
    BY <1>3 DEF Blocks, Lines
  <1>5. b.kind = "create" /\ b.view = v /\ line.kind = "ok" /\ line.view = v
    OBVIOUS
  <1>6. mainQueue' = Append(Tail(mainQueue), b) /\ Send(Client, line)
    BY <1>1
  <1> HIDE DEF b, line
  <1>7. \A i \in DOMAIN mainQueue' :
          mainQueue'[i] = b \/ \E j \in DOMAIN mainQueue : mainQueue'[i] = mainQueue[j]
    <2>1. \A i \in DOMAIN Tail(mainQueue) :
            i + 1 \in DOMAIN mainQueue /\ Tail(mainQueue)[i] = mainQueue[i + 1]
      BY NextBlock DEF HandleOpen
    <2>2. \A i \in DOMAIN mainQueue' :
            mainQueue'[i] = b
              \/ (i \in DOMAIN Tail(mainQueue) /\ mainQueue'[i] = Tail(mainQueue)[i])
      BY <1>3, <1>4, <1>6, AtTheEnd
    <2> QED
      BY <2>1, <2>2
  <1>8. \A d \in Conns : \A i \in DOMAIN out'[d] :
          \/ i \in DOMAIN out[d] /\ out'[d][i] = out[d][i]
          \/ d = Client /\ out'[d][i] = line
    BY <1>3, <1>4, <1>6, SendAppends
  <1>9. \A u \in used : u \in WebViews => webviewConnections'[u] = webviewConnections[u]
    BY <1>1 DEF TypeOK
  <1>10. webviewConnections'[v] = Client
    BY <1>1 DEF TypeOK
  <1>11. Generated'
    <2>1. \A i \in DOMAIN mainQueue' :
            mainQueue'[i].kind \in {"create", "remove"} => mainQueue'[i].view \in used'
      BY <1>1, <1>5, <1>7 DEF Generated
    <2>2. \A c \in Conns : \A i \in DOMAIN out'[c] :
            out'[c][i].view \in used' \cup {NoView}
      BY <1>1, <1>5, <1>8 DEF Generated
    <2> QED
      BY <1>1, <1>2, <2>1, <2>2 DEF Generated
  <1>12. NobodyLeftToTell'
    <2>1. ASSUME NEW i \in DOMAIN mainQueue', mainQueue'[i].kind = "remove"
          PROVE  webviewConnections'[mainQueue'[i].view] = NoConn
      <3>1. PICK j \in DOMAIN mainQueue : mainQueue'[i] = mainQueue[j]
        BY <1>5, <1>7, <2>1
      <3>2. mainQueue[j] \in Blocks
        BY DEF TypeOK
      <3>3. mainQueue[j].view \in used /\ mainQueue[j].view \in WebViews
        BY <2>1, <3>1, <3>2, BlockTypes DEF Generated
      <3> QED
        BY <1>9, <2>1, <3>1, <3>3 DEF NobodyLeftToTell, Removal
    <2>2. ASSUME NEW p \in Panes, NEW i \in DOMAIN subviews[p]
          PROVE  \/ subviews[p][i] \in containers
                 \/ webviewConnections'[subviews[p][i]] = NoConn
      <3>1. subviews[p][i] \in WebViews /\ subviews[p][i] \in used
        BY <2>2 DEF TypeOK, Generated
      <3> QED
        BY <1>9, <2>2, <3>1 DEF NobodyLeftToTell
    <2>3. ASSUME NEW c \in Conns, NEW i \in DOMAIN out'[c],
                 out'[c][i].kind = "closed"
          PROVE  /\ out'[c][i].view \in WebViews
                 /\ webviewConnections'[out'[c][i].view] = NoConn
      <3>1. i \in DOMAIN out[c] /\ out'[c][i] = out[c][i]
        BY <1>5, <1>8, <2>3
      <3>2. out[c][i].view \in WebViews /\ out[c][i].view \in used
        BY <2>3, <3>1, NamesAssumption DEF NobodyLeftToTell, Generated
      <3> QED
        BY <1>9, <2>3, <3>1, <3>2 DEF NobodyLeftToTell
    <2> QED
      BY <1>2, <2>1, <2>2, <2>3 DEF NobodyLeftToTell, Removal
  <1>13. NoSilentDrop'
    <2> SUFFICES ASSUME NEW c \in Conns, NEW u \in WebViews,
                        Sent(c, "ok", u)', conn[c] = "up"
                 PROVE  webviewConnections'[u] = c \/ Sent(c, "closed", u)'
      BY <1>2 DEF NoSilentDrop
    <2>1. CASE u = v
      <3>1. \A i \in DOMAIN out[c] : out[c][i].view # v
        BY NamesAssumption DEF Generated
      <3>2. c = Client
        BY <1>8, <2>1, <3>1 DEF Sent
      <3> QED
        BY <1>10, <2>1, <3>2
    <2>2. CASE u # v
      <3>1. Sent(c, "ok", u)
        BY <1>5, <1>8, <2>2 DEF Sent
      <3>2. Sent(c, "closed", u) => Sent(c, "closed", u)'
        BY <1>3, <1>4, <1>6, SendAppends DEF Sent
      <3>3. webviewConnections'[u] = webviewConnections[u]
        BY <1>1, <2>2 DEF TypeOK
      <3> QED
        BY <3>1, <3>2, <3>3 DEF NoSilentDrop
    <2> QED
      BY <2>1, <2>2
  <1>14. NothingAfterClosed'
    <2>1. \A i \in DOMAIN out[Client] : out[Client][i].view # line.view
      BY <1>3, <1>5, NamesAssumption DEF Generated
    <2> QED
      BY <1>3, <1>4, <1>6, <2>1, LineAfterOthers
  <1> QED
    BY <1>11, <1>12, <1>13, <1>14

\* The view appears: it was generated, and whoever asked for it is known.
LEMMA CreateStep ==
  ASSUME TypeOK, Hearing, Create
  PROVE  Hearing'
  <1> USE DEF Hearing
  <1> DEFINE v == Head(mainQueue).view
             p == Head(mainQueue).pane
  <1>1. v \in WebViews /\ p \in Panes /\ v \in used
    <2>1. Head(mainQueue) = mainQueue[1] /\ 1 \in DOMAIN mainQueue
            /\ Head(mainQueue).kind = "create" /\ Head(mainQueue) \in Blocks
      BY NextBlock DEF Create
    <2> QED
      BY <2>1, BlockTypes DEF Generated
  <1>2. /\ subviews' = [subviews EXCEPT ![p] = Append(@, v)]
        /\ containers' = containers \cup {v}
        /\ mainQueue' = Tail(mainQueue)
        /\ UNCHANGED <<webviewConnections, used, conn, out>>
    BY DEF Create, clients
  <1>3. \A i \in DOMAIN mainQueue' :
          i + 1 \in DOMAIN mainQueue /\ mainQueue'[i] = mainQueue[i + 1]
    BY <1>2, NextBlock DEF Create
  <1> HIDE DEF v, p
  <1>4. \A q \in Panes : \A i \in DOMAIN subviews'[q] :
          \/ i \in DOMAIN subviews[q] /\ subviews'[q][i] = subviews[q][i]
          \/ subviews'[q][i] = v
    <2> SUFFICES ASSUME NEW q \in Panes, NEW i \in DOMAIN subviews'[q]
                 PROVE  \/ i \in DOMAIN subviews[q] /\ subviews'[q][i] = subviews[q][i]
                        \/ subviews'[q][i] = v
      OBVIOUS
    <2>1. CASE q = p
      <3>1. subviews[p] \in Seq(WebViews) /\ subviews'[p] = Append(subviews[p], v)
        BY <1>1, <1>2 DEF TypeOK
      <3> QED
        BY <1>1, <2>1, <3>1, AtTheEnd
    <2>2. CASE q # p
      BY <1>2, <2>2 DEF TypeOK
    <2> QED
      BY <2>1, <2>2
  <1>5. Generated'
    <2>1. \A i \in DOMAIN mainQueue' :
            mainQueue'[i].kind \in {"create", "remove"} => mainQueue'[i].view \in used
      BY <1>3 DEF Generated
    <2>2. \A q \in Panes : \A i \in DOMAIN subviews'[q] : subviews'[q][i] \in used
      BY <1>1, <1>4 DEF Generated
    <2> QED
      BY <1>1, <1>2, <2>1, <2>2 DEF Generated
  <1>6. NobodyLeftToTell'
    <2>1. \A i \in DOMAIN mainQueue' : mainQueue'[i].kind = "remove" =>
            webviewConnections[mainQueue'[i].view] = NoConn
      BY <1>3 DEF NobodyLeftToTell, Removal
    <2>2. \A q \in Panes : \A i \in DOMAIN subviews'[q] :
            \/ subviews'[q][i] \in containers'
            \/ webviewConnections[subviews'[q][i]] = NoConn
      BY <1>2, <1>4 DEF NobodyLeftToTell
    <2> QED
      BY <1>2, <2>1, <2>2 DEF NobodyLeftToTell, Removal
  <1>7. NoSilentDrop'
    BY <1>2 DEF NoSilentDrop, Sent
  <1>8. NothingAfterClosed'
    BY <1>2 DEF NothingAfterClosed
  <1> QED
    BY <1>5, <1>6, <1>7, <1>8

\* closeWebView: the table forgets the client in the block that tells it; a
\* view that has no container any more has no client either.
LEMMA CloseStep ==
  ASSUME TypeOK, Hearing, NEW v \in WebViews, NEW code \in ExitCodes,
         CloseWebView(v, code),
         v \in containers \/ webviewConnections[v] = NoConn
  PROVE  Hearing'
  <1> USE DEF Hearing
  <1>1. /\ webviewConnections' = [webviewConnections EXCEPT ![v] = NoConn]
        /\ containers' = containers \ {v}
        /\ UNCHANGED <<subviews, used, conn>>
    BY DEF CloseWebView, TellClosed, views, clients
  <1>2. /\ webviewConnections'[v] = NoConn
        /\ \A u \in WebViews : u # v => webviewConnections'[u] = webviewConnections[u]
        /\ \A u \in WebViews :
             webviewConnections[u] = NoConn => webviewConnections'[u] = NoConn
    BY <1>1 DEF TypeOK
  <1>3. \A i \in DOMAIN mainQueue' :
          \/ \E j \in DOMAIN mainQueue : mainQueue'[i] = mainQueue[j]
          \/ /\ mainQueue'[i].kind = "remove" /\ mainQueue'[i].view = v
             /\ v \in containers
    <2> DEFINE p == webviewToPaneId[v]
               rest == IF p = NoPane THEN <<>> ELSE Without(paneStacks[p], v)
    <2>1. CASE v \in containers
      <3>1. QueueRemoval(v, p, rest)
        BY <2>1 DEF CloseWebView
      <3>2. p \in Panes \cup {NoPane}
        BY DEF TypeOK
      <3>3. rest \in Seq(WebViews)
        BY <3>2, WithoutKeeps DEF TypeOK
      <3> HIDE DEF p, rest
      <3>4. PICK b \in Blocks : /\ b.kind = "remove" /\ b.view = v
                                /\ mainQueue' = Append(mainQueue, b)
        BY <3>1, <3>2, <3>3, RemovalTypes
      <3>5. \A i \in DOMAIN mainQueue' :
              (i \in DOMAIN mainQueue /\ mainQueue'[i] = mainQueue[i])
                \/ mainQueue'[i] = b
        BY <3>4, AtTheEnd DEF TypeOK
      <3> QED
        BY <2>1, <3>4, <3>5
    <2>2. CASE v \notin containers
      BY <2>2 DEF CloseWebView
    <2> QED
      BY <2>1, <2>2
  <1> DEFINE c == webviewConnections[v]
             line == [kind |-> "closed", view |-> v, code |-> code]
  <1>4. line \in Lines /\ line.kind = "closed" /\ line.view = v
    BY DEF Lines
  <1>5. c # NoConn => c \in Conns /\ v \in containers /\ Send(c, line)
    BY DEF CloseWebView, TellClosed, TypeOK
  <1>6. c = NoConn => out' = out
    BY DEF CloseWebView, TellClosed
  <1> HIDE DEF line
  <1>7. \A d \in Conns : \A i \in DOMAIN out'[d] :
          \/ i \in DOMAIN out[d] /\ out'[d][i] = out[d][i]
          \/ c # NoConn /\ d = c /\ out'[d][i] = line
    BY <1>4, <1>5, <1>6, SendAppends
  <1>8. \A d \in Conns : \A i \in DOMAIN out[d] :
          i \in DOMAIN out'[d] /\ out'[d][i] = out[d][i]
    BY <1>4, <1>5, <1>6, SendAppends
  <1>9. Generated'
    <2>1. \A i \in DOMAIN mainQueue' :
            mainQueue'[i].kind \in {"create", "remove"} => mainQueue'[i].view \in used
      BY <1>3 DEF Generated
    <2>2. \A d \in Conns : \A i \in DOMAIN out'[d] :
            out'[d][i].view \in used \cup {NoView}
      BY <1>4, <1>5, <1>7 DEF Generated
    <2> QED
      BY <1>1, <2>1, <2>2 DEF Generated
  <1>10. NobodyLeftToTell'
    <2>1. ASSUME NEW i \in DOMAIN mainQueue', mainQueue'[i].kind = "remove"
          PROVE  webviewConnections'[mainQueue'[i].view] = NoConn
      <3>1. CASE mainQueue'[i].view = v
        BY <1>2, <3>1
      <3>2. CASE mainQueue'[i].view # v
        <4>1. PICK j \in DOMAIN mainQueue : mainQueue'[i] = mainQueue[j]
          BY <1>3, <3>2
        <4>2. mainQueue[j].view \in WebViews
          BY <2>1, <4>1, BlockTypes DEF TypeOK
        <4> QED
          BY <1>2, <2>1, <4>1, <4>2 DEF NobodyLeftToTell, Removal
      <3> QED
        BY <3>1, <3>2
    <2>2. ASSUME NEW p \in Panes, NEW i \in DOMAIN subviews[p]
          PROVE  \/ subviews[p][i] \in containers'
                 \/ webviewConnections'[subviews[p][i]] = NoConn
      <3>1. subviews[p][i] \in WebViews
        BY DEF TypeOK
      <3> QED
        BY <1>1, <1>2, <2>2, <3>1 DEF NobodyLeftToTell
    <2>3. ASSUME NEW d \in Conns, NEW i \in DOMAIN out'[d],
                 out'[d][i].kind = "closed"
          PROVE  /\ out'[d][i].view \in WebViews
                 /\ webviewConnections'[out'[d][i].view] = NoConn
      BY <1>2, <1>4, <1>7, <2>3 DEF NobodyLeftToTell
    <2> QED
      BY <1>1, <2>1, <2>2, <2>3 DEF NobodyLeftToTell, Removal
  <1>11. NoSilentDrop'
    <2> SUFFICES ASSUME NEW d \in Conns, NEW u \in WebViews,
                        Sent(d, "ok", u)', conn[d] = "up"
                 PROVE  webviewConnections'[u] = d \/ Sent(d, "closed", u)'
      BY <1>1 DEF NoSilentDrop
    <2>1. Sent(d, "ok", u)
      BY <1>4, <1>7 DEF Sent
    <2>2. Sent(d, "closed", u) => Sent(d, "closed", u)'
      BY <1>8 DEF Sent
    <2>3. CASE webviewConnections[u] = d /\ u = v
      <3>1. c = d /\ c # NoConn
        BY <2>3, NamesAssumption
      <3>2. \E i \in DOMAIN out'[d] : out'[d][i] = line
        BY <1>4, <1>5, <3>1, SendAppends
      <3> QED
        BY <1>4, <2>3, <3>2 DEF Sent
    <2>4. CASE webviewConnections[u] = d /\ u # v
      BY <1>2, <2>4
    <2> QED
      BY <2>1, <2>2, <2>3, <2>4 DEF NoSilentDrop
  <1>12. NothingAfterClosed'
    <2>1. CASE c = NoConn
      BY <1>6, <2>1 DEF NothingAfterClosed
    <2>2. CASE c # NoConn
      <3>1. \A i \in DOMAIN out[c] :
              out[c][i].kind = "closed" => out[c][i].view # line.view
        BY <1>4, <1>5, <2>2 DEF NobodyLeftToTell
      <3> HIDE DEF c
      <3> QED
        BY <1>4, <1>5, <2>2, <3>1, LineAfterOthers
    <2> QED
      BY <2>1, <2>2
  <1> QED
    BY <1>9, <1>10, <1>11, <1>12

\* A page logs: its client has not been told that it closed.
LEMMA LogStep ==
  ASSUME TypeOK, Hearing, NEW v \in WebViews, NEW m \in Messages, PageLogs(v, m)
  PROVE  Hearing'
  <1> USE DEF Hearing
  <1> DEFINE c == webviewConnections[v]
             line == [kind |-> "console", view |-> v, msg |-> m]
  <1>1. /\ UNCHANGED <<containers, webviewConnections, subviews, used, conn, mainQueue>>
        /\ c \in Conns /\ Send(c, line)
    BY DEF PageLogs, tables, views, clients, TypeOK
  <1>2. line \in Lines /\ line.kind = "console" /\ line.view = v
    BY DEF Lines
  <1>3. v \in used
    BY DEF PageLogs, Live, Waits, Generated
  <1>4. \A i \in DOMAIN out[c] :
          out[c][i].kind = "closed" => out[c][i].view # line.view
    BY <1>1, <1>2, NamesAssumption DEF NobodyLeftToTell
  <1> HIDE DEF c, line
  <1>5. \A d \in Conns : \A i \in DOMAIN out'[d] :
          (i \in DOMAIN out[d] /\ out'[d][i] = out[d][i]) \/ out'[d][i] = line
    BY <1>1, <1>2, SendAppends
  <1>6. \A d \in Conns : \A i \in DOMAIN out[d] :
          i \in DOMAIN out'[d] /\ out'[d][i] = out[d][i]
    BY <1>1, <1>2, SendAppends
  <1>7. Generated'
    <2>1. \A d \in Conns : \A i \in DOMAIN out'[d] :
            out'[d][i].view \in used \cup {NoView}
      BY <1>2, <1>3, <1>5 DEF Generated
    <2> QED
      BY <1>1, <2>1 DEF Generated
  <1>8. NobodyLeftToTell'
    <2>1. \A d \in Conns : \A i \in DOMAIN out'[d] :
            out'[d][i].kind = "closed" =>
              out'[d][i].view \in WebViews
                /\ webviewConnections[out'[d][i].view] = NoConn
      BY <1>2, <1>5 DEF NobodyLeftToTell
    <2> QED
      BY <1>1, <2>1 DEF NobodyLeftToTell, Removal
  <1>9. NoSilentDrop'
    <2> SUFFICES ASSUME NEW d \in Conns, NEW u \in WebViews,
                        Sent(d, "ok", u)', conn[d] = "up"
                 PROVE  webviewConnections[u] = d \/ Sent(d, "closed", u)'
      BY <1>1 DEF NoSilentDrop
    <2>1. Sent(d, "ok", u)
      BY <1>2, <1>5 DEF Sent
    <2>2. Sent(d, "closed", u) => Sent(d, "closed", u)'
      BY <1>6 DEF Sent
    <2> QED
      BY <2>1, <2>2 DEF NoSilentDrop
  <1>10. NothingAfterClosed'
    BY <1>1, <1>2, <1>4, LineAfterOthers
  <1> QED
    BY <1>7, <1>8, <1>9, <1>10

\* No block and no event breaks the invariant.
LEMMA AlwaysHearing == Safe => []Hearing
  <1>1. Init => Hearing
    BY DEF Init, Hearing, Generated, NobodyLeftToTell, NoSilentDrop,
           NothingAfterClosed, Sent
  <1>2. TypeOK /\ TypeOK' /\ Hearing /\ [Next]_vars => Hearing'
    <2> SUFFICES ASSUME TypeOK, TypeOK', Hearing, [Next]_vars
                 PROVE  Hearing'
      OBVIOUS
    <2>1. CASE HandleOpen
      BY <2>1, OpenStep
    <2>2. CASE HandleOpenRefused \/ HandleAnswerOnly
      BY <2>2, AnswerStep
    <2>3. CASE HandleSync
      BY <2>3, QuietStep DEF HandleSync, tables, views, clients
    <2>4. CASE Create
      BY <2>4, CreateStep
    <2>5. CASE CreateFails
      <3>1. \A i \in DOMAIN mainQueue' :
              i + 1 \in DOMAIN mainQueue /\ mainQueue'[i] = mainQueue[i + 1]
        BY <2>5, NextBlock DEF CreateFails
      <3> QED
        BY <2>5, <3>1, QuietStep DEF CreateFails, views, clients
    <2>6. CASE Remove
      <3>1. \A i \in DOMAIN mainQueue' :
              i + 1 \in DOMAIN mainQueue /\ mainQueue'[i] = mainQueue[i + 1]
        BY <2>6, NextBlock DEF Remove
      <3>2. ASSUME NEW p \in Panes, NEW i \in DOMAIN subviews'[p]
            PROVE  \E j \in DOMAIN subviews[p] : subviews'[p][i] = subviews[p][j]
        <4>1. subviews'[p] = Without(subviews[p], Head(mainQueue).view)
          BY <2>6 DEF Remove
        <4>2. In(subviews'[p], subviews'[p][i])
          BY DEF In
        <4>3. In(subviews[p], subviews'[p][i])
          BY <4>1, <4>2, WithoutKeeps DEF TypeOK
        <4> QED
          BY <4>3 DEF In
      <3>3. UNCHANGED <<containers, webviewConnections, used, out, conn>>
        BY <2>6 DEF Remove, tables, clients
      <3> QED
        BY <3>1, <3>2, <3>3, QuietStep
    <2>7. CASE Forget
      <3>1. \A i \in DOMAIN mainQueue' :
              i + 1 \in DOMAIN mainQueue /\ mainQueue'[i] = mainQueue[i + 1]
        BY <2>7, NextBlock DEF Forget
      <3>2. \A d \in Conns : conn'[d] = "up" => conn[d] = "up"
        BY <2>7 DEF Forget, TypeOK
      <3> QED
        BY <2>7, <3>1, <3>2, QuietStep DEF Forget, tables, views
    <2>8. ASSUME NEW p \in Panes, UserCloses(p)
          PROVE  Hearing'
      <3>1. subviews[p] \in Seq(WebViews) /\ subviews[p] # <<>>
        BY <2>8 DEF UserCloses, TypeOK
      <3>2. Len(subviews[p]) \in DOMAIN subviews[p] /\ Top(subviews[p]) \in WebViews
        BY <3>1 DEF Top
      <3>3. \/ Top(subviews[p]) \in containers
            \/ webviewConnections[Top(subviews[p])] = NoConn
        BY <3>2 DEF Top, Hearing, NobodyLeftToTell
      <3> QED
        BY <2>8, <3>2, <3>3, CloseStep, NamesAssumption DEF UserCloses
    <2>9. ASSUME NEW v \in WebViews, NEW code \in ExitCodes, PageExits(v, code)
          PROVE  Hearing'
      <3>1. v \in containers \/ webviewConnections[v] = NoConn
        BY <2>9 DEF PageExits, Live, Waits, Hearing, NobodyLeftToTell, Removal
      <3> QED
        BY <2>9, <3>1, CloseStep DEF PageExits
    <2>10. ASSUME NEW v \in WebViews, NEW m \in Messages, PageLogs(v, m)
           PROVE  Hearing'
      BY <2>10, LogStep
    <2>11. ASSUME NEW p \in Panes, PaneOpens(p)
           PROVE  Hearing'
      BY <2>11, QuietStep DEF PaneOpens, tables, clients
    <2>12. ASSUME NEW p \in Panes, PaneDies(p)
           PROVE  Hearing'
      <3>1. UNCHANGED <<containers, webviewConnections, used, out, conn, mainQueue>>
        BY <2>12 DEF PaneDies, tables, clients
      <3>2. ASSUME NEW q \in Panes, NEW i \in DOMAIN subviews'[q]
            PROVE  \E j \in DOMAIN subviews[q] : subviews'[q][i] = subviews[q][j]
        <4>1. q # p => subviews'[q] = subviews[q]
          BY <2>12 DEF PaneDies, TypeOK
        <4>2. q = p => subviews'[q] = <<>>
          BY <2>12 DEF PaneDies, TypeOK
        <4> QED
          BY <4>1, <4>2
      <3> QED
        BY <3>1, <3>2, QuietStep
    <2>13. ASSUME NEW c \in Conns, Hangup(c)
           PROVE  Hearing'
      <3>1. UNCHANGED <<containers, webviewConnections, subviews, used, out>>
        BY <2>13 DEF Hangup, tables, views
      <3>2. \A d \in Conns : conn'[d] = "up" => conn[d] = "up"
        BY <2>13 DEF Hangup, TypeOK
      <3>3. [kind |-> "forget", conn |-> c] \in Blocks
        BY DEF Blocks
      <3>4. \A i \in DOMAIN mainQueue' :
              (i \in DOMAIN mainQueue /\ mainQueue'[i] = mainQueue[i])
                \/ mainQueue'[i].kind = "forget"
        BY <2>13, <3>3, AtTheEnd DEF Hangup, TypeOK
      <3> QED
        BY <3>1, <3>2, <3>4, QuietStep
    <2>14. ASSUME NEW c \in Conns, NEW r \in Requests, Receive(c, r)
           PROVE  Hearing'
      <3>1. UNCHANGED <<containers, webviewConnections, subviews, used, out, conn>>
        BY <2>14 DEF Receive, tables, views
      <3>2. [kind |-> "handle", conn |-> c, req |-> r] \in Blocks
        BY DEF Blocks
      <3>3. \A i \in DOMAIN mainQueue' :
              (i \in DOMAIN mainQueue /\ mainQueue'[i] = mainQueue[i])
                \/ mainQueue'[i].kind = "handle"
        BY <2>14, <3>2, AtTheEnd DEF Receive, TypeOK
      <3> QED
        BY <3>1, <3>3, QuietStep
    <2>15. CASE UNCHANGED vars
      BY <2>15, QuietStep DEF vars
    <2> QED
      BY <2>1, <2>2, <2>3, <2>4, <2>5, <2>6, <2>7, <2>8, <2>9, <2>10, <2>11,
         <2>12, <2>13, <2>14, <2>15
         DEF Next, RunBlock, UserEvent
  <1> QED
    BY <1>1, <1>2, AlwaysTyped, PTL DEF Safe

\* The inductive invariant, and what it is for.
THEOREM HearingHolds == Spec => []Hearing
  BY AlwaysHearing, PTL DEF Spec, Safe

\* A granted client that is still there is known to the manager or was told.
THEOREM NoSilentDropHolds == Spec => []NoSilentDrop
  <1>1. Hearing => NoSilentDrop
    BY DEF Hearing
  <1> QED
    BY <1>1, HearingHolds, PTL

\* `closed` is said once, and is the last word.
THEOREM NothingAfterClosedHolds == Spec => []NothingAfterClosed
  <1>1. Hearing => NothingAfterClosed
    BY DEF Hearing
  <1> QED
    BY <1>1, HearingHolds, PTL

-----------------------------------------------------------------------------
(* The tables.  Between the answer to `open` and the block that creates    *)
(* the view only the stack and the queue know the view, which is closed,   *)
(* if at all, after that block.                                            *)

Creation(v, p) == [kind |-> "create", view |-> v, pane |-> p]
Queued(q, v, p) == \E k \in DOMAIN q : q[k] = Creation(v, p)

\* A view is created once.
Once(q) ==
  \A j, k \in DOMAIN q :
    q[j].kind = "create" /\ q[k].kind = "create" /\ q[j].view = q[k].view => j = k

\* What is inductive: TableIntegrity, entry by entry, with what it rests on.
Tables ==
  /\ \A v \in WebViews : v \in containers <=> webviewToPaneId[v] # NoPane
  /\ \A v \in containers : In(paneStacks[webviewToPaneId[v]], v)
  /\ \A p \in Panes : \A v \in WebViews :
       In(paneStacks[p], v) => webviewToPaneId[v] = p \/ Queued(mainQueue, v, p)
  /\ \A p \in Panes : Distinct(paneStacks[p])
  /\ \A p \in Panes : \A v \in WebViews :
       Queued(mainQueue, v, p) =>
         /\ v \in used /\ webviewToPaneId[v] = NoPane
         /\ In(paneStacks[p], v)
  /\ Once(mainQueue)
  /\ containers \subseteq used

\* Removing an id takes it out and leaves the others.
LEMMA WithoutTakesOut ==
  ASSUME NEW S, NEW s \in Seq(S), NEW e, Distinct(s)
  PROVE  /\ Distinct(Without(s, e)) /\ ~In(Without(s, e), e)
         /\ \A u : u # e /\ In(s, u) => In(Without(s, e), u)
  <1>1. CASE ~In(s, e)
    BY <1>1 DEF Without
  <1>2. CASE In(s, e)
    <2> DEFINE k == CHOOSE i \in DOMAIN s : s[i] = e
               r == [i \in 1..(Len(s) - 1) |-> IF i < k THEN s[i] ELSE s[i + 1]]
    <2>1. Without(s, e) = r
      BY <1>2 DEF Without
    <2>2. k \in DOMAIN s /\ s[k] = e
      BY <1>2 DEF In
    <2>3. Len(s) \in Nat /\ DOMAIN s = 1..Len(s)
      OBVIOUS
    <2>4. /\ DOMAIN r = 1..(Len(s) - 1)
          /\ \A i \in 1..(Len(s) - 1) : r[i] = IF i < k THEN s[i] ELSE s[i + 1]
      OBVIOUS
    <2> HIDE DEF k, r
    <2>5. ASSUME NEW i \in DOMAIN r
          PROVE  \E j \in DOMAIN s : j # k /\ r[i] = s[j] /\ j = IF i < k THEN i ELSE i + 1
      BY <2>2, <2>3, <2>4
    <2>6. ~In(r, e)
      BY <2>2, <2>5 DEF In, Distinct
    <2>7. Distinct(r)
      <3> SUFFICES ASSUME NEW i \in DOMAIN r, NEW j \in DOMAIN r, r[i] = r[j]
                   PROVE  i = j
        BY DEF Distinct
      <3>1. PICK m \in DOMAIN s : r[i] = s[m] /\ m = IF i < k THEN i ELSE i + 1
        BY <2>5
      <3>2. PICK n \in DOMAIN s : r[j] = s[n] /\ n = IF j < k THEN j ELSE j + 1
        BY <2>5
      <3>3. m = n
        BY <3>1, <3>2 DEF Distinct
      <3> QED
        BY <2>2, <2>3, <2>4, <3>1, <3>2, <3>3
    <2>8. ASSUME NEW u, u # e, In(s, u)
          PROVE  In(r, u)
      <3>1. PICK j \in DOMAIN s : s[j] = u
        BY <2>8 DEF In
      <3>2. j # k
        BY <2>2, <2>8, <3>1
      <3>3. CASE j < k
        BY <2>2, <2>3, <2>4, <3>1, <3>3 DEF In
      <3>4. CASE j > k
        <4>1. j - 1 \in 1..(Len(s) - 1) /\ ~(j - 1 < k) /\ j - 1 + 1 = j
          BY <2>2, <2>3, <3>4
        <4>2. r[j - 1] = s[j]
          BY <2>4, <4>1
        <4> QED
          BY <2>4, <3>1, <4>1, <4>2 DEF In
      <3> QED
        BY <2>2, <2>3, <3>2, <3>3, <3>4
    <2> QED
      BY <2>1, <2>6, <2>7, <2>8
  <1> QED
    BY <1>1, <1>2

\* An id that is not in a sequence can be put at its end.
LEMMA AppendTakesIn ==
  ASSUME NEW S, NEW s \in Seq(S), NEW e \in S, Distinct(s), ~In(s, e)
  PROVE  /\ Distinct(Append(s, e)) /\ In(Append(s, e), e)
         /\ \A u : In(Append(s, e), u) <=> In(s, u) \/ u = e
  BY AtTheEnd DEF Distinct, In

\* A create block is known by its view and pane.
LEMMA CreateBlock ==
  ASSUME NEW b \in Blocks, b.kind = "create"
  PROVE  b = Creation(b.view, b.pane)
  BY DEF Blocks, Creation

\* What is behind the head is created once, too.
LEMMA OnceBehind ==
  ASSUME NEW q \in Seq(Blocks), q # <<>>, Once(q)
  PROVE  Once(Tail(q))
  <1> SUFFICES ASSUME NEW j \in DOMAIN Tail(q), NEW k \in DOMAIN Tail(q),
                      Tail(q)[j].kind = "create", Tail(q)[k].kind = "create",
                      Tail(q)[j].view = Tail(q)[k].view
               PROVE  j = k
    BY DEF Once
  <1>1. /\ j + 1 \in DOMAIN q /\ Tail(q)[j] = q[j + 1]
        /\ k + 1 \in DOMAIN q /\ Tail(q)[k] = q[k + 1]
    BY BehindHead
  <1>2. j + 1 = k + 1
    BY <1>1 DEF Once
  <1>3. j \in Nat /\ k \in Nat
    OBVIOUS
  <1> QED
    BY <1>2, <1>3

\* A block of another kind leaves the queue: the creations stay as they are.
LEMMA OtherPop ==
  ASSUME NEW q \in Seq(Blocks), q # <<>>, Head(q).kind # "create", Once(q)
  PROVE  Once(Tail(q)) /\ \A v, p : Queued(Tail(q), v, p) <=> Queued(q, v, p)
  <1>1. Once(Tail(q))
    BY OnceBehind
  <1>2. ASSUME NEW v, NEW p, Queued(Tail(q), v, p) PROVE Queued(q, v, p)
    BY <1>2, BehindHead DEF Queued
  <1>3. ASSUME NEW v, NEW p, Queued(q, v, p) PROVE Queued(Tail(q), v, p)
    <2>1. PICK k \in DOMAIN q : q[k] = Creation(v, p)
      BY <1>3 DEF Queued
    <2>2. k # 1
      BY <2>1, BehindHead DEF Creation
    <2>3. k - 1 \in DOMAIN Tail(q) /\ Tail(q)[k - 1] = q[k]
      BY <2>2
    <2> QED
      BY <2>1, <2>3 DEF Queued
  <1> QED
    BY <1>1, <1>2, <1>3

\* A block of another kind is queued behind them.
LEMMA OtherPush ==
  ASSUME NEW q \in Seq(Blocks), NEW b \in Blocks, b.kind # "create", Once(q)
  PROVE  /\ Once(Append(q, b))
         /\ \A v, p : Queued(Append(q, b), v, p) <=> Queued(q, v, p)
  <1>1. Once(Append(q, b))
    BY AtTheEnd DEF Once
  <1>2. \A v, p : Queued(Append(q, b), v, p) <=> Queued(q, v, p)
    BY AtTheEnd DEF Queued, Creation
  <1> QED
    BY <1>1, <1>2

\* The view of a create block is created, and not again.
LEMMA CreatePop ==
  ASSUME NEW q \in Seq(Blocks), q # <<>>, Head(q).kind = "create", Once(q)
  PROVE  /\ Once(Tail(q))
         /\ Queued(q, Head(q).view, Head(q).pane)
         /\ \A v, p : Queued(Tail(q), v, p) => Queued(q, v, p) /\ v # Head(q).view
         /\ \A v, p : Queued(q, v, p) =>
              Queued(Tail(q), v, p) \/ (v = Head(q).view /\ p = Head(q).pane)
  <1>1. Once(Tail(q))
    BY OnceBehind
  <1>2. Queued(q, Head(q).view, Head(q).pane)
    BY BehindHead, CreateBlock DEF Queued
  <1>3. ASSUME NEW v, NEW p, Queued(Tail(q), v, p)
        PROVE  Queued(q, v, p) /\ v # Head(q).view
    <2>1. PICK k \in DOMAIN Tail(q) : Tail(q)[k] = Creation(v, p)
      BY <1>3 DEF Queued
    <2>2. k + 1 \in DOMAIN q /\ q[k + 1] = Creation(v, p) /\ k + 1 # 1
      BY <2>1, BehindHead
    <2>3. q[k + 1].kind = "create" /\ q[k + 1].view = v
      BY <2>2 DEF Creation
    <2> QED
      BY <2>2, <2>3, BehindHead DEF Queued, Once
  <1>4. ASSUME NEW v, NEW p, Queued(q, v, p)
        PROVE  Queued(Tail(q), v, p) \/ (v = Head(q).view /\ p = Head(q).pane)
    <2>1. PICK k \in DOMAIN q : q[k] = Creation(v, p)
      BY <1>4 DEF Queued
    <2>2. CASE k = 1
      BY <2>1, <2>2, BehindHead DEF Creation
    <2>3. CASE k # 1
      <3>1. k - 1 \in DOMAIN Tail(q) /\ Tail(q)[k - 1] = q[k]
        BY <2>3
      <3> QED
        BY <2>1, <3>1 DEF Queued
    <2> QED
      BY <2>2, <2>3
  <1> QED
    BY <1>1, <1>2, <1>3, <1>4

\* A block is queued to create a view no other block is to create.
LEMMA CreatePush ==
  ASSUME NEW q \in Seq(Blocks), NEW w \in WebViews, NEW r \in Panes, Once(q),
         \A p \in Panes : ~Queued(q, w, p)
  PROVE  /\ Once(Append(q, Creation(w, r)))
         /\ \A v, p : Queued(Append(q, Creation(w, r)), v, p)
                        <=> Queued(q, v, p) \/ (v = w /\ p = r)
  <1> DEFINE b == Creation(w, r)
  <1>1. b \in Blocks /\ b.kind = "create" /\ b.view = w /\ b.pane = r
    BY DEF Creation, Blocks
  <1> HIDE DEF b
  <1>2. ASSUME NEW k \in DOMAIN q, q[k].kind = "create" PROVE q[k].view # w
    <2>1. q[k] \in Blocks
      OBVIOUS
    <2>2. q[k].pane \in Panes /\ q[k] = Creation(q[k].view, q[k].pane)
      BY <1>2, <2>1, BlockTypes, CreateBlock
    <2> QED
      BY <2>2 DEF Queued
  <1>3. Once(Append(q, b))
    BY <1>1, <1>2, AtTheEnd DEF Once
  <1>4. ASSUME NEW v, NEW p PROVE b = Creation(v, p) <=> v = w /\ p = r
    <2>1. Creation(v, p).view = v /\ Creation(v, p).pane = p
      BY DEF Creation
    <2> QED
      BY <1>1, <2>1 DEF b
  <1>5. ASSUME NEW v, NEW p
        PROVE  Queued(Append(q, b), v, p) <=> Queued(q, v, p) \/ (v = w /\ p = r)
    <2>1. /\ Append(q, b)[Len(q) + 1] = b /\ Len(q) + 1 \in DOMAIN Append(q, b)
          /\ \A i \in DOMAIN q : i \in DOMAIN Append(q, b) /\ Append(q, b)[i] = q[i]
          /\ \A i \in DOMAIN Append(q, b) :
               (i \in DOMAIN q /\ Append(q, b)[i] = q[i])
                 \/ (i = Len(q) + 1 /\ Append(q, b)[i] = b)
      BY <1>1, AtTheEnd
    <2> QED
      BY <1>4, <2>1 DEF Queued
  <1> QED
    BY <1>3, <1>5 DEF b

\* A step that leaves the tables and the creations alone.
LEMMA QuietTables ==
  ASSUME TypeOK, Tables, UNCHANGED <<containers, webviewToPaneId, paneStacks, used>>,
         Once(mainQueue'), \A v, p : Queued(mainQueue', v, p) <=> Queued(mainQueue, v, p)
  PROVE  Tables'
  BY DEF Tables

\* open: the stack and the queue take the new view in.
LEMMA OpenTables == ASSUME TypeOK, Tables, HandleOpen PROVE Tables'
  <1> DEFINE r == Request.pane
             q == Tail(mainQueue)
  <1>1. PICK w \in WebViews \ used :
          /\ used' = used \cup {w}
          /\ paneStacks' = [paneStacks EXCEPT ![r] = Append(@, w)]
          /\ mainQueue' = Append(q, Creation(w, r))
    BY DEF HandleOpen, Creation
  <1>2. r \in Panes /\ q \in Seq(Blocks) /\ mainQueue # <<>>
        /\ mainQueue \in Seq(Blocks) /\ Head(mainQueue).kind # "create"
    BY NextBlock, BlockTypes DEF HandleOpen, Request, Runs, TypeOK
  <1>3. UNCHANGED <<containers, webviewToPaneId>>
    BY DEF HandleOpen
  <1>4. Once(q) /\ \A v, p : Queued(q, v, p) <=> Queued(mainQueue, v, p)
    BY <1>2, OtherPop DEF Tables
  <1> HIDE DEF r, q
  <1>5. \A p \in Panes : ~Queued(q, w, p)
    BY <1>1, <1>4 DEF Tables
  <1>6. /\ Once(mainQueue')
        /\ \A v, p : Queued(mainQueue', v, p)
                        <=> Queued(mainQueue, v, p) \/ (v = w /\ p = r)
    BY <1>1, <1>2, <1>4, <1>5, CreatePush
  <1>7. w \notin containers /\ webviewToPaneId[w] = NoPane
    BY <1>1 DEF Tables
  <1>8. \A p \in Panes : paneStacks[p] \in Seq(WebViews) /\ ~In(paneStacks[p], w)
    BY <1>1, <1>4, <1>5, <1>7, NamesAssumption DEF Tables, TypeOK
  <1>9. /\ Distinct(paneStacks'[r])
        /\ \A v : In(paneStacks'[r], v) <=> In(paneStacks[r], v) \/ v = w
        /\ \A p \in Panes : p # r => paneStacks'[p] = paneStacks[p]
    <2>1. paneStacks'[r] = Append(paneStacks[r], w)
      BY <1>1, <1>2 DEF TypeOK
    <2>2. Distinct(paneStacks[r])
      BY <1>2 DEF Tables
    <2>3. /\ Distinct(Append(paneStacks[r], w))
          /\ \A v : In(Append(paneStacks[r], w), v) <=> In(paneStacks[r], v) \/ v = w
      BY <1>1, <1>2, <1>8, <2>2, AppendTakesIn
    <2>4. \A p \in Panes : p # r => paneStacks'[p] = paneStacks[p]
      BY <1>1, <1>2 DEF TypeOK
    <2> QED
      BY <2>1, <2>3, <2>4
  <1>10. ASSUME NEW v \in containers'
         PROVE  In(paneStacks'[webviewToPaneId'[v]], v)
    <2>1. webviewToPaneId[v] \in Panes /\ In(paneStacks[webviewToPaneId[v]], v)
      BY <1>3 DEF Tables, TypeOK
    <2> QED
      BY <1>3, <1>9, <2>1
  <1>11. ASSUME NEW p \in Panes, NEW v \in WebViews, In(paneStacks'[p], v)
         PROVE  webviewToPaneId'[v] = p \/ Queued(mainQueue', v, p)
    <2>1. In(paneStacks[p], v) \/ (v = w /\ p = r)
      BY <1>9, <1>11
    <2> QED
      BY <1>3, <1>6, <2>1 DEF Tables
  <1>12. \A p \in Panes : Distinct(paneStacks'[p])
    BY <1>9 DEF Tables
  <1>13. ASSUME NEW p \in Panes, NEW v \in WebViews, Queued(mainQueue', v, p)
         PROVE  v \in used' /\ webviewToPaneId'[v] = NoPane /\ In(paneStacks'[p], v)
    <2>1. CASE v = w /\ p = r
      BY <1>1, <1>3, <1>7, <1>9, <2>1
    <2>2. CASE Queued(mainQueue, v, p)
      BY <1>1, <1>3, <1>9, <2>2 DEF Tables
    <2> QED
      BY <1>6, <1>13, <2>1, <2>2
  <1>14. /\ \A v \in WebViews : v \in containers' <=> webviewToPaneId'[v] # NoPane
         /\ containers' \subseteq used'
    BY <1>1, <1>3 DEF Tables
  <1> QED
    BY <1>6, <1>10, <1>11, <1>12, <1>13, <1>14 DEF Tables

\* The view is created: the container stands where the queue did.
LEMMA CreateTables == ASSUME TypeOK, Tables, Create PROVE Tables'
  <1> DEFINE w == Head(mainQueue).view
             r == Head(mainQueue).pane
  <1>1. /\ w \in WebViews /\ r \in Panes
        /\ mainQueue # <<>> /\ mainQueue \in Seq(Blocks)
        /\ Head(mainQueue).kind = "create"
    BY NextBlock, BlockTypes DEF Create, Runs, TypeOK
  <1>2. /\ containers' = containers \cup {w}
        /\ webviewToPaneId' = [webviewToPaneId EXCEPT ![w] = r]
        /\ mainQueue' = Tail(mainQueue)
        /\ UNCHANGED <<paneStacks, used>>
    BY DEF Create
  <1>3. /\ Once(mainQueue') /\ Queued(mainQueue, w, r)
        /\ \A v, p : Queued(mainQueue', v, p) => Queued(mainQueue, v, p) /\ v # w
        /\ \A v, p : Queued(mainQueue, v, p) =>
             Queued(mainQueue', v, p) \/ (v = w /\ p = r)
    BY <1>1, <1>2, CreatePop DEF Tables
  <1> HIDE DEF w, r
  <1>4. w \in used /\ webviewToPaneId[w] = NoPane /\ In(paneStacks[r], w)
    BY <1>1, <1>3 DEF Tables
  <1>5. /\ webviewToPaneId'[w] = r /\ r # NoPane
        /\ \A v \in WebViews : v # w => webviewToPaneId'[v] = webviewToPaneId[v]
    BY <1>1, <1>2, NamesAssumption DEF TypeOK
  <1>6. \A v \in WebViews : v \in containers' <=> webviewToPaneId'[v] # NoPane
    BY <1>2, <1>5 DEF Tables
  <1>7. \A v \in containers' : In(paneStacks'[webviewToPaneId'[v]], v)
    BY <1>2, <1>4, <1>5 DEF Tables, TypeOK
  <1>8. ASSUME NEW p \in Panes, NEW v \in WebViews, In(paneStacks'[p], v)
        PROVE  webviewToPaneId'[v] = p \/ Queued(mainQueue', v, p)
    <2>1. webviewToPaneId[v] = p \/ Queued(mainQueue, v, p)
      BY <1>2, <1>8 DEF Tables
    <2> QED
      BY <1>3, <1>4, <1>5, <2>1, NamesAssumption
  <1>9. ASSUME NEW p \in Panes, NEW v \in WebViews, Queued(mainQueue', v, p)
        PROVE  v \in used' /\ webviewToPaneId'[v] = NoPane /\ In(paneStacks'[p], v)
    BY <1>2, <1>3, <1>5, <1>9 DEF Tables
  <1>10. containers' \subseteq used' /\ \A p \in Panes : Distinct(paneStacks'[p])
    BY <1>2, <1>4 DEF Tables
  <1> QED
    BY <1>3, <1>6, <1>7, <1>8, <1>9, <1>10 DEF Tables

\* The surface is gone: the place in the stack goes with the block.
LEMMA CreateFailsTables == ASSUME TypeOK, Tables, CreateFails PROVE Tables'
  <1> DEFINE w == Head(mainQueue).view
             r == Head(mainQueue).pane
  <1>1. /\ w \in WebViews /\ r \in Panes
        /\ mainQueue # <<>> /\ mainQueue \in Seq(Blocks)
        /\ Head(mainQueue).kind = "create"
    BY NextBlock, BlockTypes DEF CreateFails, Runs, TypeOK
  <1>2. /\ paneStacks' = [paneStacks EXCEPT ![r] = Without(@, w)]
        /\ mainQueue' = Tail(mainQueue)
        /\ UNCHANGED <<containers, webviewToPaneId, used>>
    BY DEF CreateFails
  <1>3. /\ Once(mainQueue') /\ Queued(mainQueue, w, r)
        /\ \A v, p : Queued(mainQueue', v, p) => Queued(mainQueue, v, p) /\ v # w
        /\ \A v, p : Queued(mainQueue, v, p) =>
             Queued(mainQueue', v, p) \/ (v = w /\ p = r)
    BY <1>1, <1>2, CreatePop DEF Tables
  <1> HIDE DEF w, r
  <1>4. webviewToPaneId[w] = NoPane /\ w \notin containers
    BY <1>1, <1>3 DEF Tables
  <1>5. /\ Distinct(paneStacks'[r]) /\ ~In(paneStacks'[r], w)
        /\ \A v : v # w /\ In(paneStacks[r], v) => In(paneStacks'[r], v)
        /\ \A v : In(paneStacks'[r], v) => In(paneStacks[r], v)
        /\ \A p \in Panes : p # r => paneStacks'[p] = paneStacks[p]
    <2>1. paneStacks[r] \in Seq(WebViews) /\ Distinct(paneStacks[r])
      BY <1>1 DEF Tables, TypeOK
    <2>2. /\ paneStacks'[r] = Without(paneStacks[r], w)
          /\ \A p \in Panes : p # r => paneStacks'[p] = paneStacks[p]
      BY <1>1, <1>2 DEF TypeOK
    <2> QED
      BY <2>1, <2>2, WithoutTakesOut, WithoutKeeps
  <1>6. \A v \in containers' : In(paneStacks'[webviewToPaneId'[v]], v)
    BY <1>2, <1>4, <1>5 DEF Tables, TypeOK
  <1>7. ASSUME NEW p \in Panes, NEW v \in WebViews, In(paneStacks'[p], v)
        PROVE  webviewToPaneId'[v] = p \/ Queued(mainQueue', v, p)
    <2>1. In(paneStacks[p], v) /\ ~(v = w /\ p = r)
      BY <1>5, <1>7
    <2> QED
      BY <1>2, <1>3, <2>1 DEF Tables
  <1>8. ASSUME NEW p \in Panes, NEW v \in WebViews, Queued(mainQueue', v, p)
        PROVE  v \in used' /\ webviewToPaneId'[v] = NoPane /\ In(paneStacks'[p], v)
    <2>1. In(paneStacks[p], v) /\ v # w
      BY <1>3, <1>8 DEF Tables
    <2> QED
      BY <1>2, <1>3, <1>5, <1>8, <2>1 DEF Tables
  <1>9. /\ \A p \in Panes : Distinct(paneStacks'[p])
        /\ containers' \subseteq used'
        /\ \A v \in WebViews : v \in containers' <=> webviewToPaneId'[v] # NoPane
    BY <1>2, <1>5 DEF Tables
  <1> QED
    BY <1>3, <1>6, <1>7, <1>8, <1>9 DEF Tables

\* A close takes the view out of each table; a view that is still to be created
\* has no pane yet and is left alone.
LEMMA CloseTables ==
  ASSUME TypeOK, Tables, NEW w \in WebViews, NEW code \in ExitCodes,
         CloseWebView(w, code)
  PROVE  Tables'
  <1> DEFINE r == webviewToPaneId[w]
             rest == IF r = NoPane THEN <<>> ELSE Without(paneStacks[r], w)
  <1>1. /\ containers' = containers \ {w}
        /\ webviewToPaneId' = [webviewToPaneId EXCEPT ![w] = NoPane]
        /\ used' = used
        /\ paneStacks' = IF r = NoPane THEN paneStacks
                         ELSE [paneStacks EXCEPT ![r] = rest]
    BY DEF CloseWebView
  <1>2. r \in Panes \cup {NoPane}
    BY DEF TypeOK
  <1>3. rest \in Seq(WebViews)
    <2>1. CASE r = NoPane
      BY <2>1
    <2>2. CASE r # NoPane
      <3>1. paneStacks[r] \in Seq(WebViews)
        BY <1>2, <2>2 DEF TypeOK
      <3> QED
        BY <2>2, <3>1, WithoutKeeps
    <2> QED
      BY <2>1, <2>2
  <1>4. /\ Once(mainQueue')
        /\ \A v, p : Queued(mainQueue', v, p) <=> Queued(mainQueue, v, p)
    <2>1. CASE w \in containers
      <3>1. QueueRemoval(w, r, rest)
        BY <2>1 DEF CloseWebView
      <3> HIDE DEF r, rest
      <3>2. PICK b \in Blocks : b.kind = "remove" /\ mainQueue' = Append(mainQueue, b)
        BY <1>2, <1>3, <3>1, RemovalTypes
      <3>3. mainQueue \in Seq(Blocks) /\ b.kind # "create" /\ Once(mainQueue)
        BY <3>2 DEF TypeOK, Tables
      <3> QED
        BY <3>2, <3>3, OtherPush
    <2>2. CASE w \notin containers
      BY <2>2 DEF CloseWebView, Tables
    <2> QED
      BY <2>1, <2>2
  <1>5. CASE r = NoPane
    <2>1. w \notin containers
      BY <1>5 DEF Tables
    <2>2. UNCHANGED <<containers, webviewToPaneId, paneStacks, used>>
      BY <1>1, <1>5, <2>1 DEF TypeOK
    <2> QED
      BY <1>4, <2>2, QuietTables
  <1>6. CASE r # NoPane
    <2>1. r \in Panes /\ w \in containers
      BY <1>2, <1>6 DEF Tables
    <2>2. /\ Distinct(paneStacks'[r]) /\ ~In(paneStacks'[r], w)
          /\ \A v : v # w /\ In(paneStacks[r], v) => In(paneStacks'[r], v)
          /\ \A v : In(paneStacks'[r], v) => In(paneStacks[r], v)
          /\ \A p \in Panes : p # r => paneStacks'[p] = paneStacks[p]
      <3>1. paneStacks[r] \in Seq(WebViews) /\ Distinct(paneStacks[r])
        BY <2>1 DEF Tables, TypeOK
      <3>2. /\ paneStacks'[r] = Without(paneStacks[r], w)
            /\ \A p \in Panes : p # r => paneStacks'[p] = paneStacks[p]
        BY <1>1, <1>6, <2>1 DEF TypeOK
      <3> QED
        BY <3>1, <3>2, WithoutTakesOut, WithoutKeeps
    <2>3. /\ webviewToPaneId'[w] = NoPane
          /\ \A v \in WebViews : v # w => webviewToPaneId'[v] = webviewToPaneId[v]
      BY <1>1 DEF TypeOK
    <2>4. webviewToPaneId[w] = r
      OBVIOUS
    <2> HIDE DEF r, rest
    <2>5. \A v \in containers' : In(paneStacks'[webviewToPaneId'[v]], v)
      BY <1>1, <2>2, <2>3 DEF Tables, TypeOK
    <2>6. ASSUME NEW p \in Panes, NEW v \in WebViews, In(paneStacks'[p], v)
          PROVE  webviewToPaneId'[v] = p \/ Queued(mainQueue', v, p)
      <3>1. In(paneStacks[p], v) /\ ~(v = w /\ p = r)
        BY <2>2, <2>6
      <3> QED
        BY <1>4, <2>3, <2>4, <3>1 DEF Tables
    <2>7. ASSUME NEW p \in Panes, NEW v \in WebViews, Queued(mainQueue', v, p)
          PROVE  v \in used' /\ webviewToPaneId'[v] = NoPane /\ In(paneStacks'[p], v)
      <3>1. v \in used /\ webviewToPaneId[v] = NoPane /\ In(paneStacks[p], v)
        BY <1>4, <2>7 DEF Tables
      <3>2. v # w
        BY <1>6, <2>4, <3>1
      <3> QED
        BY <1>1, <2>2, <2>3, <3>1, <3>2
    <2>8. /\ \A p \in Panes : Distinct(paneStacks'[p])
          /\ containers' \subseteq used'
          /\ \A v \in WebViews : v \in containers' <=> webviewToPaneId'[v] # NoPane
      BY <1>1, <2>2, <2>3 DEF Tables
    <2> QED
      BY <1>4, <2>5, <2>6, <2>7, <2>8 DEF Tables
  <1> QED
    BY <1>5, <1>6

\* Any other block leaves the queue.
LEMMA PopTables ==
  ASSUME TypeOK, Tables, NEW kind, kind # "create", Runs(kind),
         mainQueue' = Tail(mainQueue),
         UNCHANGED <<containers, webviewToPaneId, paneStacks, used>>
  PROVE  Tables'
  <1>1. /\ mainQueue \in Seq(Blocks) /\ mainQueue # <<>> /\ Once(mainQueue)
        /\ Head(mainQueue).kind # "create"
    BY DEF TypeOK, Runs, Tables
  <1> QED
    BY <1>1, OtherPop, QuietTables

\* Any other block is queued.
LEMMA PushTables ==
  ASSUME TypeOK, Tables, NEW b \in Blocks, b.kind # "create",
         mainQueue' = Append(mainQueue, b),
         UNCHANGED <<containers, webviewToPaneId, paneStacks, used>>
  PROVE  Tables'
  <1>1. mainQueue \in Seq(Blocks) /\ Once(mainQueue)
    BY DEF TypeOK, Tables
  <1> QED
    BY <1>1, OtherPush, QuietTables

\* No block and no event breaks the agreement of tables and creations.
LEMMA AlwaysTables == Safe => []Tables
  <1>1. Init => Tables
    BY DEF Init, Tables, In, Queued, Once, Distinct
  <1>2. TypeOK /\ Tables /\ [Next]_vars => Tables'
    <2> SUFFICES ASSUME TypeOK, Tables, [Next]_vars
                 PROVE  Tables'
      OBVIOUS
    <2>1. ASSUME mainQueue' = mainQueue,
                 UNCHANGED <<containers, webviewToPaneId, paneStacks, used>>
          PROVE  Tables'
      BY <2>1, QuietTables DEF Tables
    <2>2. CASE HandleOpenRefused \/ HandleAnswerOnly
      BY <2>2, PopTables DEF HandleOpenRefused, HandleAnswerOnly, tables
    <2>3. CASE HandleSync
      BY <2>1, <2>3 DEF HandleSync, tables
    <2>4. CASE Remove
      BY <2>4, PopTables DEF Remove, tables
    <2>5. CASE Forget
      BY <2>5, PopTables DEF Forget, tables
    <2>6. ASSUME NEW p \in Panes, UserCloses(p) PROVE Tables'
      <3>1. subviews[p] \in Seq(WebViews) /\ subviews[p] # <<>>
        BY <2>6 DEF UserCloses, TypeOK
      <3>2. Top(subviews[p]) \in WebViews
        BY <3>1 DEF Top
      <3> QED
        BY <2>6, <3>2, CloseTables, NamesAssumption DEF UserCloses
    <2>7. ASSUME NEW v \in WebViews, NEW code \in ExitCodes, PageExits(v, code)
          PROVE  Tables'
      BY <2>7, CloseTables DEF PageExits
    <2>8. ASSUME NEW v \in WebViews, NEW m \in Messages, PageLogs(v, m)
          PROVE  Tables'
      BY <2>1, <2>8 DEF PageLogs, tables
    <2>9. ASSUME NEW p \in Panes, PaneOpens(p) \/ PaneDies(p) PROVE Tables'
      BY <2>1, <2>9 DEF PaneOpens, PaneDies, tables
    <2>10. ASSUME NEW c \in Conns, Hangup(c) PROVE Tables'
      <3>1. [kind |-> "forget", conn |-> c] \in Blocks
        BY DEF Blocks
      <3> QED
        BY <2>10, <3>1, PushTables DEF Hangup, tables
    <2>11. ASSUME NEW c \in Conns, NEW q \in Requests, Receive(c, q) PROVE Tables'
      <3>1. [kind |-> "handle", conn |-> c, req |-> q] \in Blocks
        BY DEF Blocks
      <3> QED
        BY <2>11, <3>1, PushTables DEF Receive, tables
    <2>12. CASE UNCHANGED vars
      BY <2>1, <2>12 DEF vars
    <2> QED
      BY <2>2, <2>3, <2>4, <2>5, <2>6, <2>7, <2>8, <2>9, <2>10, <2>11, <2>12,
         OpenTables, CreateTables, CreateFailsTables DEF Next, RunBlock, UserEvent
  <1> QED
    BY <1>1, <1>2, AlwaysTyped, PTL DEF Safe

\* The tables and the creations agree after every block and event.
THEOREM TablesHold == Spec => []Tables
  BY AlwaysTables, PTL DEF Spec, Safe

\* A container has a pane and a place in its stack, and a place in a stack has a
\* container or a creation on its way.
THEOREM TableIntegrityHolds == Spec => []TableIntegrity
  <1>1. TypeOK /\ Tables => TableIntegrity
    <2> SUFFICES ASSUME TypeOK, Tables PROVE TableIntegrity
      OBVIOUS
    <2>1. ASSUME NEW p \in Panes, NEW i \in DOMAIN paneStacks[p]
          PROVE  \/ webviewToPaneId[paneStacks[p][i]] = p
                 \/ \E k \in DOMAIN mainQueue : mainQueue[k]
                      = [kind |-> "create", view |-> paneStacks[p][i], pane |-> p]
      <3>1. paneStacks[p][i] \in WebViews /\ In(paneStacks[p], paneStacks[p][i])
        BY DEF TypeOK, In
      <3> QED
        BY <3>1 DEF Tables, Queued, Creation
    <2> QED
      BY <2>1 DEF TableIntegrity, Tables
  <1> QED
    BY <1>1, TablesHold, TypeCorrect, PTL

-----------------------------------------------------------------------------
(* The order of the views: what is above what in a pane.                   *)

\* u is to be created in p, and w as well: by the same block or a later one.
CreatedInOrder(q, u, w, p) ==
  \E i, j \in DOMAIN q : i <= j /\ q[i] = Creation(u, p) /\ q[j] = Creation(w, p)

\* Only a living pane has subviews, and they are its webviews, each once, and
\* those that were just closed.
Shown ==
  \A p \in Panes :
    /\ Distinct(subviews[p])
    /\ \A v \in WebViews : In(subviews[p], v) =>
         /\ v \in used /\ surface[p] = "alive"
         /\ webviewToPaneId[v] \in {p, NoPane}
         /\ \A r \in Panes : ~Queued(mainQueue, v, r)

\* The containers of a living pane are on the screen.
OnScreen ==
  \A p \in Panes, v \in containers :
    webviewToPaneId[v] = p /\ surface[p] = "alive" => In(subviews[p], v)

\* What is above a view that is still to be created is created after it.
CreationOrder ==
  \A p \in Panes, u, w \in WebViews :
    Before(paneStacks[p], u, w) /\ Queued(mainQueue, u, p) =>
      CreatedInOrder(mainQueue, u, w, p)

\* A view that is to be removed was created, and is not coming back.
Leaving ==
  \A i \in DOMAIN mainQueue : Removal(i) =>
    /\ mainQueue[i].view \in used \ containers
    /\ \A p \in Panes : ~Queued(mainQueue, mainQueue[i].view, p)

\* No webview is opened in a pane before there is one.
NothingUnborn ==
  \A p \in Panes, v \in WebViews : surface[p] = "unborn" => ~In(paneStacks[p], v)

\* What is inductive, given Tables.
Layout ==
  /\ Shown /\ OnScreen /\ StackMatchesViews
  /\ CreationOrder /\ Leaving /\ NothingUnborn

\* The place of each id that stays, when one is taken out.
LEMMA WithoutPlaces ==
  ASSUME NEW S, NEW s \in Seq(S), NEW e, In(s, e)
  PROVE  \E k \in DOMAIN s :
           /\ s[k] = e
           /\ DOMAIN Without(s, e) = 1..(Len(s) - 1)
           /\ \A i \in 1..(Len(s) - 1) :
                Without(s, e)[i] = IF i < k THEN s[i] ELSE s[i + 1]
  <1> DEFINE k == CHOOSE i \in DOMAIN s : s[i] = e
             r == [i \in 1..(Len(s) - 1) |-> IF i < k THEN s[i] ELSE s[i + 1]]
  <1>1. Without(s, e) = r
    BY DEF Without
  <1>2. k \in DOMAIN s /\ s[k] = e
    BY DEF In
  <1>3. /\ DOMAIN r = 1..(Len(s) - 1)
        /\ \A i \in 1..(Len(s) - 1) : r[i] = IF i < k THEN s[i] ELSE s[i + 1]
    OBVIOUS
  <1> HIDE DEF k, r
  <1> QED
    BY <1>1, <1>2, <1>3

\* Taking an id out keeps the others in their order.
LEMMA WithoutOrder ==
  ASSUME NEW S, NEW s \in Seq(S), NEW e, Distinct(s)
  PROVE  \A u, v : Before(Without(s, e), u, v)
                     <=> Before(s, u, v) /\ u # e /\ v # e
  <1>1. CASE ~In(s, e)
    BY <1>1 DEF Without, Before, In
  <1>2. CASE In(s, e)
    <2> DEFINE r == Without(s, e)
    <2>1. PICK k \in DOMAIN s :
            /\ s[k] = e
            /\ DOMAIN r = 1..(Len(s) - 1)
            /\ \A i \in 1..(Len(s) - 1) : r[i] = IF i < k THEN s[i] ELSE s[i + 1]
      BY <1>2, WithoutPlaces
    <2>2. Len(s) \in Nat /\ DOMAIN s = 1..Len(s)
      OBVIOUS
    <2> HIDE DEF r
    <2>3. ASSUME NEW u, NEW v, Before(r, u, v)
          PROVE  Before(s, u, v) /\ u # e /\ v # e
      <3>1. PICK i, j \in DOMAIN r : i <= j /\ r[i] = u /\ r[j] = v
        BY <2>3 DEF Before
      <3> DEFINE m == IF i < k THEN i ELSE i + 1
                 n == IF j < k THEN j ELSE j + 1
      <3>2. /\ m \in DOMAIN s /\ n \in DOMAIN s /\ m # k /\ n # k /\ m <= n
            /\ s[m] = u /\ s[n] = v
        BY <2>1, <2>2, <3>1
      <3> HIDE DEF m, n
      <3> QED
        BY <2>1, <3>2 DEF Before, Distinct
    <2>4. ASSUME NEW u, NEW v, Before(s, u, v), u # e, v # e
          PROVE  Before(r, u, v)
      <3>1. PICK i, j \in DOMAIN s : i <= j /\ s[i] = u /\ s[j] = v
        BY <2>4 DEF Before
      <3>2. i # k /\ j # k
        BY <2>1, <2>4, <3>1
      <3> DEFINE m == IF i < k THEN i ELSE i - 1
                 n == IF j < k THEN j ELSE j - 1
      <3>3. /\ m \in DOMAIN r /\ n \in DOMAIN r /\ m <= n
            /\ r[m] = u /\ r[n] = v
        BY <2>1, <2>2, <3>1, <3>2
      <3> HIDE DEF m, n
      <3> QED
        BY <3>3 DEF Before
    <2> QED
      BY <2>3, <2>4 DEF r
  <1> QED
    BY <1>1, <1>2

\* An id that is put at the end is above the others, which keep their order.
LEMMA AppendOrder ==
  ASSUME NEW S, NEW s \in Seq(S), NEW e \in S
  PROVE  \A u, v : Before(Append(s, e), u, v)
                     <=> Before(s, u, v) \/ (v = e /\ (In(s, u) \/ u = e))
  <1> DEFINE r == Append(s, e)
  <1>1. /\ DOMAIN r = 1..(Len(s) + 1) /\ DOMAIN s = 1..Len(s) /\ Len(s) \in Nat
        /\ r[Len(s) + 1] = e /\ \A i \in DOMAIN s : r[i] = s[i]
    OBVIOUS
  <1> HIDE DEF r
  <1>2. ASSUME NEW u, NEW v, Before(r, u, v)
        PROVE  Before(s, u, v) \/ (v = e /\ (In(s, u) \/ u = e))
    <2>1. PICK i, j \in DOMAIN r : i <= j /\ r[i] = u /\ r[j] = v
      BY <1>2 DEF Before
    <2>2. CASE j \in DOMAIN s
      BY <1>1, <2>1, <2>2 DEF Before
    <2>3. CASE j \notin DOMAIN s
      <3>1. v = e
        BY <1>1, <2>1, <2>3
      <3>2. i \in DOMAIN s \/ i = Len(s) + 1
        BY <1>1
      <3> QED
        BY <1>1, <2>1, <3>1, <3>2 DEF In
    <2> QED
      BY <2>2, <2>3
  <1>3. ASSUME NEW u, NEW v, Before(s, u, v) PROVE Before(r, u, v)
    <2>1. PICK i, j \in DOMAIN s : i <= j /\ s[i] = u /\ s[j] = v
      BY <1>3 DEF Before
    <2>2. i \in DOMAIN r /\ j \in DOMAIN r /\ r[i] = u /\ r[j] = v
      BY <1>1, <2>1
    <2> QED
      BY <2>1, <2>2 DEF Before
  <1>4. ASSUME NEW u, In(s, u) \/ u = e PROVE Before(r, u, e)
    <2>1. PICK i \in DOMAIN r : r[i] = u
      BY <1>1, <1>4 DEF In
    <2>2. i <= Len(s) + 1 /\ Len(s) + 1 \in DOMAIN r
      BY <1>1, <2>1
    <2> QED
      BY <1>1, <2>1, <2>2 DEF Before
  <1> QED
    BY <1>2, <1>3, <1>4 DEF r

\* Of two ids in a sequence one is above the other, and only one.
LEMMA TotalOrder ==
  ASSUME NEW S, NEW s \in Seq(S)
  PROVE  /\ \A u, v : Before(s, u, v) => In(s, u) /\ In(s, v)
         /\ \A u, v : In(s, u) /\ In(s, v) => Before(s, u, v) \/ Before(s, v, u)
         /\ \A u : In(s, u) => Before(s, u, u)
         /\ Distinct(s) => \A u, v : Before(s, u, v) /\ Before(s, v, u) => u = v
  <1>1. DOMAIN s \subseteq Nat
    OBVIOUS
  <1>2. \A u, v : Before(s, u, v) => In(s, u) /\ In(s, v)
    BY DEF Before, In
  <1>3. ASSUME NEW u, NEW v, In(s, u), In(s, v)
        PROVE  Before(s, u, v) \/ Before(s, v, u)
    <2>1. PICK i \in DOMAIN s : s[i] = u
      BY <1>3 DEF In
    <2>2. PICK j \in DOMAIN s : s[j] = v
      BY <1>3 DEF In
    <2>3. i <= j \/ j <= i
      BY <1>1
    <2> QED
      BY <2>1, <2>2, <2>3 DEF Before
  <1>4. ASSUME Distinct(s), NEW u, NEW v, Before(s, u, v), Before(s, v, u)
        PROVE  u = v
    <2>1. PICK i, j \in DOMAIN s : i <= j /\ s[i] = u /\ s[j] = v
      BY <1>4 DEF Before
    <2>2. PICK m, n \in DOMAIN s : m <= n /\ s[m] = v /\ s[n] = u
      BY <1>4 DEF Before
    <2>3. i = n /\ j = m
      BY <1>4, <2>1, <2>2 DEF Distinct
    <2>4. i = j
      BY <1>1, <2>1, <2>2, <2>3
    <2> QED
      BY <2>1, <2>4
  <1> QED
    BY <1>2, <1>3, <1>4

\* What is behind a block that runs keeps its order.
LEMMA OrderBehind ==
  ASSUME NEW q \in Seq(Blocks), q # <<>>, NEW u, NEW w, NEW p,
         CreatedInOrder(q, u, w, p), Head(q) # Creation(u, p)
  PROVE  CreatedInOrder(Tail(q), u, w, p)
  <1>1. PICK i, j \in DOMAIN q :
          i <= j /\ q[i] = Creation(u, p) /\ q[j] = Creation(w, p)
    BY DEF CreatedInOrder
  <1>2. i # 1 /\ DOMAIN q = 1..Len(q) /\ Len(q) \in Nat
    BY <1>1, BehindHead
  <1>3. /\ i - 1 \in DOMAIN Tail(q) /\ Tail(q)[i - 1] = q[i]
        /\ j - 1 \in DOMAIN Tail(q) /\ Tail(q)[j - 1] = q[j] /\ i - 1 <= j - 1
    BY <1>1, <1>2
  <1> QED
    BY <1>1, <1>3 DEF CreatedInOrder

\* So does what is in front of a block that is queued.
LEMMA OrderInFront ==
  ASSUME NEW q \in Seq(Blocks), NEW b \in Blocks, NEW u, NEW w, NEW p,
         CreatedInOrder(q, u, w, p)
  PROVE  CreatedInOrder(Append(q, b), u, w, p)
  BY AtTheEnd DEF CreatedInOrder

\* A view that is queued last is created last.
LEMMA OrderOfLast ==
  ASSUME NEW q \in Seq(Blocks), NEW u, NEW w, NEW p, Creation(w, p) \in Blocks,
         Queued(q, u, p) \/ u = w
  PROVE  CreatedInOrder(Append(q, Creation(w, p)), u, w, p)
  <1> DEFINE b == Creation(w, p)
             r == Append(q, b)
  <1>1. /\ DOMAIN r = 1..(Len(q) + 1) /\ DOMAIN q = 1..Len(q) /\ Len(q) \in Nat
        /\ r[Len(q) + 1] = b /\ \A i \in DOMAIN q : r[i] = q[i]
    OBVIOUS
  <1> HIDE DEF r
  <1>2. PICK i \in DOMAIN r : r[i] = Creation(u, p)
    BY <1>1 DEF Queued
  <1>3. i <= Len(q) + 1 /\ Len(q) + 1 \in DOMAIN r
    BY <1>1
  <1> QED
    BY <1>1, <1>2, <1>3 DEF CreatedInOrder, r

\* A block leaves the queue, and no stack takes anything in.
LEMMA PopOrder ==
  ASSUME TypeOK, Tables, CreationOrder, NEW kind, Runs(kind),
         mainQueue' = Tail(mainQueue),
         \A p \in Panes, u, w \in WebViews :
           Before(paneStacks'[p], u, w) => Before(paneStacks[p], u, w)
  PROVE  CreationOrder'
  <1>1. mainQueue \in Seq(Blocks) /\ mainQueue # <<>> /\ Once(mainQueue)
    BY DEF TypeOK, Tables, Runs
  <1>2. ASSUME NEW p \in Panes, NEW u \in WebViews, Queued(mainQueue', u, p)
        PROVE  Queued(mainQueue, u, p) /\ Head(mainQueue) # Creation(u, p)
    <2>1. CASE Head(mainQueue).kind = "create"
      BY <1>1, <1>2, <2>1, CreatePop DEF Creation
    <2>2. CASE Head(mainQueue).kind # "create"
      BY <1>1, <1>2, <2>2, OtherPop DEF Creation
    <2> QED
      BY <2>1, <2>2
  <1>3. ASSUME NEW p \in Panes, NEW u \in WebViews, NEW w \in WebViews,
               Before(paneStacks'[p], u, w), Queued(mainQueue', u, p)
        PROVE  CreatedInOrder(mainQueue', u, w, p)
    BY <1>1, <1>2, <1>3, OrderBehind DEF CreationOrder
  <1> QED
    BY <1>3 DEF CreationOrder

\* A block leaves the queue, and only a view that waited for it is created.
LEMMA PopLeaving ==
  ASSUME TypeOK, Tables, Leaving, NEW kind, Runs(kind),
         mainQueue' = Tail(mainQueue), used' = used,
         \A v \in containers' \ containers :
           \E p \in Panes : Queued(mainQueue, v, p)
  PROVE  Leaving'
  <1>1. mainQueue \in Seq(Blocks) /\ mainQueue # <<>>
    BY DEF TypeOK, Runs
  <1>2. \A v, p : Queued(mainQueue', v, p) => Queued(mainQueue, v, p)
    BY <1>1, BehindHead DEF Queued
  <1>3. ASSUME NEW i \in DOMAIN mainQueue', mainQueue'[i].kind = "remove"
        PROVE  /\ mainQueue'[i].view \in used' \ containers'
               /\ \A p \in Panes : ~Queued(mainQueue', mainQueue'[i].view, p)
    <2>1. i + 1 \in DOMAIN mainQueue /\ mainQueue'[i] = mainQueue[i + 1]
      BY <1>1, <1>3, BehindHead
    <2>2. Removal(i + 1)
      BY <1>3, <2>1 DEF Removal
    <2> QED
      BY <1>2, <2>1, <2>2 DEF Leaving
  <1> QED
    BY <1>3 DEF Leaving, Removal

\* A block that is neither a creation nor a removal comes in.
LEMMA PushOther ==
  ASSUME TypeOK, Tables, CreationOrder, Leaving,
         NEW b \in Blocks, b.kind \notin {"create", "remove"},
         mainQueue' = Append(mainQueue, b),
         UNCHANGED <<paneStacks, used, containers>>
  PROVE  CreationOrder' /\ Leaving'
  <1>1. mainQueue \in Seq(Blocks) /\ Once(mainQueue)
    BY DEF TypeOK, Tables
  <1>2. \A v, p : Queued(mainQueue', v, p) <=> Queued(mainQueue, v, p)
    BY <1>1, OtherPush
  <1>3. CreationOrder'
    BY <1>1, <1>2, OrderInFront DEF CreationOrder
  <1>4. ASSUME NEW i \in DOMAIN mainQueue', mainQueue'[i].kind = "remove"
        PROVE  /\ mainQueue'[i].view \in used' \ containers'
               /\ \A p \in Panes : ~Queued(mainQueue', mainQueue'[i].view, p)
    <2>1. i \in DOMAIN mainQueue /\ mainQueue'[i] = mainQueue[i]
      BY <1>1, <1>4, AtTheEnd
    <2> QED
      BY <1>2, <1>4, <2>1 DEF Leaving, Removal
  <1> QED
    BY <1>3, <1>4 DEF Leaving, Removal

\* The screen changes with the tables, the surfaces and the subviews only.
LEMMA QuietScreen ==
  ASSUME Shown, OnScreen, StackMatchesViews, NothingUnborn,
         UNCHANGED <<surface, containers, webviewToPaneId, paneStacks, subviews, used>>,
         \A v \in WebViews, p \in Panes :
           Queued(mainQueue', v, p) => Queued(mainQueue, v, p)
  PROVE  Shown' /\ OnScreen' /\ StackMatchesViews' /\ NothingUnborn'
  BY DEF Shown, OnScreen, StackMatchesViews, NothingUnborn

\* A block runs that changes neither.
LEMMA PopLayout ==
  ASSUME TypeOK, Tables, Layout, NEW kind, Runs(kind), mainQueue' = Tail(mainQueue),
         UNCHANGED <<surface, containers, webviewToPaneId, paneStacks, subviews, used>>
  PROVE  Layout'
  <1>1. mainQueue \in Seq(Blocks) /\ mainQueue # <<>>
    BY DEF TypeOK, Runs
  <1>2. \A v, p : Queued(mainQueue', v, p) => Queued(mainQueue, v, p)
    BY <1>1, BehindHead DEF Queued
  <1> QED
    BY <1>2, QuietScreen, PopOrder, PopLeaving DEF Layout

\* A request or the end of a connection is queued.
LEMMA PushLayout ==
  ASSUME TypeOK, Tables, Layout, NEW b \in Blocks, b.kind \notin {"create", "remove"},
         mainQueue' = Append(mainQueue, b),
         UNCHANGED <<surface, containers, webviewToPaneId, paneStacks, subviews, used>>
  PROVE  Layout'
  <1>1. \A v, p : Queued(mainQueue', v, p) <=> Queued(mainQueue, v, p)
    BY OtherPush DEF TypeOK, Tables
  <1> QED
    BY <1>1, QuietScreen, PushOther DEF Layout

\* Nothing of it changes.
LEMMA QuietLayout ==
  ASSUME Layout, UNCHANGED <<surface, containers, webviewToPaneId, paneStacks,
                             subviews, used, mainQueue>>
  PROVE  Layout'
  BY DEF Layout, Shown, OnScreen, StackMatchesViews, CreationOrder, Leaving,
         NothingUnborn, Removal

\* open: the new view is on top of the stack, and is created last.
LEMMA OpenLayout == ASSUME TypeOK, Tables, Layout, HandleOpen PROVE Layout'
  <1> DEFINE r == Request.pane
             q == Tail(mainQueue)
  <1>1. PICK w \in WebViews \ used :
          /\ used' = used \cup {w}
          /\ paneStacks' = [paneStacks EXCEPT ![r] = Append(@, w)]
          /\ mainQueue' = Append(q, Creation(w, r))
    BY DEF HandleOpen, Creation
  <1>2. r \in Panes /\ q \in Seq(Blocks) /\ mainQueue # <<>> /\ surface[r] = "alive"
        /\ mainQueue \in Seq(Blocks) /\ Head(mainQueue).kind # "create"
    BY NextBlock, BlockTypes DEF HandleOpen, Request, Runs, TypeOK
  <1>3. UNCHANGED <<surface, containers, webviewToPaneId, subviews>>
    BY DEF HandleOpen, views
  <1>4. Once(q) /\ \A v, p : Queued(q, v, p) <=> Queued(mainQueue, v, p)
    BY <1>2, OtherPop DEF Tables
  <1>5. Runs("handle")
    BY DEF HandleOpen
  <1> HIDE DEF r, q
  <1>6. \A p \in Panes : ~Queued(q, w, p)
    BY <1>1, <1>4 DEF Tables
  <1>7. /\ Once(mainQueue')
        /\ \A v, p : Queued(mainQueue', v, p)
                        <=> Queued(mainQueue, v, p) \/ (v = w /\ p = r)
    BY <1>1, <1>2, <1>4, <1>6, CreatePush
  <1>8. w \notin containers /\ \A p \in Panes : ~In(subviews[p], w)
    BY <1>1 DEF Tables, Layout, Shown
  <1>9. \A p \in Panes : p # r => paneStacks'[p] = paneStacks[p]
    BY <1>1, <1>2 DEF TypeOK
  <1>10. /\ paneStacks[r] \in Seq(WebViews)
         /\ \A u, v : Before(paneStacks'[r], u, v)
              <=> Before(paneStacks[r], u, v) \/ (v = w /\ (In(paneStacks[r], u) \/ u = w))
    BY <1>1, <1>2, AppendOrder DEF TypeOK
  <1>11. Shown' /\ OnScreen'
    BY <1>1, <1>3, <1>7, <1>8 DEF Layout, Shown, OnScreen
  <1>12. StackMatchesViews'
    <2>1. ASSUME NEW p \in Panes, NEW u \in containers, NEW v \in containers
          PROVE  Before(paneStacks'[p], u, v) <=> Before(paneStacks[p], u, v)
      BY <1>8, <1>9, <1>10
    <2> QED
      BY <1>3, <2>1 DEF Layout, StackMatchesViews
  <1>13. NothingUnborn'
    <2>1. \A p \in Panes, v \in WebViews :
            surface[p] = "unborn" => ~In(paneStacks'[p], v)
      BY <1>2, <1>9 DEF Layout, NothingUnborn
    <2> QED
      BY <1>3, <2>1 DEF NothingUnborn
  <1>14. CreationOrder'
    <2> SUFFICES ASSUME NEW p \in Panes, NEW u \in WebViews, NEW v \in WebViews,
                        Before(paneStacks'[p], u, v), Queued(mainQueue', u, p)
                 PROVE  CreatedInOrder(mainQueue', u, v, p)
      BY DEF CreationOrder
    <2>1. Creation(w, r) \in Blocks
      BY <1>1, <1>2 DEF Creation, Blocks
    <2>2. CASE p = r /\ v = w
      BY <1>1, <1>2, <1>4, <1>7, <2>1, <2>2, OrderOfLast DEF q
    <2>3. CASE ~(p = r /\ v = w)
      <3>1. Before(paneStacks[p], u, v)
        BY <1>9, <1>10, <2>3
      <3>2. u # w \/ p # r
        <4>1. Before(paneStacks[p], u, v) => In(paneStacks[p], u)
          BY TotalOrder DEF TypeOK
        <4> QED
          BY <1>1, <1>4, <1>6, <1>8, <3>1, <4>1, NamesAssumption DEF Tables
      <3>3. Queued(mainQueue, u, p)
        BY <1>7, <3>2
      <3>4. CreatedInOrder(mainQueue, u, v, p)
        BY <3>1, <3>3 DEF Layout, CreationOrder
      <3>5. Head(mainQueue) # Creation(u, p)
        BY <1>2 DEF Creation
      <3> QED
        BY <1>1, <1>2, <2>1, <3>4, <3>5, OrderBehind, OrderInFront DEF q
    <2> QED
      BY <2>2, <2>3
  <1>15. Leaving'
    <2> SUFFICES ASSUME NEW i \in DOMAIN mainQueue', mainQueue'[i].kind = "remove"
                 PROVE  /\ mainQueue'[i].view \in used' \ containers'
                        /\ \A p \in Panes : ~Queued(mainQueue', mainQueue'[i].view, p)
      BY DEF Leaving, Removal
    <2>1. i \in DOMAIN q /\ mainQueue'[i] = q[i]
      BY <1>1, <1>2, AtTheEnd DEF Creation, Blocks
    <2>2. i + 1 \in DOMAIN mainQueue /\ mainQueue'[i] = mainQueue[i + 1]
      BY <1>2, <2>1, BehindHead DEF q
    <2>3. /\ mainQueue'[i].view \in used \ containers
          /\ \A p \in Panes : ~Queued(mainQueue, mainQueue'[i].view, p)
      BY <2>2 DEF Layout, Leaving, Removal
    <2> QED
      BY <1>1, <1>3, <1>7, <2>3
  <1> QED
    BY <1>11, <1>12, <1>13, <1>14, <1>15 DEF Layout

\* The view is created: on top of the pane, as it is on top of what the stack
\* has of views that were created.
LEMMA CreateLayout == ASSUME TypeOK, Tables, Layout, Create PROVE Layout'
  <1> DEFINE w == Head(mainQueue).view
             r == Head(mainQueue).pane
  <1>1. /\ w \in WebViews /\ r \in Panes
        /\ mainQueue # <<>> /\ mainQueue \in Seq(Blocks)
        /\ Head(mainQueue).kind = "create" /\ Runs("create")
    BY NextBlock, BlockTypes DEF Create, Runs, TypeOK
  <1>2. /\ containers' = containers \cup {w}
        /\ webviewToPaneId' = [webviewToPaneId EXCEPT ![w] = r]
        /\ subviews' = [subviews EXCEPT ![r] = Append(@, w)]
        /\ mainQueue' = Tail(mainQueue) /\ surface[r] = "alive"
        /\ UNCHANGED <<surface, paneStacks, used>>
    BY DEF Create
  <1>3. /\ Queued(mainQueue, w, r) /\ Head(mainQueue) = Creation(w, r)
        /\ \A v, p : Queued(mainQueue', v, p) => Queued(mainQueue, v, p) /\ v # w
    BY <1>1, <1>2, CreatePop, CreateBlock, BehindHead DEF Tables
  <1> HIDE DEF w, r
  <1>4. w \in used /\ webviewToPaneId[w] = NoPane /\ In(paneStacks[r], w)
        /\ w \notin containers
    BY <1>1, <1>3 DEF Tables
  <1>5. /\ webviewToPaneId'[w] = r
        /\ \A v \in WebViews : v # w => webviewToPaneId'[v] = webviewToPaneId[v]
    BY <1>1, <1>2 DEF TypeOK
  <1>6. \A p \in Panes : ~In(subviews[p], w)
    BY <1>1, <1>3 DEF Layout, Shown
  <1>7. /\ \A p \in Panes : p # r => subviews'[p] = subviews[p]
        /\ Distinct(subviews'[r])
        /\ \A v : In(subviews'[r], v) <=> In(subviews[r], v) \/ v = w
        /\ \A u, v : Before(subviews'[r], u, v)
             <=> Before(subviews[r], u, v) \/ (v = w /\ (In(subviews[r], u) \/ u = w))
    <2>1. subviews[r] \in Seq(WebViews) /\ Distinct(subviews[r]) /\ ~In(subviews[r], w)
      BY <1>1, <1>6 DEF TypeOK, Layout, Shown
    <2>2. subviews'[r] = Append(subviews[r], w)
      BY <1>1, <1>2 DEF TypeOK
    <2>3. \A p \in Panes : p # r => subviews'[p] = subviews[p]
      BY <1>1, <1>2 DEF TypeOK
    <2> QED
      BY <1>1, <2>1, <2>2, <2>3, AppendTakesIn, AppendOrder
  <1>8. Shown'
    <2> SUFFICES ASSUME NEW p \in Panes
                 PROVE  /\ Distinct(subviews'[p])
                        /\ \A v \in WebViews : In(subviews'[p], v) =>
                             /\ v \in used' /\ surface'[p] = "alive"
                             /\ webviewToPaneId'[v] \in {p, NoPane}
                             /\ \A d \in Panes : ~Queued(mainQueue', v, d)
      BY DEF Shown
    <2>1. CASE p = r
      BY <1>2, <1>3, <1>4, <1>5, <1>7, <2>1 DEF Layout, Shown
    <2>2. CASE p # r
      BY <1>2, <1>3, <1>5, <1>6, <1>7, <2>2 DEF Layout, Shown
    <2> QED
      BY <2>1, <2>2
  <1>9. OnScreen'
    BY <1>1, <1>2, <1>4, <1>5, <1>7, NamesAssumption DEF Layout, OnScreen, TypeOK
  <1>10. NothingUnborn'
    BY <1>2 DEF Layout, NothingUnborn
  <1>11. CreationOrder'
    BY <1>1, <1>2, PopOrder DEF Layout
  <1>12. Leaving'
    BY <1>1, <1>2, <1>3, PopLeaving DEF Layout
  <1>13. StackMatchesViews'
    <2> SUFFICES ASSUME NEW p \in Panes, surface[p] = "alive"
                 PROVE  /\ Distinct(subviews'[p])
                        /\ \A u, v \in containers' :
                             Before(subviews'[p], u, v) <=> Before(paneStacks[p], u, v)
      BY <1>2 DEF StackMatchesViews
    <2>1. /\ paneStacks[p] \in Seq(WebViews) /\ Distinct(paneStacks[p])
          /\ subviews[p] \in Seq(WebViews) /\ Distinct(subviews[p])
      BY DEF TypeOK, Tables, Layout, Shown
    <2>2. \A u, v \in containers :
            Before(subviews[p], u, v) <=> Before(paneStacks[p], u, v)
      BY DEF Layout, StackMatchesViews
    <2>3. \A v \in containers : v # w /\ v \in WebViews
      BY <1>4 DEF TypeOK
    <2>4. CASE p # r
      <3>1. ~In(paneStacks[p], w)
        <4>1. webviewToPaneId[w] # p
          BY <1>4, NamesAssumption
        <4>2. ~Queued(mainQueue, w, p)
          <5>1. Queued(mainQueue, w, p) => \E k \in DOMAIN mainQueue :
                  mainQueue[k] = Creation(w, p)
            BY DEF Queued
          <5>2. \A k \in DOMAIN mainQueue : mainQueue[k] = Creation(w, p) => k = 1
            BY <1>1, <1>3, BehindHead DEF Tables, Once, Creation
          <5>3. Creation(w, r) # Creation(w, p)
            BY <2>4 DEF Creation
          <5> QED
            BY <1>1, <1>3, <5>1, <5>2, <5>3, BehindHead
        <4> QED
          BY <1>1, <4>1, <4>2 DEF Tables
      <3>2. \A v : /\ ~Before(subviews[p], w, v) /\ ~Before(subviews[p], v, w)
                   /\ ~Before(paneStacks[p], w, v) /\ ~Before(paneStacks[p], v, w)
        BY <1>6, <2>1, <3>1, TotalOrder
      <3> QED
        BY <1>2, <1>7, <2>1, <2>2, <2>4, <3>2
    <2>5. CASE p = r
      <3>1. \A v \in containers : ~Before(paneStacks[r], w, v)
        <4> SUFFICES ASSUME NEW v \in containers, Before(paneStacks[r], w, v)
                     PROVE  FALSE
          OBVIOUS
        <4>1. CreatedInOrder(mainQueue, w, v, r)
          BY <1>1, <1>3, <2>3 DEF Layout, CreationOrder
        <4>2. Queued(mainQueue, v, r)
          BY <4>1 DEF CreatedInOrder, Queued
        <4> QED
          BY <1>1, <2>3, <4>2 DEF Tables
      <3>2. \A u \in containers : Before(paneStacks[r], u, w) <=> In(paneStacks[r], u)
        BY <1>4, <2>1, <2>5, <3>1, TotalOrder
      <3>3. \A u \in containers : In(subviews[r], u) <=> In(paneStacks[r], u)
        BY <2>1, <2>2, <2>5, TotalOrder
      <3>4. \A v : ~Before(subviews[r], v, w) /\ ~Before(subviews[r], w, v)
        BY <1>1, <1>6, <2>1, <2>5, TotalOrder
      <3>5. Before(paneStacks[r], w, w)
        BY <1>4, <2>1, <2>5, TotalOrder
      <3> QED
        BY <1>2, <1>7, <2>2, <2>3, <2>5, <3>1, <3>2, <3>3, <3>4, <3>5
    <2> QED
      BY <2>4, <2>5
  <1> QED
    BY <1>8, <1>9, <1>10, <1>11, <1>12, <1>13 DEF Layout

\* The surface is gone: the place in the stack goes with the block.
LEMMA CreateFailsLayout == ASSUME TypeOK, Tables, Layout, CreateFails PROVE Layout'
  <1> DEFINE w == Head(mainQueue).view
             r == Head(mainQueue).pane
  <1>1. /\ w \in WebViews /\ r \in Panes
        /\ mainQueue # <<>> /\ mainQueue \in Seq(Blocks) /\ Runs("create")
    BY NextBlock, BlockTypes DEF CreateFails, Runs, TypeOK
  <1>2. /\ paneStacks' = [paneStacks EXCEPT ![r] = Without(@, w)]
        /\ mainQueue' = Tail(mainQueue) /\ surface[r] # "alive"
        /\ UNCHANGED <<surface, containers, webviewToPaneId, subviews, used>>
    BY DEF CreateFails, views
  <1> HIDE DEF w, r
  <1>3. /\ \A p \in Panes : p # r => paneStacks'[p] = paneStacks[p]
        /\ \A v : In(paneStacks'[r], v) => In(paneStacks[r], v)
        /\ \A u, v : Before(paneStacks'[r], u, v) => Before(paneStacks[r], u, v)
    <2>1. paneStacks[r] \in Seq(WebViews) /\ Distinct(paneStacks[r])
      BY <1>1 DEF Tables, TypeOK
    <2>2. /\ paneStacks'[r] = Without(paneStacks[r], w)
          /\ \A p \in Panes : p # r => paneStacks'[p] = paneStacks[p]
      BY <1>1, <1>2 DEF TypeOK
    <2> QED
      BY <2>1, <2>2, WithoutOrder, WithoutKeeps
  <1>4. \A v, p : Queued(mainQueue', v, p) => Queued(mainQueue, v, p)
    BY <1>1, <1>2, BehindHead DEF Queued
  <1>5. Shown' /\ OnScreen' /\ NothingUnborn'
    BY <1>2, <1>3, <1>4 DEF Layout, Shown, OnScreen, NothingUnborn
  <1>6. StackMatchesViews'
    <2>1. \A p \in Panes : surface'[p] = "alive" => paneStacks'[p] = paneStacks[p]
      BY <1>2, <1>3
    <2> QED
      BY <1>2, <2>1 DEF Layout, StackMatchesViews
  <1>7. CreationOrder'
    BY <1>1, <1>2, <1>3, PopOrder DEF Layout
  <1>8. Leaving'
    BY <1>1, <1>2, PopLeaving DEF Layout
  <1> QED
    BY <1>5, <1>6, <1>7, <1>8 DEF Layout

\* A close: the view leaves the stack now and the screen later.
LEMMA CloseLayout ==
  ASSUME TypeOK, Tables, Layout, NEW w \in WebViews, NEW code \in ExitCodes,
         CloseWebView(w, code)
  PROVE  Layout'
  <1> DEFINE r == webviewToPaneId[w]
             rest == IF r = NoPane THEN <<>> ELSE Without(paneStacks[r], w)
  <1>1. /\ containers' = containers \ {w}
        /\ webviewToPaneId' = [webviewToPaneId EXCEPT ![w] = NoPane]
        /\ paneStacks' = IF r = NoPane THEN paneStacks
                         ELSE [paneStacks EXCEPT ![r] = rest]
        /\ UNCHANGED <<surface, subviews, used>>
    BY DEF CloseWebView, views
  <1>2. r \in Panes \cup {NoPane}
    BY DEF TypeOK
  <1>3. CASE r = NoPane
    <2>1. w \notin containers
      BY <1>3 DEF Tables
    <2>2. UNCHANGED <<containers, webviewToPaneId, paneStacks>>
      BY <1>1, <1>3, <2>1 DEF TypeOK
    <2>3. mainQueue' = mainQueue
      BY <2>1 DEF CloseWebView
    <2> QED
      BY <1>1, <2>2, <2>3, QuietLayout
  <1>4. CASE r # NoPane
    <2>1. r \in Panes /\ w \in containers /\ w \in used
      BY <1>2, <1>4 DEF Tables
    <2>2. paneStacks[r] \in Seq(WebViews) /\ Distinct(paneStacks[r])
      BY <2>1 DEF Tables, TypeOK
    <2>3. /\ paneStacks'[r] = Without(paneStacks[r], w)
          /\ \A p \in Panes : p # r => paneStacks'[p] = paneStacks[p]
      BY <1>1, <1>4, <2>1 DEF TypeOK
    <2>4. /\ \A v : In(paneStacks'[r], v) => In(paneStacks[r], v)
          /\ \A u, v : Before(paneStacks'[r], u, v)
               <=> Before(paneStacks[r], u, v) /\ u # w /\ v # w
      BY <2>2, <2>3, WithoutKeeps, WithoutOrder
    <2>5. PICK b \in Blocks : /\ b.kind = "remove" /\ b.view = w
                              /\ mainQueue' = Append(mainQueue, b)
      <3>1. rest \in Seq(WebViews)
        BY <1>4, <2>2, WithoutKeeps
      <3>2. QueueRemoval(w, r, rest)
        BY <2>1 DEF CloseWebView
      <3> HIDE DEF r, rest
      <3> QED
        BY <1>2, <3>1, <3>2, RemovalTypes
    <2>6. mainQueue \in Seq(Blocks) /\ Once(mainQueue)
      BY DEF TypeOK, Tables
    <2>7. \A v, p : Queued(mainQueue', v, p) <=> Queued(mainQueue, v, p)
      BY <2>5, <2>6, OtherPush
    <2>8. /\ webviewToPaneId'[w] = NoPane
          /\ \A v \in WebViews : v # w => webviewToPaneId'[v] = webviewToPaneId[v]
      BY <1>1 DEF TypeOK
    <2>9. \A p \in Panes : ~Queued(mainQueue, w, p)
      BY <1>4 DEF Tables
    <2> HIDE DEF r, rest
    <2>10. Shown'
      BY <1>1, <2>7, <2>8 DEF Layout, Shown
    <2>11. OnScreen' /\ NothingUnborn'
      BY <1>1, <2>3, <2>4, <2>8 DEF Layout, OnScreen, NothingUnborn, TypeOK
    <2>12. StackMatchesViews'
      <3>1. ASSUME NEW p \in Panes, NEW u \in containers', NEW v \in containers'
            PROVE  Before(paneStacks'[p], u, v) <=> Before(paneStacks[p], u, v)
        BY <1>1, <2>3, <2>4
      <3> QED
        BY <1>1, <3>1 DEF Layout, StackMatchesViews
    <2>13. CreationOrder'
      <3>1. ASSUME NEW p \in Panes, NEW u \in WebViews, NEW v \in WebViews,
                   Before(paneStacks'[p], u, v), Queued(mainQueue', u, p)
            PROVE  CreatedInOrder(mainQueue', u, v, p)
        <4>1. Before(paneStacks[p], u, v)
          BY <2>3, <2>4, <3>1
        <4>2. CreatedInOrder(mainQueue, u, v, p)
          BY <2>7, <3>1, <4>1 DEF Layout, CreationOrder
        <4> QED
          BY <2>5, <2>6, <4>2, OrderInFront
      <3> QED
        BY <3>1 DEF CreationOrder
    <2>14. Leaving'
      <3>1. ASSUME NEW i \in DOMAIN mainQueue', mainQueue'[i].kind = "remove"
            PROVE  /\ mainQueue'[i].view \in used' \ containers'
                   /\ \A p \in Panes : ~Queued(mainQueue', mainQueue'[i].view, p)
        <4>1. CASE i \in DOMAIN mainQueue /\ mainQueue'[i] = mainQueue[i]
          BY <1>1, <2>7, <3>1, <4>1 DEF Layout, Leaving, Removal
        <4>2. CASE mainQueue'[i] = b
          BY <1>1, <2>1, <2>5, <2>7, <2>9, <4>2
        <4> QED
          BY <2>5, <2>6, <4>1, <4>2, AtTheEnd
      <3> QED
        BY <3>1 DEF Leaving, Removal
    <2> QED
      BY <2>10, <2>11, <2>12, <2>13, <2>14 DEF Layout
  <1> QED
    BY <1>3, <1>4

\* The view is taken down, and is not one that has a container.
LEMMA RemoveLayout == ASSUME TypeOK, Tables, Layout, Remove PROVE Layout'
  <1> DEFINE w == Head(mainQueue).view
  <1>1. /\ mainQueue # <<>> /\ mainQueue \in Seq(Blocks) /\ Runs("remove")
        /\ Head(mainQueue).kind = "remove"
    BY DEF Remove, Runs, TypeOK
  <1>2. /\ subviews' = [p \in Panes |-> Without(subviews[p], w)]
        /\ mainQueue' = Tail(mainQueue)
        /\ UNCHANGED <<surface, containers, webviewToPaneId, paneStacks, used>>
    BY DEF Remove, tables
  <1>3. w \notin containers
    BY <1>1, BehindHead DEF Layout, Leaving, Removal
  <1> HIDE DEF w
  <1>4. ASSUME NEW p \in Panes
        PROVE  /\ Distinct(subviews'[p])
               /\ \A v : In(subviews'[p], v) => In(subviews[p], v)
               /\ \A v : v # w /\ In(subviews[p], v) => In(subviews'[p], v)
               /\ \A u, v : Before(subviews'[p], u, v)
                    <=> Before(subviews[p], u, v) /\ u # w /\ v # w
    <2>1. subviews[p] \in Seq(WebViews) /\ Distinct(subviews[p])
      BY DEF TypeOK, Layout, Shown
    <2>2. subviews'[p] = Without(subviews[p], w)
      BY <1>2
    <2> QED
      BY <2>1, <2>2, WithoutKeeps, WithoutTakesOut, WithoutOrder
  <1>5. \A v, p : Queued(mainQueue', v, p) => Queued(mainQueue, v, p)
    BY <1>1, <1>2, BehindHead DEF Queued
  <1>6. Shown'
    BY <1>2, <1>4, <1>5 DEF Layout, Shown
  <1>7. OnScreen' /\ NothingUnborn'
    BY <1>2, <1>3, <1>4 DEF Layout, OnScreen, NothingUnborn
  <1>8. StackMatchesViews'
    BY <1>2, <1>3, <1>4 DEF Layout, StackMatchesViews
  <1>9. CreationOrder'
    BY <1>1, <1>2, PopOrder DEF Layout
  <1>10. Leaving'
    BY <1>1, <1>2, PopLeaving DEF Layout
  <1> QED
    BY <1>6, <1>7, <1>8, <1>9, <1>10 DEF Layout

\* A pane opens with nothing in it.
LEMMA PaneOpensLayout ==
  ASSUME TypeOK, Tables, Layout, NEW r \in Panes, PaneOpens(r) PROVE Layout'
  <1>1. /\ surface[r] = "unborn" /\ surface' = [surface EXCEPT ![r] = "alive"]
        /\ UNCHANGED <<containers, webviewToPaneId, paneStacks, subviews, used, mainQueue>>
    BY DEF PaneOpens, tables
  <1>2. surface'[r] = "alive" /\ \A p \in Panes : p # r => surface'[p] = surface[p]
    BY <1>1 DEF TypeOK
  <1>3. \A v \in WebViews : ~In(paneStacks[r], v) /\ ~In(subviews[r], v)
    BY <1>1 DEF Layout, NothingUnborn, Shown
  <1>4. Shown' /\ NothingUnborn'
    BY <1>1, <1>2, <1>3 DEF Layout, Shown, NothingUnborn
  <1>5. OnScreen'
    BY <1>1, <1>2, <1>3 DEF Layout, OnScreen, Tables, TypeOK
  <1>6. StackMatchesViews'
    <2>1. ASSUME NEW u \in containers, NEW v \in containers
          PROVE  ~Before(paneStacks[r], u, v) /\ ~Before(subviews[r], u, v)
      <3>1. u \in WebViews /\ ~In(paneStacks[r], u) /\ ~In(subviews[r], u)
        BY <1>3 DEF TypeOK
      <3> QED
        BY <3>1 DEF Before, In
    <2>2. Distinct(subviews[r])
      BY DEF Layout, Shown
    <2> QED
      BY <1>1, <1>2, <2>1, <2>2 DEF Layout, StackMatchesViews
  <1>7. CreationOrder' /\ Leaving'
    BY <1>1 DEF Layout, CreationOrder, Leaving, Removal
  <1> QED
    BY <1>4, <1>5, <1>6, <1>7 DEF Layout

\* A pane dies and takes its subviews along.
LEMMA PaneDiesLayout ==
  ASSUME TypeOK, Tables, Layout, NEW r \in Panes, PaneDies(r) PROVE Layout'
  <1>1. /\ surface' = [surface EXCEPT ![r] = "dead"]
        /\ subviews' = [subviews EXCEPT ![r] = <<>>]
        /\ UNCHANGED <<containers, webviewToPaneId, paneStacks, used, mainQueue>>
    BY DEF PaneDies, tables
  <1>2. /\ surface'[r] = "dead" /\ subviews'[r] = <<>>
        /\ \A p \in Panes : p # r =>
             surface'[p] = surface[p] /\ subviews'[p] = subviews[p]
    BY <1>1 DEF TypeOK
  <1>3. Distinct(<<>>) /\ \A v : ~In(<<>>, v)
    BY DEF Distinct, In
  <1>4. Shown'
    <2>1. ASSUME NEW p \in Panes, NEW v \in WebViews, In(subviews'[p], v)
          PROVE  p # r /\ In(subviews[p], v)
      BY <1>2, <1>3, <2>1
    <2>2. \A p \in Panes : Distinct(subviews'[p])
      BY <1>2, <1>3 DEF Layout, Shown
    <2> QED
      BY <1>1, <1>2, <2>1, <2>2 DEF Layout, Shown
  <1>5. OnScreen' /\ StackMatchesViews' /\ NothingUnborn'
    BY <1>1, <1>2 DEF Layout, OnScreen, StackMatchesViews, NothingUnborn
  <1>6. CreationOrder' /\ Leaving'
    BY <1>1 DEF Layout, CreationOrder, Leaving, Removal
  <1> QED
    BY <1>4, <1>5, <1>6 DEF Layout

\* The screen and the stacks agree after every block and event.
THEOREM LayoutHolds == Spec => []Layout
  <1>1. Init => Layout
    <2>1. \A v : ~In(<<>>, v)
      BY DEF In
    <2>2. Init => Shown /\ OnScreen /\ NothingUnborn
      BY <2>1 DEF Init, Shown, OnScreen, NothingUnborn, Distinct
    <2>3. Init => StackMatchesViews /\ CreationOrder /\ Leaving
      BY DEF Init, StackMatchesViews, CreationOrder, Leaving, Before, Removal
    <2> QED
      BY <2>2, <2>3 DEF Layout
  <1>2. TypeOK /\ Tables /\ Layout /\ [Next]_vars => Layout'
    <2> SUFFICES ASSUME TypeOK, Tables, Layout, [Next]_vars
                 PROVE  Layout'
      OBVIOUS
    <2>1. CASE HandleOpenRefused \/ HandleAnswerOnly
      BY <2>1, PopLayout DEF HandleOpenRefused, HandleAnswerOnly, tables, views
    <2>2. CASE HandleSync
      BY <2>2, QuietLayout DEF HandleSync, tables, views
    <2>3. CASE Forget
      BY <2>3, PopLayout DEF Forget, tables, views
    <2>4. ASSUME NEW p \in Panes, UserCloses(p) PROVE Layout'
      <3>1. subviews[p] \in Seq(WebViews) /\ subviews[p] # <<>>
        BY <2>4 DEF UserCloses, TypeOK
      <3>2. Top(subviews[p]) \in WebViews
        BY <3>1 DEF Top
      <3> QED
        BY <2>4, <3>2, CloseLayout, NamesAssumption DEF UserCloses
    <2>5. ASSUME NEW v \in WebViews, NEW code \in ExitCodes, PageExits(v, code)
          PROVE  Layout'
      BY <2>5, CloseLayout DEF PageExits
    <2>6. ASSUME NEW v \in WebViews, NEW m \in Messages, PageLogs(v, m)
          PROVE  Layout'
      BY <2>6, QuietLayout DEF PageLogs, tables, views
    <2>7. ASSUME NEW c \in Conns, Hangup(c) PROVE Layout'
      <3>1. [kind |-> "forget", conn |-> c] \in Blocks
        BY DEF Blocks
      <3> QED
        BY <2>7, <3>1, PushLayout DEF Hangup, tables, views
    <2>8. ASSUME NEW c \in Conns, NEW q \in Requests, Receive(c, q) PROVE Layout'
      <3>1. [kind |-> "handle", conn |-> c, req |-> q] \in Blocks
        BY DEF Blocks
      <3> QED
        BY <2>8, <3>1, PushLayout DEF Receive, tables, views
    <2>9. CASE UNCHANGED vars
      BY <2>9, QuietLayout DEF vars
    <2> QED
      BY <2>1, <2>2, <2>3, <2>4, <2>5, <2>6, <2>7, <2>8, <2>9, OpenLayout,
         CreateLayout, CreateFailsLayout, RemoveLayout, PaneOpensLayout,
         PaneDiesLayout DEF Next, RunBlock, UserEvent
  <1> QED
    BY <1>1, <1>2, TypeCorrect, TablesHold, PTL DEF Spec

\* What a living pane shows, and in which order, is what the stack says.
THEOREM StackMatchesViewsHolds == Spec => []StackMatchesViews
  <1>1. Layout => StackMatchesViews
    BY DEF Layout
  <1> QED
    BY <1>1, LayoutHolds, PTL

-----------------------------------------------------------------------------
(* The labels.  Every change of the stack of a living pane queues a block  *)
(* for that pane, so the last one that waits has seen the stack as it is.  *)

\* A block that gives views of this pane their places.
Touches(b, p) == b.kind \in {"create", "remove"} /\ b.pane = p
NoneAfter(q, m, p) == \A i \in DOMAIN q : i > m => ~Touches(q[i], p)

\* The view shows its place.
Right(u, p) ==
  \E i \in DOMAIN paneStacks[p] :
    /\ paneStacks[p][i] = u
    /\ stackInfo[u] = [pos |-> i, total |-> Len(paneStacks[p])]

\* LabelsSettle, view by view.
Settled ==
  \A p \in Panes : surface[p] = "alive" /\ NoneAfter(mainQueue, 0, p) =>
    \A u \in WebViews : In(paneStacks[p], u) => Right(u, p)

\* If the last block of a pane is a removal it carries the stack as it is, and
\* the views it will not label are right or are created before.
LastRemoval ==
  \A p \in Panes : \A m \in DOMAIN mainQueue :
    Removal(m) /\ mainQueue[m].pane = p /\ NoneAfter(mainQueue, m, p) =>
      /\ mainQueue[m].rest = paneStacks[p]
      /\ \A u \in WebViews : In(paneStacks[p], u) =>
           u \in mainQueue[m].known \/ Queued(mainQueue, u, p) \/ Right(u, p)

\* A removal labels all that an earlier one labels, as far as it is still there.
LaterKnows ==
  \A j, m \in DOMAIN mainQueue : j < m /\ Removal(j) /\ Removal(m) =>
    \A p \in Panes : mainQueue[j].pane = p /\ mainQueue[m].pane = p =>
      \A u \in WebViews :
        u \in mainQueue[j].known /\ In(paneStacks[p], u) => u \in mainQueue[m].known

\* What a removal labels is a webview of its pane, or closed, or in a dead pane.
KnownThere ==
  \A m \in DOMAIN mainQueue : Removal(m) =>
    \A u \in WebViews : u \in mainQueue[m].known =>
      /\ u \in used
      /\ \A p \in Panes : ~Queued(mainQueue, u, p)
      /\ \A p \in Panes :
           webviewToPaneId[u] = p => mainQueue[m].pane = p \/ surface[p] = "dead"

\* A removal that waits holds its surface.
HoldsSurface ==
  \A m \in DOMAIN mainQueue : Removal(m) =>
    \A p \in Panes : mainQueue[m].pane = p => surface[p] = "alive"

\* What is inductive, given Tables and Layout.
Labels == Settled /\ LastRemoval /\ LaterKnows /\ KnownThere /\ HoldsSurface

\* The places behind the head.
LEMMA Shifted ==
  ASSUME NEW q \in Seq(Blocks), q # <<>>
  PROVE  \A i \in DOMAIN q : i # 1 => i - 1 \in DOMAIN Tail(q) /\ Tail(q)[i - 1] = q[i]
  OBVIOUS

\* No block of a pane behind a place, with the head gone.
LEMMA NoneBehind ==
  ASSUME NEW q \in Seq(Blocks), q # <<>>, NEW m \in Nat, NEW p,
         NoneAfter(Tail(q), m, p)
  PROVE  NoneAfter(q, m + 1, p)
  <1> SUFFICES ASSUME NEW i \in DOMAIN q, i > m + 1 PROVE ~Touches(q[i], p)
    BY DEF NoneAfter
  <1>1. i # 1 /\ i - 1 > m
    OBVIOUS
  <1>2. i - 1 \in DOMAIN Tail(q) /\ Tail(q)[i - 1] = q[i]
    BY <1>1, Shifted
  <1> QED
    BY <1>1, <1>2 DEF NoneAfter

\* None at all, if the head is none either.
LEMMA NoneAtAll ==
  ASSUME NEW q \in Seq(Blocks), q # <<>>, NEW p, NoneAfter(q, 1, p),
         ~Touches(Head(q), p)
  PROVE  NoneAfter(q, 0, p)
  <1> SUFFICES ASSUME NEW i \in DOMAIN q PROVE ~Touches(q[i], p)
    BY DEF NoneAfter
  <1>1. i = 1 \/ i > 1
    OBVIOUS
  <1> QED
    BY <1>1, BehindHead DEF NoneAfter

\* No block of a pane behind a place, before another one was queued.
LEMMA NoneBefore ==
  ASSUME NEW q \in Seq(Blocks), NEW b \in Blocks, NEW m \in Nat, m <= Len(q), NEW p,
         NoneAfter(Append(q, b), m, p)
  PROVE  NoneAfter(q, m, p) /\ ~Touches(b, p)
  <1>1. Len(q) + 1 > m
    OBVIOUS
  <1> QED
    BY <1>1, AtTheEnd DEF NoneAfter

\* A creation that is queued is a block of its pane.
LEMMA CreationTouches ==
  ASSUME NEW q \in Seq(Blocks), NEW u, NEW p, NoneAfter(q, 0, p)
  PROVE  ~Queued(q, u, p)
  <1> SUFFICES ASSUME NEW k \in DOMAIN q, q[k] = Creation(u, p) PROVE FALSE
    BY DEF Queued
  <1>1. k > 0
    OBVIOUS
  <1> QED
    BY <1>1 DEF NoneAfter, Touches, Creation

\* What the labels of the views are set to, and which stay.
LEMMA RelabelSets ==
  ASSUME NEW s \in Seq(WebViews), Distinct(s), NEW known, Relabel(s, known),
         NEW v \in WebViews
  PROVE  /\ v \in known => \A i \in DOMAIN s :
              s[i] = v => stackInfo'[v] = [pos |-> i, total |-> Len(s)]
         /\ v \notin known \/ ~In(s, v) => stackInfo'[v] = stackInfo[v]
  <1>1. stackInfo'[v] = IF v \in known /\ In(s, v)
                        THEN [pos |-> CHOOSE i \in DOMAIN s : s[i] = v, total |-> Len(s)]
                        ELSE stackInfo[v]
    BY DEF Relabel
  <1>2. ASSUME NEW i \in DOMAIN s, s[i] = v, v \in known
        PROVE  stackInfo'[v] = [pos |-> i, total |-> Len(s)]
    <2>1. In(s, v)
      BY <1>2 DEF In
    <2>2. (CHOOSE j \in DOMAIN s : s[j] = v) = i
      BY <1>2 DEF Distinct
    <2> QED
      BY <1>1, <1>2, <2>1, <2>2
  <1> QED
    BY <1>1, <1>2

\* A webview has its place in one stack.
LEMMA OnePlace ==
  ASSUME TypeOK, Tables, NEW u \in WebViews, NEW p \in Panes, NEW r \in Panes,
         In(paneStacks[p], u), In(paneStacks[r], u)
  PROVE  p = r
  <1>1. /\ webviewToPaneId[u] = p \/ Queued(mainQueue, u, p)
        /\ webviewToPaneId[u] = r \/ Queued(mainQueue, u, r)
    BY DEF Tables
  <1>2. CASE webviewToPaneId[u] = p \/ webviewToPaneId[u] = r
    BY <1>1, <1>2, NamesAssumption DEF Tables
  <1>3. CASE Queued(mainQueue, u, p) /\ Queued(mainQueue, u, r)
    <2>1. PICK j \in DOMAIN mainQueue : mainQueue[j] = Creation(u, p)
      BY <1>3 DEF Queued
    <2>2. PICK k \in DOMAIN mainQueue : mainQueue[k] = Creation(u, r)
      BY <1>3 DEF Queued
    <2>3. j = k
      BY <2>1, <2>2 DEF Tables, Once, Creation
    <2> QED
      BY <2>1, <2>2, <2>3 DEF Creation
  <1> QED
    BY <1>1, <1>2, <1>3

\* What removals captured stays true when a block leaves the queue.
LEMMA PopCaptured ==
  ASSUME TypeOK, LaterKnows, KnownThere, HoldsSurface, NEW kind, Runs(kind),
         mainQueue' = Tail(mainQueue), UNCHANGED <<surface, used>>,
         \A p \in Panes, u \in WebViews : In(paneStacks'[p], u) => In(paneStacks[p], u),
         \A u \in WebViews : \/ webviewToPaneId'[u] = webviewToPaneId[u]
                             \/ \E p \in Panes : Queued(mainQueue, u, p)
  PROVE  LaterKnows' /\ KnownThere' /\ HoldsSurface'
  <1>1. mainQueue \in Seq(Blocks) /\ mainQueue # <<>>
    BY DEF TypeOK, Runs
  <1>2. \A i \in DOMAIN mainQueue' :
          i \in Nat /\ i + 1 \in DOMAIN mainQueue /\ mainQueue'[i] = mainQueue[i + 1]
    BY <1>1, BehindHead
  <1>3. \A v, p : Queued(mainQueue', v, p) => Queued(mainQueue, v, p)
    BY <1>1, BehindHead DEF Queued
  <1>4. LaterKnows'
    <2> SUFFICES ASSUME NEW j \in DOMAIN mainQueue', NEW m \in DOMAIN mainQueue',
                        j < m, Removal(j)', Removal(m)', NEW p \in Panes,
                        mainQueue'[j].pane = p, mainQueue'[m].pane = p,
                        NEW u \in WebViews, u \in mainQueue'[j].known,
                        In(paneStacks'[p], u)
                 PROVE  u \in mainQueue'[m].known
      BY DEF LaterKnows
    <2>1. j + 1 < m + 1 /\ Removal(j + 1) /\ Removal(m + 1)
      BY <1>2 DEF Removal
    <2> QED
      BY <1>2, <2>1 DEF LaterKnows
  <1>5. KnownThere'
    <2> SUFFICES ASSUME NEW m \in DOMAIN mainQueue', Removal(m)', NEW u \in WebViews,
                        u \in mainQueue'[m].known
                 PROVE  /\ u \in used'
                        /\ \A p \in Panes : ~Queued(mainQueue', u, p)
                        /\ \A p \in Panes : webviewToPaneId'[u] = p =>
                             mainQueue'[m].pane = p \/ surface'[p] = "dead"
      BY DEF KnownThere
    <2>1. Removal(m + 1)
      BY <1>2 DEF Removal
    <2> QED
      BY <1>2, <1>3, <2>1 DEF KnownThere
  <1>6. HoldsSurface'
    BY <1>2 DEF HoldsSurface, Removal
  <1> QED
    BY <1>4, <1>5, <1>6

\* A block runs that neither creates nor removes.
LEMMA PopLabels ==
  ASSUME TypeOK, Tables, Labels, NEW kind, kind \notin {"create", "remove"},
         Runs(kind), mainQueue' = Tail(mainQueue),
         UNCHANGED <<surface, webviewToPaneId, paneStacks, stackInfo, used>>
  PROVE  Labels'
  <1>1. /\ mainQueue \in Seq(Blocks) /\ mainQueue # <<>>
        /\ Head(mainQueue).kind = kind /\ \A p : ~Touches(Head(mainQueue), p)
    BY DEF TypeOK, Runs, Touches
  <1>2. \A v, p : Queued(mainQueue', v, p) <=> Queued(mainQueue, v, p)
    BY <1>1, OtherPop DEF Tables
  <1>3. LaterKnows' /\ KnownThere' /\ HoldsSurface'
    BY PopCaptured DEF Labels
  <1>4. \A u, p : Right(u, p)' <=> Right(u, p)
    BY DEF Right
  <1>5. Settled'
    <2> SUFFICES ASSUME NEW p \in Panes, surface[p] = "alive",
                        NoneAfter(mainQueue', 0, p)
                 PROVE  \A u \in WebViews : In(paneStacks[p], u) => Right(u, p)
      BY <1>4 DEF Settled
    <2>1. NoneAfter(mainQueue, 0 + 1, p)
      BY <1>1, NoneBehind
    <2>2. NoneAfter(mainQueue, 0, p)
      BY <1>1, <2>1, NoneAtAll
    <2> QED
      BY <2>2 DEF Labels, Settled
  <1>6. LastRemoval'
    <2> SUFFICES ASSUME NEW p \in Panes, NEW m \in DOMAIN mainQueue',
                        mainQueue'[m].kind = "remove", mainQueue'[m].pane = p,
                        NoneAfter(mainQueue', m, p)
                 PROVE  /\ mainQueue'[m].rest = paneStacks[p]
                        /\ \A u \in WebViews : In(paneStacks[p], u) =>
                             \/ u \in mainQueue'[m].known
                             \/ Queued(mainQueue', u, p) \/ Right(u, p)
      BY <1>4 DEF LastRemoval, Removal
    <2>1. /\ m \in Nat /\ m + 1 \in DOMAIN mainQueue
          /\ mainQueue'[m] = mainQueue[m + 1]
      BY <1>1, BehindHead
    <2>2. NoneAfter(mainQueue, m + 1, p)
      BY <1>1, <2>1, NoneBehind
    <2> QED
      BY <1>2, <2>1, <2>2 DEF Labels, LastRemoval, Removal
  <1> QED
    BY <1>3, <1>5, <1>6 DEF Labels

\* A request or the end of a connection is queued.
LEMMA PushLabels ==
  ASSUME TypeOK, Tables, Labels, NEW b \in Blocks, b.kind \notin {"create", "remove"},
         mainQueue' = Append(mainQueue, b),
         UNCHANGED <<surface, webviewToPaneId, paneStacks, stackInfo, used>>
  PROVE  Labels'
  <1>1. mainQueue \in Seq(Blocks) /\ Len(mainQueue) \in Nat
    BY DEF TypeOK
  <1>2. \A v, p : Queued(mainQueue', v, p) <=> Queued(mainQueue, v, p)
    BY <1>1, OtherPush DEF Tables
  <1>3. \A u, p : Right(u, p)' <=> Right(u, p)
    BY DEF Right
  <1>4. \A m \in DOMAIN mainQueue' : mainQueue'[m].kind = "remove" =>
          /\ m \in DOMAIN mainQueue /\ mainQueue'[m] = mainQueue[m]
          /\ m \in Nat /\ m <= Len(mainQueue)
    BY <1>1, AtTheEnd
  <1>5. Settled'
    <2> SUFFICES ASSUME NEW p \in Panes, surface[p] = "alive",
                        NoneAfter(mainQueue', 0, p)
                 PROVE  \A u \in WebViews : In(paneStacks[p], u) => Right(u, p)
      BY <1>3 DEF Settled
    <2>1. NoneAfter(mainQueue, 0, p)
      BY <1>1, NoneBefore
    <2> QED
      BY <2>1 DEF Labels, Settled
  <1>6. LastRemoval'
    <2> SUFFICES ASSUME NEW p \in Panes, NEW m \in DOMAIN mainQueue',
                        mainQueue'[m].kind = "remove", mainQueue'[m].pane = p,
                        NoneAfter(mainQueue', m, p)
                 PROVE  /\ mainQueue'[m].rest = paneStacks[p]
                        /\ \A u \in WebViews : In(paneStacks[p], u) =>
                             \/ u \in mainQueue'[m].known
                             \/ Queued(mainQueue', u, p) \/ Right(u, p)
      BY <1>3 DEF LastRemoval, Removal
    <2>1. m \in Nat /\ m <= Len(mainQueue) /\ mainQueue'[m] = mainQueue[m]
      BY <1>4
    <2>2. NoneAfter(mainQueue, m, p)
      BY <1>1, <2>1, NoneBefore
    <2> QED
      BY <1>2, <1>4, <2>2 DEF Labels, LastRemoval, Removal
  <1>7. LaterKnows'
    BY <1>4 DEF Labels, LaterKnows, Removal
  <1>8. KnownThere'
    BY <1>2, <1>4 DEF Labels, KnownThere, Removal
  <1>9. HoldsSurface'
    BY <1>4 DEF Labels, HoldsSurface, Removal
  <1> QED
    BY <1>5, <1>6, <1>7, <1>8, <1>9 DEF Labels

\* Nothing of it changes.
LEMMA QuietLabels ==
  ASSUME Labels, UNCHANGED <<surface, webviewToPaneId, paneStacks, stackInfo, used,
                             mainQueue>>
  PROVE  Labels'
  <1>1. \A u, p : Right(u, p)' <=> Right(u, p)
    BY DEF Right
  <1> QED
    BY <1>1 DEF Labels, Settled, LastRemoval, LaterKnows, KnownThere, HoldsSurface,
                Removal

\* open: a creation is queued for the pane, and it comes last.
LEMMA OpenLabels == ASSUME TypeOK, Tables, Labels, HandleOpen PROVE Labels'
  <1> DEFINE r == Request.pane
             q == Tail(mainQueue)
  <1>1. PICK w \in WebViews \ used :
          /\ used' = used \cup {w}
          /\ paneStacks' = [paneStacks EXCEPT ![r] = Append(@, w)]
          /\ mainQueue' = Append(q, Creation(w, r))
    BY DEF HandleOpen, Creation
  <1>2. r \in Panes /\ q \in Seq(Blocks) /\ mainQueue # <<>>
        /\ mainQueue \in Seq(Blocks) /\ Head(mainQueue).kind = "handle"
    BY NextBlock, BlockTypes DEF HandleOpen, Request, Runs, TypeOK
  <1>3. UNCHANGED <<surface, webviewToPaneId, stackInfo>>
    BY DEF HandleOpen, views
  <1>4. Once(q) /\ \A v, p : Queued(q, v, p) <=> Queued(mainQueue, v, p)
    BY <1>2, OtherPop DEF Tables
  <1>5. /\ Creation(w, r) \in Blocks /\ Touches(Creation(w, r), r)
        /\ \A p : ~Touches(Head(mainQueue), p)
    BY <1>1, <1>2 DEF Creation, Blocks, Touches
  <1> HIDE DEF r, q
  <1>6. \A p \in Panes : ~Queued(q, w, p)
    BY <1>1, <1>4 DEF Tables
  <1>7. \A v, p : Queued(mainQueue', v, p)
                    <=> Queued(mainQueue, v, p) \/ (v = w /\ p = r)
    BY <1>1, <1>2, <1>4, <1>6, CreatePush
  <1>8. /\ \A p \in Panes : p # r => paneStacks'[p] = paneStacks[p]
        /\ \A v : In(paneStacks'[r], v) => In(paneStacks[r], v) \/ v = w
    <2>1. paneStacks[r] \in Seq(WebViews) /\ paneStacks'[r] = Append(paneStacks[r], w)
      BY <1>1, <1>2 DEF TypeOK
    <2>2. \A v : In(Append(paneStacks[r], w), v) => In(paneStacks[r], v) \/ v = w
      BY <1>1, <2>1, AtTheEnd DEF In
    <2> QED
      BY <1>1, <1>2, <2>1, <2>2 DEF TypeOK
  <1>9. \A m \in DOMAIN mainQueue' : mainQueue'[m].kind = "remove" =>
          /\ m \in Nat /\ m <= Len(q) /\ m + 1 \in DOMAIN mainQueue
          /\ mainQueue'[m] = mainQueue[m + 1]
    <2>1. \A m \in DOMAIN q : m + 1 \in DOMAIN mainQueue /\ q[m] = mainQueue[m + 1]
      BY <1>2, BehindHead DEF q
    <2>2. \A m \in DOMAIN mainQueue' :
            (m \in DOMAIN q /\ mainQueue'[m] = q[m]) \/ mainQueue'[m] = Creation(w, r)
      BY <1>1, <1>2, <1>5, AtTheEnd
    <2>3. Creation(w, r).kind = "create"
      BY DEF Creation
    <2>4. \A m \in DOMAIN q : m \in Nat /\ m <= Len(q)
      BY <1>2
    <2> QED
      BY <2>1, <2>2, <2>3, <2>4
  <1>10. ASSUME NEW p \in Panes, NEW m \in Nat, m <= Len(q), NoneAfter(mainQueue', m, p)
         PROVE  p # r /\ NoneAfter(mainQueue, m + 1, p)
    <2>1. NoneAfter(q, m, p) /\ ~Touches(Creation(w, r), p)
      BY <1>1, <1>2, <1>5, <1>10, NoneBefore
    <2> QED
      BY <1>2, <1>5, <2>1, NoneBehind DEF q
  <1>11. \A p \in Panes, u \in WebViews : p # r => (Right(u, p)' <=> Right(u, p))
    BY <1>3, <1>8 DEF Right
  <1>12. Settled'
    <2> SUFFICES ASSUME NEW p \in Panes, surface[p] = "alive",
                        NoneAfter(mainQueue', 0, p), NEW u \in WebViews,
                        In(paneStacks'[p], u)
                 PROVE  Right(u, p)'
      BY <1>3 DEF Settled
    <2>1. p # r /\ NoneAfter(mainQueue, 0 + 1, p)
      BY <1>2, <1>10
    <2>2. NoneAfter(mainQueue, 0, p)
      BY <1>2, <1>5, <2>1, NoneAtAll
    <2> QED
      BY <1>8, <1>11, <2>1, <2>2 DEF Labels, Settled
  <1>13. LastRemoval'
    <2> SUFFICES ASSUME NEW p \in Panes, NEW m \in DOMAIN mainQueue',
                        mainQueue'[m].kind = "remove", mainQueue'[m].pane = p,
                        NoneAfter(mainQueue', m, p)
                 PROVE  /\ mainQueue'[m].rest = paneStacks'[p]
                        /\ \A u \in WebViews : In(paneStacks'[p], u) =>
                             \/ u \in mainQueue'[m].known
                             \/ Queued(mainQueue', u, p) \/ Right(u, p)'
      BY DEF LastRemoval, Removal
    <2>1. /\ p # r /\ NoneAfter(mainQueue, m + 1, p)
          /\ m + 1 \in DOMAIN mainQueue /\ mainQueue'[m] = mainQueue[m + 1]
      BY <1>9, <1>10
    <2> QED
      BY <1>7, <1>8, <1>11, <2>1 DEF Labels, LastRemoval, Removal
  <1>14. LaterKnows'
    <2> SUFFICES ASSUME NEW j \in DOMAIN mainQueue', NEW m \in DOMAIN mainQueue', j < m,
                        mainQueue'[j].kind = "remove", mainQueue'[m].kind = "remove",
                        NEW p \in Panes,
                        mainQueue'[j].pane = p, mainQueue'[m].pane = p,
                        NEW u \in WebViews, u \in mainQueue'[j].known,
                        In(paneStacks'[p], u)
                 PROVE  u \in mainQueue'[m].known
      BY DEF LaterKnows, Removal
    <2>1. /\ j + 1 \in DOMAIN mainQueue /\ mainQueue'[j] = mainQueue[j + 1]
          /\ m + 1 \in DOMAIN mainQueue /\ mainQueue'[m] = mainQueue[m + 1]
          /\ j + 1 < m + 1
      BY <1>9
    <2>2. u # w
      BY <1>1, <2>1 DEF Labels, KnownThere, Removal
    <2>3. In(paneStacks[p], u)
      BY <1>8, <2>2
    <2> QED
      BY <2>1, <2>3 DEF Labels, LaterKnows, Removal
  <1>15. KnownThere'
    <2> SUFFICES ASSUME NEW m \in DOMAIN mainQueue', mainQueue'[m].kind = "remove",
                        NEW u \in WebViews, u \in mainQueue'[m].known
                 PROVE  /\ u \in used'
                        /\ \A p \in Panes : ~Queued(mainQueue', u, p)
                        /\ \A p \in Panes : webviewToPaneId'[u] = p =>
                             mainQueue'[m].pane = p \/ surface'[p] = "dead"
      BY DEF KnownThere, Removal
    <2>1. m + 1 \in DOMAIN mainQueue /\ mainQueue'[m] = mainQueue[m + 1]
      BY <1>9
    <2>2. /\ u \in used /\ \A p \in Panes : ~Queued(mainQueue, u, p)
          /\ \A p \in Panes : webviewToPaneId[u] = p =>
               mainQueue'[m].pane = p \/ surface[p] = "dead"
      BY <2>1 DEF Labels, KnownThere, Removal
    <2> QED
      BY <1>1, <1>3, <1>7, <2>2
  <1>16. HoldsSurface'
    BY <1>3, <1>9 DEF Labels, HoldsSurface, Removal
  <1> QED
    BY <1>12, <1>13, <1>14, <1>15, <1>16 DEF Labels

\* The view is created, and every container of the stack gets its place.
LEMMA CreateLabels == ASSUME TypeOK, Tables, Labels, Create PROVE Labels'
  <1> DEFINE w == Head(mainQueue).view
             r == Head(mainQueue).pane
  <1>1. /\ w \in WebViews /\ r \in Panes
        /\ mainQueue # <<>> /\ mainQueue \in Seq(Blocks)
        /\ Head(mainQueue).kind = "create" /\ Runs("create")
    BY NextBlock, BlockTypes DEF Create, Runs, TypeOK
  <1>2. /\ containers' = containers \cup {w}
        /\ webviewToPaneId' = [webviewToPaneId EXCEPT ![w] = r]
        /\ Relabel(paneStacks[r], containers')
        /\ mainQueue' = Tail(mainQueue)
        /\ UNCHANGED <<surface, paneStacks, used>>
    BY DEF Create
  <1>3. /\ Queued(mainQueue, w, r)
        /\ \A v, p : Queued(mainQueue', v, p) => Queued(mainQueue, v, p)
        /\ \A v, p : Queued(mainQueue, v, p) =>
             Queued(mainQueue', v, p) \/ (v = w /\ p = r)
    BY <1>1, <1>2, CreatePop DEF Tables
  <1>4. \A p : p # r => ~Touches(Head(mainQueue), p)
    BY DEF Touches
  <1> HIDE DEF w, r
  <1>5. LaterKnows' /\ KnownThere' /\ HoldsSurface'
    <2>1. \A u \in WebViews : \/ webviewToPaneId'[u] = webviewToPaneId[u]
                              \/ \E p \in Panes : Queued(mainQueue, u, p)
      BY <1>1, <1>2, <1>3 DEF TypeOK
    <2> QED
      BY <1>1, <1>2, <2>1, PopCaptured DEF Labels
  <1>6. paneStacks[r] \in Seq(WebViews) /\ Distinct(paneStacks[r])
    BY <1>1 DEF TypeOK, Tables
  <1>7. ASSUME NEW p \in Panes, p = r, NEW u \in WebViews, In(paneStacks[p], u)
        PROVE  Right(u, p)' \/ Queued(mainQueue', u, p)
    <2>1. u \in containers' \/ Queued(mainQueue', u, r)
      <3>1. webviewToPaneId[u] = r \/ Queued(mainQueue, u, r)
        BY <1>1, <1>7 DEF Tables
      <3>2. webviewToPaneId[u] = r => u \in containers
        BY <1>1, NamesAssumption DEF Tables
      <3> QED
        BY <1>2, <1>3, <3>1, <3>2
    <2>2. ASSUME u \in containers' PROVE Right(u, p)'
      <3>1. PICK i \in DOMAIN paneStacks[r] : paneStacks[r][i] = u
        BY <1>7 DEF In
      <3>2. stackInfo'[u] = [pos |-> i, total |-> Len(paneStacks[r])]
        BY <1>2, <1>6, <2>2, <3>1, RelabelSets
      <3> QED
        BY <1>2, <1>7, <3>1, <3>2 DEF Right
    <2> QED
      BY <1>7, <2>1, <2>2
  <1>8. ASSUME NEW p \in Panes, p # r, NEW u \in WebViews, In(paneStacks[p], u),
               Right(u, p)
        PROVE  Right(u, p)'
    <2>1. ~In(paneStacks[r], u)
      BY <1>1, <1>8, OnePlace
    <2>2. stackInfo'[u] = stackInfo[u]
      BY <1>2, <1>6, <2>1, RelabelSets
    <2> QED
      BY <1>2, <1>8, <2>2 DEF Right
  <1>9. Settled'
    <2> SUFFICES ASSUME NEW p \in Panes, surface[p] = "alive",
                        NoneAfter(mainQueue', 0, p), NEW u \in WebViews,
                        In(paneStacks[p], u)
                 PROVE  Right(u, p)'
      BY <1>2 DEF Settled
    <2>1. CASE p = r
      <3>1. mainQueue' \in Seq(Blocks)
        BY <1>1, <1>2
      <3>2. ~Queued(mainQueue', u, p)
        BY <3>1, CreationTouches
      <3> QED
        BY <1>7, <2>1, <3>2
    <2>2. CASE p # r
      <3>1. NoneAfter(mainQueue, 0 + 1, p)
        BY <1>1, <1>2, NoneBehind
      <3>2. NoneAfter(mainQueue, 0, p)
        BY <1>1, <1>4, <2>2, <3>1, NoneAtAll
      <3> QED
        BY <1>8, <2>2, <3>2 DEF Labels, Settled
    <2> QED
      BY <2>1, <2>2
  <1>10. LastRemoval'
    <2> SUFFICES ASSUME NEW p \in Panes, NEW m \in DOMAIN mainQueue',
                        mainQueue'[m].kind = "remove", mainQueue'[m].pane = p,
                        NoneAfter(mainQueue', m, p)
                 PROVE  /\ mainQueue'[m].rest = paneStacks[p]
                        /\ \A u \in WebViews : In(paneStacks[p], u) =>
                             \/ u \in mainQueue'[m].known
                             \/ Queued(mainQueue', u, p) \/ Right(u, p)'
      BY <1>2 DEF LastRemoval, Removal
    <2>1. /\ m \in Nat /\ m + 1 \in DOMAIN mainQueue
          /\ mainQueue'[m] = mainQueue[m + 1]
      BY <1>1, <1>2, BehindHead
    <2>2. NoneAfter(mainQueue, m + 1, p)
      BY <1>1, <1>2, <2>1, NoneBehind
    <2>3. /\ mainQueue'[m].rest = paneStacks[p]
          /\ \A u \in WebViews : In(paneStacks[p], u) =>
               \/ u \in mainQueue'[m].known
               \/ Queued(mainQueue, u, p) \/ Right(u, p)
      BY <2>1, <2>2 DEF Labels, LastRemoval, Removal
    <2> QED
      BY <1>3, <1>7, <1>8, <2>3
  <1> QED
    BY <1>5, <1>9, <1>10 DEF Labels

\* The surface is gone, and there is nothing to label.
LEMMA CreateFailsLabels == ASSUME TypeOK, Tables, Labels, CreateFails PROVE Labels'
  <1> DEFINE w == Head(mainQueue).view
             r == Head(mainQueue).pane
  <1>1. /\ w \in WebViews /\ r \in Panes
        /\ mainQueue # <<>> /\ mainQueue \in Seq(Blocks)
        /\ Head(mainQueue).kind = "create" /\ Runs("create")
    BY NextBlock, BlockTypes DEF CreateFails, Runs, TypeOK
  <1>2. /\ surface[r] # "alive"
        /\ paneStacks' = [paneStacks EXCEPT ![r] = Without(@, w)]
        /\ mainQueue' = Tail(mainQueue)
        /\ UNCHANGED <<surface, webviewToPaneId, stackInfo, used>>
    BY DEF CreateFails, views
  <1>3. \A v, p : Queued(mainQueue, v, p) => Queued(mainQueue', v, p) \/ p = r
    BY <1>1, <1>2, CreatePop DEF Tables
  <1>4. \A p : p # r => ~Touches(Head(mainQueue), p)
    BY DEF Touches
  <1> HIDE DEF w, r
  <1>5. /\ \A p \in Panes : p # r => paneStacks'[p] = paneStacks[p]
        /\ \A u : In(paneStacks'[r], u) => In(paneStacks[r], u)
    <2>1. paneStacks[r] \in Seq(WebViews) /\ paneStacks'[r] = Without(paneStacks[r], w)
      BY <1>1, <1>2 DEF TypeOK
    <2> QED
      BY <1>1, <1>2, <2>1, WithoutKeeps DEF TypeOK
  <1>6. LaterKnows' /\ KnownThere' /\ HoldsSurface'
    <2>1. \A p \in Panes, u \in WebViews :
            In(paneStacks'[p], u) => In(paneStacks[p], u)
      BY <1>5
    <2> QED
      BY <1>1, <1>2, <2>1, PopCaptured DEF Labels
  <1>7. \A p \in Panes, u \in WebViews : p # r => (Right(u, p)' <=> Right(u, p))
    BY <1>2, <1>5 DEF Right
  <1>8. Settled'
    <2> SUFFICES ASSUME NEW p \in Panes, surface[p] = "alive",
                        NoneAfter(mainQueue', 0, p), NEW u \in WebViews,
                        In(paneStacks'[p], u)
                 PROVE  Right(u, p)'
      BY <1>2 DEF Settled
    <2>1. p # r /\ NoneAfter(mainQueue, 0 + 1, p)
      BY <1>1, <1>2, NoneBehind
    <2>2. NoneAfter(mainQueue, 0, p)
      BY <1>1, <1>4, <2>1, NoneAtAll
    <2> QED
      BY <1>5, <1>7, <2>1, <2>2 DEF Labels, Settled
  <1>9. LastRemoval'
    <2> SUFFICES ASSUME NEW p \in Panes, NEW m \in DOMAIN mainQueue',
                        mainQueue'[m].kind = "remove", mainQueue'[m].pane = p,
                        NoneAfter(mainQueue', m, p)
                 PROVE  /\ mainQueue'[m].rest = paneStacks'[p]
                        /\ \A u \in WebViews : In(paneStacks'[p], u) =>
                             \/ u \in mainQueue'[m].known
                             \/ Queued(mainQueue', u, p) \/ Right(u, p)'
      BY DEF LastRemoval, Removal
    <2>1. /\ m \in Nat /\ m + 1 \in DOMAIN mainQueue
          /\ mainQueue'[m] = mainQueue[m + 1]
      BY <1>1, <1>2, BehindHead
    <2>2. NoneAfter(mainQueue, m + 1, p)
      BY <1>1, <1>2, <2>1, NoneBehind
    <2>3. surface[p] = "alive"
      BY <2>1 DEF Labels, HoldsSurface, Removal
    <2>4. p # r /\ paneStacks'[p] = paneStacks[p]
      BY <1>2, <1>5, <2>3
    <2>5. /\ mainQueue'[m].rest = paneStacks[p]
          /\ \A u \in WebViews : In(paneStacks[p], u) =>
               \/ u \in mainQueue'[m].known
               \/ Queued(mainQueue, u, p) \/ Right(u, p)
      BY <2>1, <2>2 DEF Labels, LastRemoval, Removal
    <2> QED
      BY <1>3, <1>7, <2>4, <2>5
  <1> QED
    BY <1>6, <1>8, <1>9 DEF Labels

\* The removal labels what it knew when it was queued.
LEMMA RemoveLabels == ASSUME TypeOK, Tables, Labels, Remove PROVE Labels'
  <1> DEFINE b == Head(mainQueue)
  <1>1. /\ mainQueue # <<>> /\ mainQueue \in Seq(Blocks) /\ Runs("remove")
        /\ b.kind = "remove" /\ b.rest \in Seq(WebViews)
        /\ 1 \in DOMAIN mainQueue /\ mainQueue[1] = b /\ Removal(1)
    BY NextBlock, BlockTypes DEF Remove, Runs, TypeOK, Removal
  <1>2. /\ Relabel(b.rest, b.known)
        /\ mainQueue' = Tail(mainQueue)
        /\ UNCHANGED <<surface, webviewToPaneId, paneStacks, used>>
    BY DEF Remove, tables
  <1>3. \A v, p : Queued(mainQueue', v, p) <=> Queued(mainQueue, v, p)
    BY <1>1, <1>2, OtherPop DEF Tables
  <1>4. LaterKnows' /\ KnownThere' /\ HoldsSurface'
    BY <1>1, <1>2, PopCaptured DEF Labels
  <1> HIDE DEF b
  <1>5. ASSUME NEW p \in Panes, NEW u \in WebViews, In(paneStacks[p], u),
               u \in b.known, surface[p] = "alive"
        PROVE  b.pane = p
    <2>1. /\ ~Queued(mainQueue, u, p)
          /\ webviewToPaneId[u] = p => b.pane = p \/ surface[p] = "dead"
      BY <1>1, <1>5 DEF Labels, KnownThere
    <2> QED
      BY <1>5, <2>1 DEF Tables
  <1>6. ASSUME NEW p \in Panes, NEW u \in WebViews, u \notin b.known, Right(u, p)
        PROVE  Right(u, p)'
    <2>1. stackInfo'[u] = stackInfo[u]
      BY <1>6, <1>2 DEF Relabel
    <2> QED
      BY <1>2, <1>6, <2>1 DEF Right
  <1>7. Settled'
    <2> SUFFICES ASSUME NEW p \in Panes, surface[p] = "alive",
                        NoneAfter(mainQueue', 0, p), NEW u \in WebViews,
                        In(paneStacks[p], u)
                 PROVE  Right(u, p)'
      BY <1>2 DEF Settled
    <2>1. NoneAfter(mainQueue, 0 + 1, p) /\ ~Queued(mainQueue, u, p)
      <3>1. mainQueue' \in Seq(Blocks)
        BY <1>1, <1>2
      <3> QED
        BY <1>1, <1>2, <1>3, <3>1, NoneBehind, CreationTouches
    <2>2. CASE b.pane = p
      <3>1. /\ b.rest = paneStacks[p]
            /\ u \in b.known \/ Right(u, p)
        BY <1>1, <2>1, <2>2 DEF Labels, LastRemoval
      <3>2. ASSUME u \in b.known PROVE Right(u, p)'
        <4>1. PICK i \in DOMAIN paneStacks[p] : paneStacks[p][i] = u
          BY DEF In
        <4>2. stackInfo'[u] = [pos |-> i, total |-> Len(paneStacks[p])]
          BY <1>1, <1>2, <3>1, <3>2, <4>1, RelabelSets DEF Tables
        <4> QED
          BY <1>2, <4>1, <4>2 DEF Right
      <3> QED
        BY <1>6, <3>1, <3>2
    <2>3. CASE b.pane # p
      <3>1. ~Touches(Head(mainQueue), p)
        BY <2>3 DEF Touches, b
      <3>2. NoneAfter(mainQueue, 0, p)
        BY <1>1, <2>1, <3>1, NoneAtAll
      <3>3. Right(u, p) /\ u \notin b.known
        BY <1>5, <2>3, <3>2 DEF Labels, Settled
      <3> QED
        BY <1>6, <3>3
    <2> QED
      BY <2>2, <2>3
  <1>8. LastRemoval'
    <2> SUFFICES ASSUME NEW p \in Panes, NEW m \in DOMAIN mainQueue',
                        mainQueue'[m].kind = "remove", mainQueue'[m].pane = p,
                        NoneAfter(mainQueue', m, p)
                 PROVE  /\ mainQueue'[m].rest = paneStacks[p]
                        /\ \A u \in WebViews : In(paneStacks[p], u) =>
                             \/ u \in mainQueue'[m].known
                             \/ Queued(mainQueue', u, p) \/ Right(u, p)'
      BY <1>2 DEF LastRemoval, Removal
    <2>1. /\ m \in Nat /\ m + 1 \in DOMAIN mainQueue /\ 1 < m + 1
          /\ mainQueue'[m] = mainQueue[m + 1] /\ Removal(m + 1)
      BY <1>1, <1>2, BehindHead DEF Removal
    <2>2. NoneAfter(mainQueue, m + 1, p)
      BY <1>1, <1>2, <2>1, NoneBehind
    <2>3. /\ mainQueue'[m].rest = paneStacks[p]
          /\ \A u \in WebViews : In(paneStacks[p], u) =>
               \/ u \in mainQueue'[m].known
               \/ Queued(mainQueue, u, p) \/ Right(u, p)
      BY <2>1, <2>2 DEF Labels, LastRemoval
    <2>4. ASSUME NEW u \in WebViews, In(paneStacks[p], u), u \in b.known
          PROVE  u \in mainQueue'[m].known
      <3>1. surface[p] = "alive"
        BY <2>1 DEF Labels, HoldsSurface
      <3>2. b.pane = p
        BY <1>5, <2>4, <3>1
      <3> QED
        BY <1>1, <2>1, <2>4, <3>2 DEF Labels, LaterKnows
    <2> QED
      BY <1>3, <1>6, <2>3, <2>4
  <1> QED
    BY <1>4, <1>7, <1>8 DEF Labels

\* What a removal block carries.
LEMMA RemovalBlock ==
  ASSUME TypeOK, NEW v \in WebViews, NEW p \in Panes, NEW rest \in Seq(WebViews),
         QueueRemoval(v, p, rest)
  PROVE  \E b \in Blocks :
           /\ b.kind = "remove" /\ b.rest = rest
           /\ b.pane = IF surface[p] = "alive" THEN p ELSE NoPane
           /\ b.known = {u \in containers \ {v} : In(rest, u)}
           /\ mainQueue' = Append(mainQueue, b)
  <1> DEFINE b == [kind |-> "remove", view |-> v,
                   pane |-> IF p \in Panes /\ surface[p] = "alive" THEN p ELSE NoPane,
                   rest |-> rest,
                   known |-> {u \in containers \ {v} : In(rest, u)}]
  <1>1. b.known \in SUBSET WebViews
    BY DEF TypeOK
  <1>2. b.pane \in Panes \cup {NoPane}
    OBVIOUS
  <1>3. b \in Blocks
    BY <1>1, <1>2 DEF Blocks
  <1>4. mainQueue' = Append(mainQueue, b)
    BY DEF QueueRemoval
  <1> QED
    BY <1>3, <1>4

\* A close changes the stack, and queues a removal that carries it.
LEMMA CloseLabels ==
  ASSUME TypeOK, Tables, Layout, Labels, NEW w \in WebViews, NEW code \in ExitCodes,
         CloseWebView(w, code)
  PROVE  Labels'
  <1> DEFINE pw == webviewToPaneId[w]
             rest == IF pw = NoPane THEN <<>> ELSE Without(paneStacks[pw], w)
  <1>1. /\ webviewToPaneId' = [webviewToPaneId EXCEPT ![w] = NoPane]
        /\ paneStacks' = IF pw = NoPane THEN paneStacks
                         ELSE [paneStacks EXCEPT ![pw] = rest]
        /\ UNCHANGED <<surface, stackInfo, used>>
    BY DEF CloseWebView, views
  <1>2. CASE pw = NoPane
    <2>1. w \notin containers
      BY <1>2 DEF Tables
    <2>2. UNCHANGED <<webviewToPaneId, paneStacks, mainQueue>>
      BY <1>1, <1>2, <2>1 DEF TypeOK, CloseWebView
    <2> QED
      BY <1>1, <2>2, QuietLabels
  <1>3. CASE pw # NoPane
    <2>1. PICK r \in Panes : r = pw
      BY <1>3 DEF TypeOK
    <2>2. w \in containers
      BY <1>3 DEF Tables
    <2>3. /\ rest \in Seq(WebViews)
          /\ \A v : In(rest, v) => In(paneStacks[r], v) /\ v # w
      <3>1. rest = Without(paneStacks[r], w)
        BY <1>3, <2>1
      <3>2. paneStacks[r] \in Seq(WebViews) /\ Distinct(paneStacks[r])
        BY DEF TypeOK, Tables
      <3> QED
        BY <3>1, <3>2, WithoutKeeps, WithoutTakesOut
    <2>4. QueueRemoval(w, r, rest)
      BY <2>1, <2>2 DEF CloseWebView
    <2>5. paneStacks' = [paneStacks EXCEPT ![r] = rest]
      BY <1>1, <1>3, <2>1
    <2>6. webviewToPaneId[w] = r
      BY <2>1
    <2> HIDE DEF pw, rest
    <2>7. PICK b \in Blocks :
            /\ b.kind = "remove" /\ b.rest = rest
            /\ b.pane = IF surface[r] = "alive" THEN r ELSE NoPane
            /\ b.known = {u \in containers \ {w} : In(rest, u)}
            /\ mainQueue' = Append(mainQueue, b)
      BY <2>3, <2>4, RemovalBlock
    <2>8. paneStacks'[r] = rest /\ \A p \in Panes : p # r => paneStacks'[p] = paneStacks[p]
      BY <2>5 DEF TypeOK
    <2>9. /\ mainQueue \in Seq(Blocks) /\ Len(mainQueue) \in Nat
          /\ \A v, p : Queued(mainQueue', v, p) <=> Queued(mainQueue, v, p)
      <3>1. mainQueue \in Seq(Blocks) /\ Len(mainQueue) \in Nat /\ Once(mainQueue)
        BY DEF TypeOK, Tables
      <3>2. b.kind # "create" /\ mainQueue' = Append(mainQueue, b)
        BY <2>7
      <3> QED
        BY <3>1, <3>2, OtherPush
    <2>10. \A m \in DOMAIN mainQueue' :
             \/ /\ m \in DOMAIN mainQueue /\ mainQueue'[m] = mainQueue[m]
                /\ m \in Nat /\ m <= Len(mainQueue)
             \/ m = Len(mainQueue) + 1 /\ mainQueue'[m] = b
      BY <2>7, <2>9, AtTheEnd
    <2>11. ASSUME NEW u \in WebViews, In(rest, u)
           PROVE  \/ Queued(mainQueue, u, r)
                  \/ webviewToPaneId[u] = r /\ u \in b.known
      <3>1. webviewToPaneId[u] = r \/ Queued(mainQueue, u, r)
        BY <2>3, <2>11 DEF Tables
      <3>2. webviewToPaneId[u] = r => u \in containers
        BY NamesAssumption DEF Tables
      <3> QED
        BY <2>3, <2>7, <2>11, <3>1, <3>2
    <2>12. \A p \in Panes, u \in WebViews : p # r => (Right(u, p)' <=> Right(u, p))
      BY <1>1, <2>8 DEF Right
    <2>13. surface[r] = "alive" => Touches(b, r)
      BY <2>7 DEF Touches
    <2>14. Settled'
      <3> SUFFICES ASSUME NEW p \in Panes, surface[p] = "alive",
                          NoneAfter(mainQueue', 0, p), NEW u \in WebViews,
                          In(paneStacks'[p], u)
                   PROVE  Right(u, p)'
        BY <1>1 DEF Settled
      <3>1. NoneAfter(mainQueue, 0, p) /\ ~Touches(b, p)
        BY <2>7, <2>9, NoneBefore
      <3>2. p # r
        BY <2>13, <3>1
      <3> QED
        BY <2>8, <2>12, <3>1, <3>2 DEF Labels, Settled
    <2>15. LastRemoval'
      <3> SUFFICES ASSUME NEW p \in Panes, NEW m \in DOMAIN mainQueue',
                          mainQueue'[m].kind = "remove", mainQueue'[m].pane = p,
                          NoneAfter(mainQueue', m, p)
                   PROVE  /\ mainQueue'[m].rest = paneStacks'[p]
                          /\ \A u \in WebViews : In(paneStacks'[p], u) =>
                               \/ u \in mainQueue'[m].known
                               \/ Queued(mainQueue', u, p) \/ Right(u, p)'
        BY DEF LastRemoval, Removal
      <3>1. CASE mainQueue'[m] = b
        <4>1. p = r
          BY <2>7, <3>1, NamesAssumption
        <4> QED
          BY <2>7, <2>8, <2>9, <2>11, <3>1, <4>1
      <3>2. CASE /\ m \in DOMAIN mainQueue /\ mainQueue'[m] = mainQueue[m]
                 /\ m \in Nat /\ m <= Len(mainQueue)
        <4>1. NoneAfter(mainQueue, m, p) /\ ~Touches(b, p)
          BY <2>7, <2>9, <3>2, NoneBefore
        <4>2. surface[p] = "alive"
          BY <3>2 DEF Labels, HoldsSurface, Removal
        <4>3. p # r
          BY <2>13, <4>1, <4>2
        <4>4. /\ mainQueue'[m].rest = paneStacks[p]
              /\ \A u \in WebViews : In(paneStacks[p], u) =>
                   \/ u \in mainQueue'[m].known
                   \/ Queued(mainQueue, u, p) \/ Right(u, p)
          BY <3>2, <4>1 DEF Labels, LastRemoval, Removal
        <4> QED
          BY <2>8, <2>9, <2>12, <4>3, <4>4
      <3> QED
        BY <2>10, <3>1, <3>2
    <2>16. LaterKnows'
      <3> SUFFICES ASSUME NEW j \in DOMAIN mainQueue', NEW m \in DOMAIN mainQueue',
                          j < m, mainQueue'[j].kind = "remove",
                          mainQueue'[m].kind = "remove", NEW p \in Panes,
                          mainQueue'[j].pane = p, mainQueue'[m].pane = p,
                          NEW u \in WebViews, u \in mainQueue'[j].known,
                          In(paneStacks'[p], u)
                   PROVE  u \in mainQueue'[m].known
        BY DEF LaterKnows, Removal
      <3>1. j \in DOMAIN mainQueue /\ mainQueue'[j] = mainQueue[j]
        BY <2>9, <2>10
      <3>2. In(paneStacks[p], u)
        BY <2>3, <2>8
      <3>3. CASE m \in DOMAIN mainQueue /\ mainQueue'[m] = mainQueue[m]
        BY <3>1, <3>2, <3>3 DEF Labels, LaterKnows, Removal
      <3>4. CASE mainQueue'[m] = b
        <4>1. p = r
          BY <2>7, <3>4, NamesAssumption
        <4>2. ~Queued(mainQueue, u, r)
          BY <3>1 DEF Labels, KnownThere, Removal
        <4> QED
          BY <2>8, <2>11, <3>4, <4>1, <4>2
      <3> QED
        BY <2>10, <3>3, <3>4
    <2>17. KnownThere'
      <3> SUFFICES ASSUME NEW m \in DOMAIN mainQueue', mainQueue'[m].kind = "remove",
                          NEW u \in WebViews, u \in mainQueue'[m].known
                   PROVE  /\ u \in used'
                          /\ \A p \in Panes : ~Queued(mainQueue', u, p)
                          /\ \A p \in Panes : webviewToPaneId'[u] = p =>
                               mainQueue'[m].pane = p \/ surface'[p] = "dead"
        BY DEF KnownThere, Removal
      <3>1. webviewToPaneId'[u] = webviewToPaneId[u] \/ webviewToPaneId'[u] = NoPane
        BY <1>1 DEF TypeOK
      <3>2. CASE m \in DOMAIN mainQueue /\ mainQueue'[m] = mainQueue[m]
        BY <1>1, <2>9, <3>1, <3>2, NamesAssumption DEF Labels, KnownThere, Removal
      <3>3. CASE mainQueue'[m] = b
        <4>1. u \in containers /\ In(rest, u) /\ In(paneStacks[r], u)
          BY <2>3, <2>7, <3>3
        <4>2. u \in used /\ \A p \in Panes : ~Queued(mainQueue, u, p)
          BY <4>1 DEF Tables
        <4>3. webviewToPaneId[u] = r
          BY <2>11, <4>1, <4>2
        <4>4. surface[r] # "unborn"
          BY <4>1 DEF Layout, NothingUnborn
        <4>5. b.pane = r \/ surface[r] = "dead"
          BY <2>7, <4>4 DEF TypeOK
        <4> QED
          BY <1>1, <2>9, <3>1, <3>3, <4>2, <4>3, <4>5, NamesAssumption
      <3> QED
        BY <2>10, <3>2, <3>3
    <2>18. HoldsSurface'
      <3>1. \A p \in Panes : b.pane = p => surface[p] = "alive"
        BY <2>7, NamesAssumption
      <3> QED
        BY <1>1, <2>10, <3>1 DEF Labels, HoldsSurface, Removal
    <2> QED
      BY <2>14, <2>15, <2>16, <2>17, <2>18 DEF Labels
  <1> QED
    BY <1>2, <1>3

\* A pane opens with no views, and dies when no removal holds it.
LEMMA PaneLabels ==
  ASSUME TypeOK, Tables, Layout, Labels, NEW r \in Panes, PaneOpens(r) \/ PaneDies(r)
  PROVE  Labels'
  <1>1. UNCHANGED <<webviewToPaneId, paneStacks, stackInfo, used, mainQueue>>
    BY DEF PaneOpens, PaneDies, tables
  <1>2. /\ \A p \in Panes : p # r => surface'[p] = surface[p]
        /\ \/ surface[r] = "unborn" /\ surface'[r] = "alive"
           \/ /\ surface'[r] = "dead"
              /\ \A i \in DOMAIN mainQueue : Removal(i) => mainQueue[i].pane # r
    BY DEF PaneOpens, PaneDies, TypeOK, Removal
  <1>3. \A u, p : Right(u, p)' <=> Right(u, p)
    BY <1>1 DEF Right
  <1>4. Settled'
    BY <1>1, <1>2, <1>3 DEF Labels, Settled, Layout, NothingUnborn
  <1>5. LastRemoval' /\ LaterKnows'
    BY <1>1, <1>3 DEF Labels, LastRemoval, LaterKnows, Removal
  <1>6. KnownThere'
    BY <1>1, <1>2 DEF Labels, KnownThere, Removal
  <1>7. HoldsSurface'
    BY <1>1, <1>2 DEF Labels, HoldsSurface, Removal
  <1> QED
    BY <1>4, <1>5, <1>6, <1>7 DEF Labels

\* The labels, and what waits to correct them, after every block and event.
THEOREM LabelsHold == Spec => []Labels
  <1>1. Init => Labels
    <2>1. \A v : ~In(<<>>, v)
      BY DEF In
    <2>2. ASSUME Init PROVE /\ \A p \in Panes : paneStacks[p] = <<>>
                            /\ \A i : i \notin DOMAIN mainQueue
      BY <2>2 DEF Init
    <2> QED
      BY <2>1, <2>2 DEF Labels, Settled, LastRemoval, LaterKnows, KnownThere,
                        HoldsSurface
  <1>2. TypeOK /\ Tables /\ Layout /\ Labels /\ [Next]_vars => Labels'
    <2> SUFFICES ASSUME TypeOK, Tables, Layout, Labels, [Next]_vars
                 PROVE  Labels'
      OBVIOUS
    <2>1. CASE HandleOpenRefused \/ HandleAnswerOnly
      BY <2>1, PopLabels DEF HandleOpenRefused, HandleAnswerOnly, tables, views
    <2>2. CASE HandleSync
      BY <2>2, QuietLabels DEF HandleSync, tables, views
    <2>3. CASE Forget
      BY <2>3, PopLabels DEF Forget, tables, views
    <2>4. ASSUME NEW p \in Panes, UserCloses(p) PROVE Labels'
      <3>1. subviews[p] \in Seq(WebViews) /\ subviews[p] # <<>>
        BY <2>4 DEF UserCloses, TypeOK
      <3>2. Top(subviews[p]) \in WebViews
        BY <3>1 DEF Top
      <3> QED
        BY <2>4, <3>2, CloseLabels, NamesAssumption DEF UserCloses
    <2>5. ASSUME NEW v \in WebViews, NEW code \in ExitCodes, PageExits(v, code)
          PROVE  Labels'
      BY <2>5, CloseLabels DEF PageExits
    <2>6. ASSUME NEW v \in WebViews, NEW m \in Messages, PageLogs(v, m)
          PROVE  Labels'
      BY <2>6, QuietLabels DEF PageLogs, tables, views
    <2>7. ASSUME NEW c \in Conns, Hangup(c) PROVE Labels'
      <3>1. [kind |-> "forget", conn |-> c] \in Blocks
        BY DEF Blocks
      <3> QED
        BY <2>7, <3>1, PushLabels DEF Hangup, tables, views
    <2>8. ASSUME NEW c \in Conns, NEW q \in Requests, Receive(c, q) PROVE Labels'
      <3>1. [kind |-> "handle", conn |-> c, req |-> q] \in Blocks
        BY DEF Blocks
      <3> QED
        BY <2>8, <3>1, PushLabels DEF Receive, tables, views
    <2>9. CASE UNCHANGED vars
      BY <2>9, QuietLabels DEF vars
    <2> QED
      BY <2>1, <2>2, <2>3, <2>4, <2>5, <2>6, <2>7, <2>8, <2>9, OpenLabels,
         CreateLabels, CreateFailsLabels, RemoveLabels, PaneLabels
         DEF Next, RunBlock, UserEvent
  <1> QED
    BY <1>1, <1>2, TypeCorrect, TablesHold, LayoutHolds, PTL DEF Spec

\* Once no block waits for a living pane, each of its views shows its place.
THEOREM LabelsSettleHolds == Spec => []LabelsSettle
  <1>1. TypeOK /\ Tables /\ Labels => LabelsSettle
    <2> SUFFICES ASSUME TypeOK, Tables, Labels, NEW p \in Panes, surface[p] = "alive",
                        \A i \in DOMAIN mainQueue :
                          mainQueue[i].kind \in {"create", "remove"} =>
                            mainQueue[i].pane # p,
                        NEW i \in DOMAIN paneStacks[p]
                 PROVE  stackInfo[paneStacks[p][i]]
                          = [pos |-> i, total |-> Len(paneStacks[p])]
      BY DEF LabelsSettle
    <2> DEFINE u == paneStacks[p][i]
    <2>1. u \in WebViews /\ In(paneStacks[p], u)
      BY DEF TypeOK, In
    <2>2. NoneAfter(mainQueue, 0, p)
      BY DEF NoneAfter, Touches
    <2> HIDE DEF u
    <2>3. PICK j \in DOMAIN paneStacks[p] :
            /\ paneStacks[p][j] = u
            /\ stackInfo[u] = [pos |-> j, total |-> Len(paneStacks[p])]
      BY <2>1, <2>2 DEF Labels, Settled, Right
    <2>4. i = j
      BY <2>3 DEF Tables, Distinct, u
    <2> QED
      BY <2>3, <2>4 DEF u
  <1> QED
    BY <1>1, TypeCorrect, TablesHold, LabelsHold, PTL

=============================================================================
