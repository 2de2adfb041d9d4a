----------------------- MODULE ProfileManager_proofs -----------------------
(***************************************************************************)
(* Proofs about ProfileManager: its types, for any number of apps; that    *)
(* one app shows what the file holds, unless it could not read it; and     *)
(* that every step of one app is a step of BookmarkStore, or none.         *)
(***************************************************************************)
EXTENDS ProfileManager, TLAPS

LEMMA BookIsFunction ==
  ASSUME NEW book \in Books
  PROVE  DOMAIN book \subseteq Names /\ book \in [DOMAIN book -> Bookmark]
BY DEF Books

LEMMA FunctionIsBook ==
  ASSUME NEW S \in SUBSET Names, NEW book \in [S -> Bookmark]
  PROVE  book \in Books
BY DEF Books

LEMMA EmptyIsBook == NoBookmarks \in Books
<1>1. NoBookmarks \in [{} -> Bookmark]
  BY DEF NoBookmarks
<1> QED
  BY <1>1, FunctionIsBook

\* A write that is not refused leaves a profile.
LEMMA EffectType ==
  ASSUME NEW r \in Requests, Writes(r), NEW book \in Books, ~Refuses(r, book)
  PROVE  Effect(r, book) \in Books
<1>1. r \in AnyRequest /\ r.name \in Names
  BY RequestsAssumption DEF AnyRequest
<1>2. DOMAIN book \subseteq Names /\ book \in [DOMAIN book -> Bookmark]
  BY BookIsFunction
<1>3. ASSUME NEW b \in Bookmark PROVE Put(book, r.name, b) \in Books
  <2>1. Put(book, r.name, b) \in [DOMAIN book \cup {r.name} -> Bookmark]
    BY <1>1, <1>2, <1>3 DEF Put
  <2> QED
    BY <1>1, <1>2, <2>1, FunctionIsBook
<1>4. CASE r.op = "add"
  <2>1. NewBookmark(r) \in Bookmark
    BY <1>1, <1>4 DEF NewBookmark, Bookmark, Refuses, Malformed, AnyRequest
  <2> QED
    BY <1>3, <1>4, <2>1 DEF Effect
<1>5. CASE r.op = "update"
  <2>1. book[r.name] \in Bookmark
    BY <1>2, <1>5 DEF Refuses
  <2>2. Amended(book[r.name], r) \in Bookmark
    BY <1>1, <2>1 DEF Amended, Bookmark, AnyRequest
  <2> QED
    BY <1>3, <1>5, <2>2 DEF Effect
<1>6. CASE r.op = "delete"
  <2>1. Without(book, r.name) \in [DOMAIN book \ {r.name} -> Bookmark]
    BY <1>2 DEF Without
  <2>2. Without(book, r.name) \in Books
    BY <1>2, <2>1, FunctionIsBook
  <2> QED
    BY <1>6, <2>2 DEF Effect
<1> QED
  BY <1>4, <1>5, <1>6 DEF Writes

\* What a caller is answered.
LEMMA AnswerTypes ==
  /\ Silence \in Answers /\ Done \in Answers
  /\ Error \in Answers /\ Failed \in Answers
BY EmptyIsBook DEF Silence, Done, Error, Failed, Answers

LEMMA ReplyType ==
  ASSUME NEW r \in Requests, NEW book \in Books
  PROVE  Reply(r, book) \in Answers
<1>1. r \in AnyRequest /\ r.name \in Names
  BY RequestsAssumption DEF AnyRequest
<1>2. DOMAIN book \subseteq Names /\ book \in [DOMAIN book -> Bookmark]
  BY BookIsFunction
<1>3. CASE ~Refuses(r, book) /\ r.op \in {"get", "list"}
  <2> DEFINE S == IF r.op = "list" THEN DOMAIN book ELSE {r.name}
  <2>1. S \subseteq DOMAIN book
    BY <1>3 DEF Refuses
  <2>2. [n \in S |-> book[n]] \in [S -> Bookmark]
    BY <1>2, <2>1
  <2>3. [n \in S |-> book[n]] \in Books
    BY <1>2, <2>1, <2>2, FunctionIsBook
  <2>4. Shown(r, book) = [kind |-> "ok", book |-> [n \in S |-> book[n]]]
    BY DEF Shown
  <2> QED
    BY <1>3, <2>3, <2>4 DEF Reply, Answers
<1> QED
  BY <1>3, AnswerTypes DEF Reply

-----------------------------------------------------------------------------
(* TypeOK is inductive.                                                    *)

\* The file and what is loaded from it.
LEMMA CurrentType ==
  ASSUME TypeOK, NEW a \in Apps
  PROVE  file.book \in Books /\ Current(a) \subseteq Books
<1>1. file.book \in Books
  BY EmptyIsBook DEF TypeOK, Absent, Empty, Torn, Profile
<1>2. cache[a].book \in Books
  BY EmptyIsBook DEF TypeOK, NotLoaded, Blind, Loaded, Cached
<1> QED
  BY <1>1, <1>2, EmptyIsBook DEF Current

\* The head of a queue is a caller.
LEMMA HeadType ==
  ASSUME TypeOK, NEW a \in Apps, queue[a] # <<>>
  PROVE  /\ CallerOf(a) \in Callers
         /\ Tail(queue[a]) \in Seq(Callers)
         /\ RequestOf(a) \in Requests \cup {Nothing}
<1>1. queue[a] \in Seq(Callers) /\ queue[a] # <<>>
  BY DEF TypeOK
<1>2. CallerOf(a) \in Callers /\ Tail(queue[a]) \in Seq(Callers)
  BY <1>1 DEF CallerOf
<1> QED
  BY <1>2 DEF TypeOK, RequestOf

LEMMA LeaveType ==
  ASSUME TypeOK, NEW a \in Apps, queue[a] # <<>>, NEW x \in Answers,
         Leave(a, x)
  PROVE  /\ queue' \in [Apps -> Seq(Callers)]
         /\ \A b \in Apps \ {a} : queue'[b] = queue[b]
         /\ request' \in [Callers -> Requests \cup {Nothing}]
         /\ answer' \in [Callers -> Answers]
BY HeadType DEF Leave, TypeOK

LEMMA BeginType ==
  ASSUME TypeOK, NEW a \in Apps, NEW book, Begin(a, book)
  PROVE  /\ cache' \in [Apps -> {NotLoaded, Blind} \cup {Loaded(b) : b \in Books}]
         /\ cache'[a].loaded /\ cache'[a].book = book /\ book \in Books
         /\ cache'[a] = Blind \/ cache[a].loaded \/ book = file.book
         /\ cache[a].loaded => cache' = cache
         /\ \A b \in Apps \ {a} : cache'[b] = cache[b]
         /\ \A b \in Apps : cache[b].loaded => cache'[b].loaded
         /\ queue[a] # <<>> /\ save[a] = "none"
<1>1. queue[a] # <<>> /\ save[a] = "none" /\ book \in Current(a) /\ book \in Books
  BY CurrentType DEF Begin, Ready
<1>2. CASE cache[a].loaded
  BY <1>1, <1>2 DEF Begin, TypeOK, Current
<1>3. CASE ~cache[a].loaded
  <2> DEFINE x == Cached(book, book # file.book)
  <2>1. /\ cache' = [cache EXCEPT ![a] = x]
        /\ cache \in [Apps -> {NotLoaded, Blind} \cup {Loaded(b) : b \in Books}]
    BY <1>3 DEF Begin, TypeOK
  <2>2. x.loaded /\ x.book = book
    BY DEF Cached
  <2>3. (x = Loaded(book) /\ book = file.book) \/ x = Blind
    BY <1>1, <1>3 DEF Current, Blind, Loaded
  <2>4. x \in {NotLoaded, Blind} \cup {Loaded(b) : b \in Books}
    BY <1>1, <2>3
  <2> HIDE DEF x
  <2>5. /\ cache'[a] = x /\ \A b \in Apps \ {a} : cache'[b] = cache[b]
        /\ cache' \in [Apps -> {NotLoaded, Blind} \cup {Loaded(b) : b \in Books}]
    BY <2>1, <2>4
  <2> QED
    BY <1>1, <1>3, <2>2, <2>3, <2>5
<1> QED
  BY <1>2, <1>3

LEMMA WrittenType ==
  ASSUME TypeOK, NEW a \in Apps
  PROVE  Written(a) \subseteq {Absent, Empty, Torn} \cup {Profile(b) : b \in Books}
BY DEF TypeOK, Written

LEMMA TypeInit ==
  Init => TypeOK
BY EmptyIsBook, AnswerTypes DEF Init, TypeOK

LEMMA TypeStep ==
  TypeOK /\ [Next]_vars => TypeOK'
<1> SUFFICES ASSUME TypeOK, [Next]_vars PROVE TypeOK'
  OBVIOUS
<1> USE AnswerTypes
<1>1. ASSUME NEW c \in Callers, NEW r \in Requests, Ask(c, r) PROVE TypeOK'
  <2>1. AppOf[c] \in Apps /\ queue[AppOf[c]] \in Seq(Callers)
    BY AppOfAssumption DEF TypeOK
  <2>2. /\ request' \in [Callers -> Requests \cup {Nothing}]
        /\ answer' \in [Callers -> Answers]
    BY <1>1 DEF Ask, TypeOK
  <2>3. Append(queue[AppOf[c]], c) \in Seq(Callers)
          /\ Append(queue[AppOf[c]], c) # <<>>
    <3> DEFINE q == queue[AppOf[c]]
    <3>1. q \in Seq(Callers)
      BY <2>1
    <3> HIDE DEF q
    <3>2. Append(q, c) \in Seq(Callers) /\ Len(Append(q, c)) = Len(q) + 1
            /\ Len(q) \in Nat
      BY <3>1
    <3>3. Append(q, c) # <<>>
      BY <3>2
    <3> QED
      BY <3>2, <3>3 DEF q
  <2>4. queue' \in [Apps -> Seq(Callers)]
          /\ \A a \in Apps : queue[a] # <<>> => queue'[a] # <<>>
    BY <1>1, <2>1, <2>3 DEF Ask, TypeOK
  <2> QED
    BY <1>1, <2>2, <2>4 DEF Ask, TypeOK
<1>2. ASSUME NEW a \in Apps, Replies(a) PROVE TypeOK'
  <2>1. PICK book \in Current(a) : Begin(a, book) /\ Leave(a, Reply(RequestOf(a), book))
    BY <1>2 DEF Replies
  <2>2. RequestOf(a) \in Requests
    BY <1>2, HeadType DEF Replies, Begin, Ready, Nothing, Refuses, Malformed
  <2>3. Reply(RequestOf(a), book) \in Answers
    BY <2>1, <2>2, BeginType, ReplyType
  <2> QED
    BY <1>2, <2>1, <2>3, BeginType, LeaveType DEF Replies, TypeOK
<1>3. ASSUME NEW a \in Apps, StartsSave(a) PROVE TypeOK'
  <2>1. PICK book \in Current(a) :
          /\ Begin(a, book) /\ Writes(RequestOf(a)) /\ ~Refuses(RequestOf(a), book)
          /\ Saves(a, Effect(RequestOf(a), book))
    BY <1>3 DEF StartsSave, Changes
  <2>2. queue[a] # <<>> /\ RequestOf(a) \in Requests
    BY <2>1, HeadType DEF Begin, Ready, Nothing, Writes
  <2>3. Effect(RequestOf(a), book) \in Books
    BY <2>1, <2>2, BeginType, EffectType
  <2> QED
    BY <2>1, <2>2, <2>3, BeginType DEF Saves, TypeOK
<1>4. ASSUME NEW a \in Apps, FindsProfile(a) PROVE TypeOK'
  <2>1. PICK book : Begin(a, book) /\ Leave(a, Done)
    BY <1>4 DEF FindsProfile
  <2>2. file' = file /\ save' = save /\ pending' = pending
    BY <1>4 DEF FindsProfile
  <2>3. /\ queue' \in [Apps -> Seq(Callers)]
        /\ \A b \in Apps \ {a} : queue'[b] = queue[b]
    BY <2>1, LeaveType, BeginType
  <2> QED
    BY <2>1, <2>2, <2>3, BeginType, LeaveType DEF TypeOK
<1>5. ASSUME NEW a \in Apps, CreatesProfile(a) PROVE TypeOK'
  <2>1. Begin(a, NoBookmarks) /\ Saves(a, NoBookmarks)
    BY <1>5 DEF CreatesProfile
  <2> QED
    BY <2>1, BeginType, EmptyIsBook DEF Saves, TypeOK
<1>6. ASSUME NEW a \in Apps, OpensFile(a) PROVE TypeOK'
  BY <1>6 DEF OpensFile, TypeOK
<1>7. ASSUME NEW a \in Apps, WritesFile(a) PROVE TypeOK'
  <2>1. queue[a] # <<>> /\ Leave(a, Done)
    BY <1>7 DEF WritesFile, TypeOK
  <2>2. file' \in {Absent, Empty, Torn} \cup {Profile(b) : b \in Books}
    BY <1>7, WrittenType DEF WritesFile
  <2> QED
    BY <1>7, <2>1, <2>2, LeaveType DEF WritesFile, TypeOK, Loaded
<1>8. ASSUME NEW a \in Apps, SaveFails(a) PROVE TypeOK'
  <2> DEFINE x == IF RequestOf(a).op = "ensure" THEN Done ELSE Failed
  <2>1. queue[a] # <<>> /\ Leave(a, x) /\ x \in Answers
    BY <1>8 DEF SaveFails, TypeOK
  <2>2. file' \in {Absent, Empty, Torn} \cup {Profile(b) : b \in Books}
    BY <1>8 DEF SaveFails, TypeOK
  <2> HIDE DEF x
  <2> QED
    BY <1>8, <2>1, <2>2, LeaveType DEF SaveFails, TypeOK
<1>9. ASSUME NEW a \in Apps, Restarts(a) PROVE TypeOK'
  <2>1. file' \in {Absent, Empty, Torn} \cup {Profile(b) : b \in Books}
    BY <1>9, WrittenType DEF Restarts, TypeOK
  <2> QED
    BY <1>9, <2>1 DEF Restarts, TypeOK
<1>10. ASSUME NEW a \in Apps, Rejects(a) PROVE TypeOK'
  <2>1. queue[a] # <<>> /\ save[a] = "none" /\ Leave(a, Error)
    BY <1>10 DEF Rejects, Ready
  <2> QED
    BY <1>10, <2>1, LeaveType DEF Rejects, TypeOK
<1>11. CASE UNCHANGED vars
  BY <1>11 DEF vars, TypeOK
<1> QED
  BY <1>1, <1>2, <1>3, <1>4, <1>5, <1>6, <1>7, <1>8, <1>9, <1>10, <1>11
  DEF Next, Runs

\* The file, the caches and the queues have their types: a save is under way
\* only for a caller at the head of a queue, over a loaded profile.
THEOREM TypeCorrect == Spec => []TypeOK
<1> QED
  BY TypeInit, TypeStep, PTL DEF Spec

-----------------------------------------------------------------------------
(* One app: what it shows and what the file holds.                         *)

\* Between two saves, and until a save truncates the file, the cache is what
\* the file holds, or the app is blind; after that the file is empty and the
\* app's own.
InStep ==
  \A a \in Apps :
    /\ cache[a].loaded /\ save[a] # "write" /\ file.kind \in {"profile", "absent"}
         => file.book = cache[a].book \/ cache[a] = Blind
    /\ save[a] = "write" => file = Empty

LEMMA InStepStep ==
  ASSUME OneApp
  PROVE  TypeOK /\ InStep /\ [Next]_vars => InStep'
<1> SUFFICES ASSUME TypeOK, InStep, [Next]_vars PROVE InStep'
  OBVIOUS
<1>0. \A a, b \in Apps : a = b
  BY DEF OneApp
<1>1. ASSUME NEW c \in Callers, NEW r \in Requests, Ask(c, r) PROVE InStep'
  BY <1>1 DEF Ask, InStep
<1>2. ASSUME NEW a \in Apps, NEW book, Begin(a, book), UNCHANGED file,
             save'[a] \in {"none", "open"}
      PROVE  InStep'
  BY <1>0, <1>2, BeginType DEF InStep
<1>3. ASSUME NEW a \in Apps, OpensFile(a) PROVE InStep'
  BY <1>0, <1>3 DEF OpensFile, InStep, TypeOK, Empty
<1>4. ASSUME NEW a \in Apps, WritesFile(a) PROVE InStep'
  <2>1. file' \in {Profile(pending[a]), Torn}
    BY <1>4 DEF WritesFile, Written
  <2>2. cache'[a] = Loaded(pending[a]) /\ save'[a] = "none"
    BY <1>4 DEF WritesFile, TypeOK
  <2> QED
    BY <1>0, <2>1, <2>2 DEF InStep, Profile, Torn, Loaded, Cached
<1>5. ASSUME NEW a \in Apps, SaveFails(a) PROVE InStep'
  <2>1. save'[a] = "none" /\ cache' = cache
    BY <1>5 DEF SaveFails, TypeOK
  <2>2. CASE save[a] = "open" /\ UNCHANGED file
    BY <1>0, <2>1, <2>2 DEF InStep
  <2>3. CASE save[a] = "write" /\ file' \in {file, Torn}
    BY <1>0, <2>1, <2>3 DEF InStep, Empty, Torn
  <2> QED
    BY <1>5, <2>2, <2>3 DEF SaveFails
<1>6. ASSUME NEW a \in Apps, Restarts(a) PROVE InStep'
  BY <1>0, <1>6 DEF Restarts, InStep, TypeOK, NotLoaded
<1>7. CASE UNCHANGED vars
  BY <1>7 DEF vars, InStep
<1>8. ASSUME NEW a \in Apps,
             Replies(a) \/ StartsSave(a) \/ FindsProfile(a) \/ CreatesProfile(a)
      PROVE  InStep'
  <2>1. /\ \E book : Begin(a, book)
        /\ UNCHANGED file
        /\ save' = save \/ save' = [save EXCEPT ![a] = "open"]
    BY <1>8 DEF Replies, StartsSave, FindsProfile, CreatesProfile, Changes, Saves
  <2>2. save'[a] \in {"none", "open"}
    BY <2>1 DEF Begin, Ready, TypeOK
  <2> QED
    BY <1>2, <2>1, <2>2
<1>9. ASSUME NEW a \in Apps, Rejects(a) PROVE InStep'
  BY <1>9 DEF Rejects, InStep
<1> QED
  BY <1>1, <1>3, <1>4, <1>5, <1>6, <1>7, <1>8, <1>9 DEF Next, Runs

\* With one app, the bookmarks it shows between two saves are those of the
\* file, unless its last save broke the file: it may quit and lose nothing.
\* The one other way is that it could not read the file, shows no bookmarks,
\* and has saved nothing since; any other state of the cache is in the file.
THEOREM DurableHolds ==
  ASSUME OneApp
  PROVE  Spec => []Durable
<1>1. Init => InStep
  BY DEF Init, InStep, NotLoaded
<1>2. InStep => Durable
  BY DEF InStep, Durable
<1> QED
  BY <1>1, <1>2, TypeInit, TypeStep, InStepStep, PTL DEF Spec
-----------------------------------------------------------------------------
(* The steps of one app as steps of BookmarkStore.                         *)

\* Who waits in a queue asked something of that app, and waits once.
Waiting ==
  \A a \in Apps : \A i \in DOMAIN queue[a] :
    /\ AppOf[queue[a][i]] = a /\ request[queue[a][i]] # Nothing
    /\ \A j \in DOMAIN queue[a] : queue[a][i] = queue[a][j] => i = j

\* What is being saved is what the request at the head makes of the cache.
Saving ==
  \A a \in Apps : save[a] # "none" =>
    \/ /\ Writes(RequestOf(a)) /\ ~Refuses(RequestOf(a), cache[a].book)
       /\ pending[a] = Effect(RequestOf(a), cache[a].book)
    \/ /\ RequestOf(a).op = "ensure"
       /\ pending[a] = NoBookmarks /\ cache[a].book = NoBookmarks

\* The head of a queue, and what is behind it.
LEMMA HeadAndTail ==
  ASSUME NEW S, NEW q \in Seq(S), q # <<>>
  PROVE  /\ Head(q) = q[1] /\ 1 \in DOMAIN q /\ Tail(q) \in Seq(S)
         /\ \A i \in DOMAIN Tail(q) :
              i + 1 \in DOMAIN q /\ Tail(q)[i] = q[i + 1] /\ i + 1 # 1
         /\ DOMAIN Tail(q) \subseteq Nat
OBVIOUS

\* A caller that joins a queue is behind the others.
LEMMA Joined ==
  ASSUME NEW S, NEW q \in Seq(S), NEW c \in S
  PROVE  /\ \A i \in DOMAIN Append(q, c) :
              \/ i \in DOMAIN q /\ Append(q, c)[i] = q[i]
              \/ i = Len(q) + 1 /\ Append(q, c)[i] = c
         /\ q # <<>> => Head(Append(q, c)) = Head(q)
         /\ Len(q) + 1 \notin DOMAIN q
OBVIOUS

\* The caller at the head asked something.
LEMMA HeadWaits ==
  ASSUME TypeOK, Waiting, NEW a \in Apps, queue[a] # <<>>
  PROVE  /\ RequestOf(a) \in Requests /\ CallerOf(a) \in Callers
         /\ request[CallerOf(a)] # Nothing /\ AppOf[CallerOf(a)] = a
<1>1. CallerOf(a) = queue[a][1] /\ 1 \in DOMAIN queue[a]
  BY HeadAndTail DEF TypeOK, CallerOf
<1> QED
  BY <1>1, HeadType DEF Waiting, RequestOf

\* Whoever leaves was at the head of his queue and is in none now.
LEMMA LeaveWaits ==
  ASSUME TypeOK, Waiting, NEW a \in Apps, queue[a] # <<>>, NEW x, Leave(a, x)
  PROVE  /\ Waiting'
         /\ \A b \in Apps \ {a} : queue[b] # <<>> =>
              queue'[b] = queue[b] /\ RequestOf(b)' = RequestOf(b)
<1>1. /\ queue[a] \in Seq(Callers) /\ queue \in [Apps -> Seq(Callers)]
      /\ request \in [Callers -> Requests \cup {Nothing}]
  BY DEF TypeOK
<1>2. CallerOf(a) = queue[a][1] /\ 1 \in DOMAIN queue[a] /\ AppOf[CallerOf(a)] = a
  BY <1>1, HeadAndTail, HeadWaits DEF CallerOf
<1>3. /\ queue'[a] = Tail(queue[a])
      /\ \A b \in Apps \ {a} : queue'[b] = queue[b]
      /\ \A c \in Callers : c # CallerOf(a) => request'[c] = request[c]
  BY <1>1 DEF Leave
<1>4. \A i \in DOMAIN queue'[a] :
        /\ i + 1 \in DOMAIN queue[a] /\ queue'[a][i] = queue[a][i + 1]
        /\ i + 1 # 1 /\ i \in Nat
  BY <1>1, <1>3, HeadAndTail
<1>5. \A b \in Apps : \A i \in DOMAIN queue'[b] :
        /\ queue'[b][i] \in Callers
        /\ AppOf[queue'[b][i]] = b
        /\ queue'[b][i] # CallerOf(a)
        /\ request[queue'[b][i]] # Nothing
  <2> TAKE b \in Apps
  <2> TAKE i \in DOMAIN queue'[b]
  <2>1. CASE b = a
    <3>1. queue[a][i + 1] # queue[a][1] /\ queue[a][i + 1] \in Callers
      BY <1>1, <1>2, <1>4, <2>1 DEF Waiting
    <3> QED
      BY <1>2, <1>4, <2>1, <3>1 DEF Waiting
  <2>2. CASE b # a
    <3>1. queue'[b] = queue[b] /\ queue[b] \in Seq(Callers)
      BY <1>1, <1>3, <2>2
    <3> QED
      BY <1>2, <2>2, <3>1 DEF Waiting
  <2> QED
    BY <2>1, <2>2
<1>6. \A b \in Apps : \A i, j \in DOMAIN queue'[b] :
        queue'[b][i] = queue'[b][j] => i = j
  <2> TAKE b \in Apps
  <2>1. CASE b = a
    <3> TAKE i, j \in DOMAIN queue'[b]
    <3>1. queue[a][i + 1] = queue[a][j + 1] => i + 1 = j + 1
      BY <1>4, <2>1 DEF Waiting
    <3> QED
      BY <1>4, <2>1, <3>1
  <2>2. CASE b # a
    BY <1>3, <2>2 DEF Waiting
  <2> QED
    BY <2>1, <2>2
<1>7. Waiting'
  BY <1>3, <1>5, <1>6 DEF Waiting
<1>8. ASSUME NEW b \in Apps \ {a}, queue[b] # <<>>
      PROVE  queue'[b] = queue[b] /\ RequestOf(b)' = RequestOf(b)
  <2>1. /\ queue'[b] = queue[b] /\ CallerOf(b) = queue[b][1]
        /\ 1 \in DOMAIN queue[b] /\ queue[b] \in Seq(Callers)
    BY <1>1, <1>3, <1>8, HeadAndTail DEF CallerOf
  <2>2. CallerOf(b) # CallerOf(a) /\ CallerOf(b) \in Callers
    BY <1>5, <2>1
  <2> QED
    BY <1>3, <2>1, <2>2 DEF RequestOf, CallerOf
<1> QED
  BY <1>7, <1>8

\* The queues and saves of the apps, step by step.
LEMMA ServedStep ==
  TypeOK /\ Waiting /\ Saving /\ [Next]_vars => Waiting' /\ Saving'
<1> SUFFICES ASSUME TypeOK, Waiting, Saving, [Next]_vars PROVE Waiting' /\ Saving'
  OBVIOUS
<1>0. /\ queue \in [Apps -> Seq(Callers)] /\ save \in [Apps -> {"none", "open", "write"}]
      /\ request \in [Callers -> Requests \cup {Nothing}] /\ pending \in [Apps -> Books]
      /\ \A a \in Apps : save[a] # "none" => queue[a] # <<>> /\ cache[a].loaded
  BY DEF TypeOK
<1>1. ASSUME NEW c \in Callers, NEW r \in Requests, Ask(c, r)
      PROVE  Waiting' /\ Saving'
  <2>1. /\ request[c] = Nothing /\ AppOf[c] \in Apps
        /\ queue' = [queue EXCEPT ![AppOf[c]] = Append(@, c)]
        /\ request'[c] = r /\ \A d \in Callers \ {c} : request'[d] = request[d]
        /\ UNCHANGED <<cache, save, pending>>
    BY <1>0, <1>1, AppOfAssumption DEF Ask
  <2>2. r # Nothing
    BY RequestsAssumption DEF AnyRequest, Nothing
  <2>3. \A a \in Apps : \A i \in DOMAIN queue[a] : queue[a][i] # c /\ queue[a][i] \in Callers
    BY <1>0, <2>1 DEF Waiting
  <2>4. Waiting'
    <3> SUFFICES ASSUME NEW a \in Apps
                 PROVE  \A i \in DOMAIN queue'[a] :
                          /\ AppOf[queue'[a][i]] = a /\ request'[queue'[a][i]] # Nothing
                          /\ \A j \in DOMAIN queue'[a] :
                               queue'[a][i] = queue'[a][j] => i = j
      BY DEF Waiting
    <3>1. CASE a = AppOf[c]
      <4>1. queue'[a] = Append(queue[a], c)
        BY <1>0, <2>1, <3>1
      <4>2. \A i \in DOMAIN queue'[a] :
              \/ i \in DOMAIN queue[a] /\ queue'[a][i] = queue[a][i]
              \/ i = Len(queue[a]) + 1 /\ queue'[a][i] = c
        BY <1>0, <4>1, Joined
      <4> QED
        BY <2>1, <2>2, <2>3, <3>1, <4>2 DEF Waiting
    <3>2. CASE a # AppOf[c]
      <4>1. queue'[a] = queue[a]
        BY <1>0, <2>1, <3>2
      <4>2. \A i \in DOMAIN queue[a] : request'[queue[a][i]] = request[queue[a][i]]
        BY <2>1, <2>3
      <4> QED
        BY <4>1, <4>2 DEF Waiting
    <3> QED
      BY <3>1, <3>2
  <2>5. Saving'
    <3> SUFFICES ASSUME NEW a \in Apps, save[a] # "none"
                 PROVE  RequestOf(a)' = RequestOf(a)
      BY <2>1 DEF Saving
    <3>1. queue[a] # <<>> /\ queue[a] \in Seq(Callers)
      BY <1>0
    <3>2. Head(queue'[a]) = Head(queue[a])
      <4>1. queue'[a] = queue[a] \/ queue'[a] = Append(queue[a], c)
        BY <1>0, <2>1
      <4> QED
        BY <3>1, <4>1, Joined
    <3>3. Head(queue[a]) \in Callers \ {c}
      BY <2>3, <3>1, HeadAndTail
    <3> QED
      BY <2>1, <3>2, <3>3 DEF RequestOf, CallerOf
  <2> QED
    BY <2>4, <2>5
<1>2. ASSUME NEW a \in Apps, NEW x, queue[a] # <<>>, Leave(a, x),
             save'[a] = "none",
             \A b \in Apps \ {a} : /\ save'[b] = save[b] /\ pending'[b] = pending[b]
                                   /\ cache'[b] = cache[b]
      PROVE  Waiting' /\ Saving'
  <2>1. Waiting' /\ \A b \in Apps \ {a} : queue[b] # <<>> =>
                       queue'[b] = queue[b] /\ RequestOf(b)' = RequestOf(b)
    BY <1>2, LeaveWaits
  <2>2. Saving'
    <3> SUFFICES ASSUME NEW b \in Apps, save'[b] # "none"
                 PROVE  b # a /\ queue[b] # <<>> /\ save[b] # "none"
      BY <1>2, <2>1 DEF Saving
    <3> QED
      BY <1>0, <1>2
  <2> QED
    BY <2>1, <2>2
<1>3. ASSUME NEW a \in Apps, NEW book, Begin(a, book), NEW new, Saves(a, new),
             \/ /\ Writes(RequestOf(a)) /\ ~Refuses(RequestOf(a), book)
                /\ new = Effect(RequestOf(a), book)
             \/ RequestOf(a).op = "ensure" /\ new = NoBookmarks /\ book = NoBookmarks
      PROVE  Waiting' /\ Saving'
  <2>1. Waiting'
    BY <1>3 DEF Saves, Waiting
  <2>2. /\ \A b \in Apps : RequestOf(b)' = RequestOf(b)
        /\ cache'[a].book = book /\ \A b \in Apps \ {a} : cache'[b] = cache[b]
        /\ pending'[a] = new
        /\ \A b \in Apps \ {a} : pending'[b] = pending[b] /\ save'[b] = save[b]
    BY <1>0, <1>3, BeginType DEF Saves, RequestOf, CallerOf
  <2>3. Saving'
    <3> SUFFICES ASSUME NEW b \in Apps, save'[b] # "none"
                 PROVE  \/ /\ Writes(RequestOf(b)) /\ ~Refuses(RequestOf(b), cache'[b].book)
                           /\ pending'[b] = Effect(RequestOf(b), cache'[b].book)
                        \/ /\ RequestOf(b).op = "ensure"
                           /\ pending'[b] = NoBookmarks /\ cache'[b].book = NoBookmarks
      BY <2>2 DEF Saving
    <3>1. CASE b = a
      BY <1>3, <2>2, <3>1
    <3>2. CASE b # a
      BY <2>2, <3>2 DEF Saving
    <3> QED
      BY <3>1, <3>2
  <2> QED
    BY <2>1, <2>3
<1>4. ASSUME NEW a \in Apps, Rejects(a) PROVE Waiting' /\ Saving'
  BY <1>2, <1>4 DEF Rejects, Ready
<1>5. ASSUME NEW a \in Apps, Replies(a) \/ FindsProfile(a) PROVE Waiting' /\ Saving'
  <2>1. /\ save' = save /\ pending' = pending
        /\ \E book : Begin(a, book)
        /\ \E x : Leave(a, x)
    BY <1>5 DEF Replies, FindsProfile
  <2> QED
    BY <1>2, <2>1, BeginType
<1>6. ASSUME NEW a \in Apps, StartsSave(a) PROVE Waiting' /\ Saving'
  <2>1. PICK book \in Current(a) :
          /\ Begin(a, book) /\ Writes(RequestOf(a)) /\ ~Refuses(RequestOf(a), book)
          /\ Saves(a, Effect(RequestOf(a), book))
    BY <1>6 DEF StartsSave, Changes
  <2> QED
    BY <1>3, <2>1
<1>7. ASSUME NEW a \in Apps, CreatesProfile(a) PROVE Waiting' /\ Saving'
  BY <1>3, <1>7 DEF CreatesProfile
<1>8. ASSUME NEW a \in Apps, OpensFile(a) PROVE Waiting' /\ Saving'
  <2>1. /\ UNCHANGED <<cache, queue, pending, request>>
        /\ save[a] = "open" /\ \A b \in Apps : b # a => save'[b] = save[b]
    BY <1>0, <1>8 DEF OpensFile
  <2>2. \A b \in Apps : RequestOf(b)' = RequestOf(b)
    BY <2>1 DEF RequestOf, CallerOf
  <2> QED
    BY <2>1, <2>2 DEF Waiting, Saving
<1>9. ASSUME NEW a \in Apps, WritesFile(a) \/ SaveFails(a) PROVE Waiting' /\ Saving'
  <2>1. /\ save[a] # "none" /\ save' = [save EXCEPT ![a] = "none"] /\ pending' = pending
        /\ \E x : Leave(a, x)
        /\ cache' = [cache EXCEPT ![a] = Loaded(pending[a])] \/ cache' = cache
    BY <1>9 DEF WritesFile, SaveFails
  <2> QED
    BY <1>0, <1>2, <2>1 DEF TypeOK
<1>10. ASSUME NEW a \in Apps, Restarts(a) PROVE Waiting' /\ Saving'
  <2>1. /\ queue'[a] = <<>> /\ save'[a] = "none"
        /\ \A b \in Apps \ {a} :
             queue'[b] = queue[b] /\ save'[b] = save[b] /\ cache'[b] = cache[b]
        /\ pending' = pending
        /\ \A c \in Callers : AppOf[c] # a => request'[c] = request[c]
    BY <1>0, <1>10 DEF Restarts, TypeOK
  <2>2. \A b \in Apps : \A i \in DOMAIN queue[b] :
          queue[b][i] \in Callers /\ AppOf[queue[b][i]] = b
    BY <1>0 DEF Waiting
  <2>3. Waiting'
    <3> SUFFICES ASSUME NEW b \in Apps
                 PROVE  \A i \in DOMAIN queue'[b] :
                          /\ AppOf[queue'[b][i]] = b /\ request'[queue'[b][i]] # Nothing
                          /\ \A j \in DOMAIN queue'[b] :
                               queue'[b][i] = queue'[b][j] => i = j
      BY DEF Waiting
    <3>1. CASE b = a
      BY <2>1, <3>1
    <3>2. CASE b # a
      BY <2>1, <2>2, <3>2 DEF Waiting
    <3> QED
      BY <3>1, <3>2
  <2>4. Saving'
    <3> SUFFICES ASSUME NEW b \in Apps, save'[b] # "none"
                 PROVE  b # a /\ save[b] # "none" /\ RequestOf(b)' = RequestOf(b)
      BY <2>1 DEF Saving
    <3>1. b # a /\ save[b] # "none" /\ queue[b] # <<>> /\ queue[b] \in Seq(Callers)
      BY <1>0, <2>1
    <3>2. CallerOf(b) \in Callers /\ AppOf[CallerOf(b)] = b
      BY <3>1, HeadWaits
    <3> QED
      BY <2>1, <3>1, <3>2 DEF RequestOf, CallerOf
  <2> QED
    BY <2>3, <2>4
<1>11. CASE UNCHANGED vars
  BY <1>11 DEF vars, Waiting, Saving, RequestOf, CallerOf
<1> QED
  BY <1>1, <1>4, <1>5, <1>6, <1>7, <1>8, <1>9, <1>10, <1>11 DEF Next, Runs
-----------------------------------------------------------------------------
(* With one app, what it shows and what the file holds are those of the    *)
(* store.                                                                  *)

\* The promise without its liveness.
StoreSteps == Store!StoreInit /\ [][Store!StoreNext]_(Store!storeVars)

\* The one app.
LEMMA TheApp ==
  ASSUME OneApp, Apps # {}
  PROVE  ItsApp \in Apps /\ \A a \in Apps : a = ItsApp
BY DEF OneApp, ItsApp

\* BookmarkStore and ProfileManager mean the same by what they share.
LEMMA SameWords ==
  /\ Store!Nothing = Nothing /\ Store!Silence = Silence /\ Store!Failed = Failed
  /\ Store!NoBookmarks = NoBookmarks
  /\ Store!Error = Error
  /\ \A r : Store!Writes(r) <=> Writes(r)
  /\ \A r : Store!Malformed(r) <=> Malformed(r)
  /\ \A r, book : Store!Changes(r, book) <=> Writes(r) /\ ~Refuses(r, book)
  /\ \A r, book : Store!Reply(r, book) = Reply(r, book)
  /\ \A r, book : Store!Effect(r, book) = Effect(r, book)
<1>1. /\ Store!NoBookmarks = NoBookmarks /\ Store!Nothing = Nothing
      /\ Store!Omitted = Omitted
  BY DEF Store!NoBookmarks, NoBookmarks, Store!Nothing, Nothing,
         Store!Omitted, Omitted
<1>2. /\ Store!Silence = Silence /\ Store!Failed = Failed
      /\ Store!Done = Done /\ Store!Error = Error
  BY <1>1 DEF Store!Silence, Silence, Store!Failed, Failed, Store!Done, Done,
              Store!Error, Error
<1>3. \A r : Store!Writes(r) <=> Writes(r)
  BY DEF Store!Writes, Writes
<1>4. \A r, book : Store!Refuses(r, book) <=> Refuses(r, book)
  BY <1>1 DEF Store!Refuses, Refuses, Store!Malformed, Malformed
<1>5. \A r, book : Store!Shown(r, book) = Shown(r, book)
  BY DEF Store!Shown, Shown
<1>6. \A r, book : Store!Reply(r, book) = Reply(r, book)
  BY <1>2, <1>4, <1>5 DEF Store!Reply, Reply
<1>7. /\ \A r : Store!NewBookmark(r) = NewBookmark(r)
      /\ \A b, r : Store!Amended(b, r) = Amended(b, r)
  BY <1>1 DEF Store!NewBookmark, NewBookmark, Store!Amended, Amended
<1>8. /\ \A book, n, b : Store!Put(book, n, b) = Put(book, n, b)
      /\ \A book, n : Store!Without(book, n) = Without(book, n)
  BY DEF Store!Put, Put, Store!Without, Without
<1>9. \A r, book : Store!Effect(r, book) = Effect(r, book)
  BY <1>7, <1>8 DEF Store!Effect, Effect
<1>10. \A r : Store!Malformed(r) <=> Malformed(r)
  BY <1>1 DEF Store!Malformed, Malformed
<1> QED
  BY <1>1, <1>2, <1>3, <1>4, <1>6, <1>9, <1>10 DEF Store!Changes

\* An answer after which the request has changed both what the app shows and
\* what the file holds, or neither, is Serve.
LEMMA Serves ==
  ASSUME TypeOK, Waiting, NEW a \in Apps, queue[a] # <<>>, a = ItsApp,
         NEW book \in Current(a), Leave(a, Reply(RequestOf(a), book)),
         cache'[a].loaded = TRUE,
         \/ /\ Writes(RequestOf(a)) /\ ~Refuses(RequestOf(a), book)
            /\ cache'[a].book = Effect(RequestOf(a), book)
            /\ file'.book = cache'[a].book
         \/ /\ ~Writes(RequestOf(a)) \/ Refuses(RequestOf(a), book)
            /\ cache'[a].book = book /\ file'.book = file.book
  PROVE  Store!StoreNext
<1>1. CallerOf(a) \in Callers /\ request[CallerOf(a)] # Nothing
  BY HeadWaits
<1>2. book \in Store!Sees
  BY SameWords DEF Store!Sees, Current
<1>3. Store!Answer(CallerOf(a), Store!Reply(request[CallerOf(a)], book))
  BY <1>1, SameWords DEF Store!Answer, Leave, RequestOf
<1>4. IF Store!Changes(request[CallerOf(a)], book)
      THEN /\ cache'[a].book = Store!Effect(request[CallerOf(a)], book)
           /\ file'.book = cache'[a].book
      ELSE cache'[a].book = book /\ file'.book = file.book
  BY SameWords DEF RequestOf
<1>5. Store!Serve(CallerOf(a))
  BY <1>2, <1>3, <1>4 DEF Store!Serve
<1> QED
  BY <1>1, <1>5 DEF Store!StoreNext

\* An app that begins to save looks at the file, if it has not yet.
LEMMA Looks ==
  ASSUME TypeOK, NEW a \in Apps, a = ItsApp, NEW book, Begin(a, book),
         UNCHANGED <<file, request, answer>>
  PROVE  Store!StoreNext \/ UNCHANGED Store!storeVars
<1>1. CASE cache[a].loaded
  BY <1>1, BeginType DEF Store!storeVars
<1>2. CASE ~cache[a].loaded
  <2>1. cache'[a].book \in Store!Sees /\ cache'[a].loaded = TRUE
    BY <1>2, BeginType, SameWords
       DEF Store!Sees, Begin, Current, TypeOK, NotLoaded, Blind, Loaded, Cached
  <2>2. Store!Look
    BY <1>2, <2>1 DEF Store!Look
  <2> QED
    BY <2>2 DEF Store!StoreNext
<1> QED
  BY <1>1, <1>2

\* A request to ensure the profile is answered, and changes nothing.
LEMMA EnsureReplies ==
  ASSUME NEW r, r.op = "ensure", NEW book
  PROVE  Reply(r, book) = Done /\ ~Writes(r)
BY DEF Reply, Refuses, Malformed, Writes

\* Every step of the one app is a step of the store, or none.
LEMMA StoreStep ==
  ASSUME OneApp, Apps # {}
  PROVE  TypeOK /\ InStep /\ Waiting /\ Saving /\ [Next]_vars
           => [Store!StoreNext]_(Store!storeVars)
<1> SUFFICES ASSUME TypeOK, InStep, Waiting, Saving, [Next]_vars
             PROVE  Store!StoreNext \/ UNCHANGED Store!storeVars
  OBVIOUS
<1>0. ItsApp \in Apps /\ \A a \in Apps : a = ItsApp
  BY TheApp
<1>1. ASSUME NEW c \in Callers, NEW r \in Requests, Ask(c, r)
      PROVE  Store!StoreNext
  <2>1. Store!Ask(c, r)
    BY <1>1, SameWords DEF Ask, Store!Ask
  <2> QED
    BY <2>1 DEF Store!StoreNext
<1>2. ASSUME NEW a \in Apps, Rejects(a) PROVE Store!StoreNext
  <2>1. queue[a] # <<>> /\ Leave(a, Error) /\ Malformed(RequestOf(a))
    BY <1>2 DEF Rejects, Ready
  <2>2. CallerOf(a) \in Callers /\ request[CallerOf(a)] # Nothing
    BY <2>1, HeadWaits
  <2>3. Store!Reject(CallerOf(a))
    BY <1>2, <2>1, <2>2, SameWords
       DEF Rejects, Store!Reject, Store!Answer, Leave, RequestOf
  <2> QED
    BY <2>2, <2>3 DEF Store!StoreNext
<1>3. ASSUME NEW a \in Apps, Replies(a) PROVE Store!StoreNext
  <2>1. PICK book \in Current(a) :
          /\ Begin(a, book) /\ Leave(a, Reply(RequestOf(a), book))
          /\ RequestOf(a).op \in {"get", "list"} \/ Refuses(RequestOf(a), book)
    BY <1>3 DEF Replies
  <2>2. ~Writes(RequestOf(a)) \/ Refuses(RequestOf(a), book)
    BY <2>1 DEF Writes
  <2>3. cache'[a].loaded = TRUE /\ cache'[a].book = book /\ queue[a] # <<>>
    BY <2>1, BeginType DEF NotLoaded, Blind, Loaded, Cached
  <2> QED
    BY <1>0, <1>3, <2>1, <2>2, <2>3, Serves DEF Replies
<1>4. ASSUME NEW a \in Apps, StartsSave(a) \/ CreatesProfile(a)
      PROVE  Store!StoreNext \/ UNCHANGED Store!storeVars
  <2>1. (\E book : Begin(a, book)) /\ UNCHANGED <<file, request, answer>>
    BY <1>4 DEF StartsSave, CreatesProfile, Changes, Saves
  <2> QED
    BY <1>0, <2>1, Looks
<1>5. ASSUME NEW a \in Apps, FindsProfile(a) PROVE Store!StoreNext
  <2>1. PICK book : /\ Begin(a, book) /\ Leave(a, Done) /\ RequestOf(a).op = "ensure"
                    /\ UNCHANGED file
    BY <1>5 DEF FindsProfile
  <2>2. /\ cache'[a].loaded = TRUE /\ cache'[a].book = book /\ queue[a] # <<>>
        /\ book \in Current(a)
    BY <2>1, BeginType DEF Begin, NotLoaded, Blind, Loaded, Cached
  <2> QED
    BY <1>0, <2>1, <2>2, EnsureReplies, Serves
<1>6. ASSUME NEW a \in Apps, save[a] # "none"
      PROVE  /\ queue[a] # <<>> /\ Current(a) = {cache[a].book} /\ cache[a].loaded
             /\ \/ /\ Writes(RequestOf(a)) /\ ~Refuses(RequestOf(a), cache[a].book)
                   /\ pending[a] = Effect(RequestOf(a), cache[a].book)
                \/ /\ RequestOf(a).op = "ensure"
                   /\ pending[a] = NoBookmarks /\ cache[a].book = NoBookmarks
             /\ CallerOf(a) \in Callers /\ request[CallerOf(a)] # Nothing
             /\ AppOf[CallerOf(a)] = a
  <2>1. queue[a] # <<>> /\ cache[a].loaded
    BY <1>6 DEF TypeOK
  <2> QED
    BY <1>6, <2>1, HeadWaits DEF Saving, Current
<1>7. ASSUME NEW a \in Apps, OpensFile(a) PROVE Store!StoreNext
  <2>1. save[a] = "open" /\ file' = Empty /\ UNCHANGED <<cache, request, answer>>
    BY <1>7 DEF OpensFile
  <2>2. \/ Store!Changes(request[CallerOf(a)], cache[a].book)
        \/ request[CallerOf(a)].op = "ensure" /\ cache[a].book = NoBookmarks
    BY <1>6, <2>1, SameWords DEF RequestOf
  <2>3. Store!GiveUp(CallerOf(a))
    BY <1>0, <1>6, <2>1, <2>2, SameWords DEF Store!GiveUp, Empty
  <2> QED
    BY <1>6, <2>1, <2>3 DEF Store!StoreNext
<1>8. ASSUME NEW a \in Apps, WritesFile(a) PROVE Store!StoreNext
  <2>1. /\ save[a] = "write" /\ file = Empty /\ file' = Profile(pending[a])
        /\ Leave(a, Done) /\ cache'[a] = Loaded(pending[a])
    BY <1>8 DEF WritesFile, Written, TypeOK, InStep
  <2>2. /\ cache'[a].loaded = TRUE /\ cache'[a].book = pending[a]
        /\ file.book = NoBookmarks /\ file'.book = pending[a]
    BY <2>1 DEF Loaded, Cached, Profile, Empty
  <2>3. CASE /\ RequestOf(a).op = "ensure"
             /\ pending[a] = NoBookmarks /\ cache[a].book = NoBookmarks
    <3>1. cache[a].book \in Current(a)
      BY <1>6, <2>1
    <3>2. Leave(a, Reply(RequestOf(a), cache[a].book)) /\ ~Writes(RequestOf(a))
      BY <2>1, <2>3, EnsureReplies
    <3> QED
      BY <1>0, <1>6, <2>1, <2>2, <2>3, <3>1, <3>2, Serves
  <2>4. CASE /\ Writes(RequestOf(a)) /\ ~Refuses(RequestOf(a), cache[a].book)
             /\ pending[a] = Effect(RequestOf(a), cache[a].book)
    <3>1. cache[a].book \in Current(a)
      BY <1>6, <2>1
    <3>2. Leave(a, Reply(RequestOf(a), cache[a].book))
      BY <2>1, <2>4 DEF Reply, Writes
    <3>3. /\ cache'[a].book = Effect(RequestOf(a), cache[a].book)
          /\ file'.book = cache'[a].book
      BY <2>2, <2>4
    <3>4. queue[a] # <<>> /\ a = ItsApp
      BY <1>0, <1>6, <2>1
    <3> QED
      BY <2>2, <2>4, <3>1, <3>2, <3>3, <3>4, Serves
  <2> QED
    BY <1>6, <2>1, <2>3, <2>4
<1>9. ASSUME NEW a \in Apps, SaveFails(a) PROVE Store!StoreNext
  <2>1. /\ save[a] # "none" /\ cache' = cache
        /\ Leave(a, IF RequestOf(a).op = "ensure" THEN Done ELSE Failed)
    BY <1>9 DEF SaveFails
  <2>2. file'.book = file.book
    BY <1>9 DEF SaveFails, InStep, Empty, Torn
  <2>3. cache[a].loaded = TRUE
    BY <1>6, <2>1 DEF TypeOK, NotLoaded, Blind, Loaded, Cached
  <2>4. CASE RequestOf(a).op = "ensure"
    <3>1. cache[a].book \in Current(a) /\ cache'[a] = cache[a]
      BY <1>6, <2>1
    <3>2. Leave(a, Reply(RequestOf(a), cache[a].book)) /\ ~Writes(RequestOf(a))
      BY <2>1, <2>4, EnsureReplies
    <3> QED
      BY <1>0, <1>6, <2>1, <2>2, <2>3, <3>1, <3>2, Serves
  <2>5. CASE RequestOf(a).op # "ensure"
    <3>1. Store!Writes(request[CallerOf(a)])
      BY <1>6, <2>1, <2>5, SameWords DEF RequestOf
    <3>2. Store!Answer(CallerOf(a), Store!Failed)
      BY <1>6, <2>1, <2>5, SameWords DEF Store!Answer, Leave
    <3>3. Store!Fail(CallerOf(a))
      BY <1>0, <2>1, <2>2, <2>3, <3>1, <3>2 DEF Store!Fail
    <3> QED
      BY <1>6, <2>1, <3>3 DEF Store!StoreNext
  <2> QED
    BY <2>4, <2>5
<1>10. ASSUME NEW a \in Apps, Restarts(a) PROVE Store!StoreNext
  <2> DEFINE S == {c \in Callers : AppOf[c] = a}
  <2>1. /\ cache'[a] = NotLoaded /\ answer' = answer
        /\ request' = [c \in Callers |-> IF c \in S THEN Nothing ELSE request[c]]
    BY <1>10 DEF Restarts, TypeOK
  <2>2. cache'[a].loaded = FALSE /\ cache'[a].book = NoBookmarks
    BY <2>1 DEF NotLoaded
  <2>3. \/ file'.book = file.book
        \/ /\ cache[a].loaded
           /\ \E c \in S : /\ Store!Changes(request[c], cache[a].book)
                           /\ file'.book = Store!Effect(request[c], cache[a].book)
    <3>1. CASE file' = file
      BY <3>1
    <3>2. CASE save[a] = "write" /\ file' \in {Torn} \cup Written(a)
      <4>1. file = Empty /\ file' \in {Torn, Profile(pending[a])}
        BY <3>2 DEF InStep, Written
      <4>2. /\ file.book = NoBookmarks
            /\ file'.book \in {NoBookmarks, pending[a]}
        BY <4>1 DEF Empty, Torn, Profile
      <4>3. CASE file'.book = NoBookmarks
        BY <4>2, <4>3
      <4>4. CASE file'.book = pending[a] /\ pending[a] # NoBookmarks
        <5>1. CallerOf(a) \in S
          BY <1>6, <3>2
        <5> HIDE DEF S
        <5> QED
          BY <1>6, <3>2, <4>4, <5>1, SameWords DEF RequestOf
      <4> QED
        BY <4>2, <4>3, <4>4
    <3> QED
      BY <1>10, <3>1, <3>2 DEF Restarts
  <2>4. S \in SUBSET Callers
    OBVIOUS
  <2> HIDE DEF S
  <2>5. Store!Quit(S)
    BY <1>0, <2>1, <2>2, <2>3, SameWords DEF Store!Quit
  <2> QED
    BY <2>4, <2>5 DEF Store!StoreNext
<1>11. CASE UNCHANGED vars
  BY <1>11 DEF vars, Store!storeVars
<1> QED
  BY <1>1, <1>2, <1>3, <1>4, <1>5, <1>7, <1>8, <1>9, <1>10, <1>11 DEF Next, Runs

\* With one app, every request takes effect at one instant or not at all,
\* whatever the disk does and whenever the app quits: each step of the app is
\* one of the store, for any callers, requests and bookmarks.  The store has
\* two steps that lose bookmarks and no others: a look that sees nothing, and
\* a save that is begun.  That every request is answered is not part of this.
THEOREM KeepsBookmarksStepwise ==
  ASSUME OneApp, Apps # {}
  PROVE  Spec => StoreSteps
<1>1. Init => Store!StoreInit
  <2>1. Init => /\ cache[ItsApp].book = NoBookmarks /\ cache[ItsApp].loaded = FALSE
                /\ file.book = NoBookmarks
    BY TheApp DEF Init, NotLoaded, Absent
  <2> QED
    BY <2>1, SameWords DEF Init, Store!StoreInit
<1>2. Init => InStep /\ Waiting /\ Saving
  BY DEF Init, InStep, NotLoaded, Waiting, Saving
<1> QED
  BY <1>1, <1>2, TypeInit, TypeStep, InStepStep, ServedStep, StoreStep, PTL
     DEF Spec, StoreSteps
=============================================================================
