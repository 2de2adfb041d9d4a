--------------------------- MODULE ProfileManager ---------------------------
(***************************************************************************)
(* ProfileManager.swift: the bookmarks of one profile, kept in a JSON file *)
(* and in the cache of each running app.  Callers are the `web bookmark`   *)
(* commands, `web open` when it resolves a name, the user's cmd+b and new  *)
(* webviews with a profile.  Whatever they ask is handled by the main      *)
(* thread of their app, one request at a time, inside a serial queue that  *)
(* has no other users; the file is shared by every app of the user, and    *)
(* nothing guards it.                                                      *)
(*                                                                         *)
(* A save is not atomic: Data.write(to:) without .atomic truncates the     *)
(* file and then writes it, and either step may fail.  So may the read of  *)
(* a file that is as it should be: the app goes on with no bookmarks.      *)
(***************************************************************************)
EXTENDS Bookmarks, Naturals, Sequences

CONSTANTS
  Apps,       \* running copies of the app
  Callers,    \* the commands and the parts of the app that use a profile
  AppOf       \* the app of each

ASSUME AppOfAssumption == AppOf \in [Callers -> Apps]

VARIABLES
  file,       \* the profile's file
  cache,      \* profileCache of each app
  queue,      \* the callers whose request waits for its main thread or is
              \* being handled there, oldest first
  save,       \* how far the operation at the head is with its save
  pending,    \* the profile it saves
  request,    \* what each caller asks, Nothing when it asks nothing
  answer      \* what it was told last

vars == <<file, cache, queue, save, pending, request, answer>>

Absent == [kind |-> "absent", book |-> NoBookmarks]
Empty == [kind |-> "empty", book |-> NoBookmarks]
Torn == [kind |-> "torn", book |-> NoBookmarks]
Profile(book) == [kind |-> "profile", book |-> book]

\* What the app has in its cache.  Whether it is blind, because the read failed
\* that should have filled it, is history: no step looks at it.
Cached(book, blind) == [loaded |-> TRUE, book |-> book, blind |-> blind]
Loaded(book) == Cached(book, FALSE)
NotLoaded == [loaded |-> FALSE, book |-> NoBookmarks, blind |-> FALSE]
Blind == Cached(NoBookmarks, TRUE)

\* The types, with what they owe to each other: only the caller at the head of
\* a queue saves, and only with the profile in the cache.
TypeOK ==
  /\ file \in {Absent, Empty, Torn} \cup {Profile(b) : b \in Books}
  /\ cache \in [Apps -> {NotLoaded, Blind} \cup {Loaded(b) : b \in Books}]
  /\ queue \in [Apps -> Seq(Callers)]
  /\ save \in [Apps -> {"none", "open", "write"}]
  /\ pending \in [Apps -> Books]
  /\ request \in [Callers -> Requests \cup {Nothing}]
  /\ answer \in [Callers -> Answers]
  /\ \A a \in Apps : save[a] # "none" => queue[a] # <<>> /\ cache[a].loaded

Init ==
  /\ file = Absent
  /\ cache = [a \in Apps |-> NotLoaded]
  /\ queue = [a \in Apps |-> <<>>]
  /\ save = [a \in Apps |-> "none"]
  /\ pending = [a \in Apps |-> NoBookmarks]
  /\ request = [c \in Callers |-> Nothing]
  /\ answer = [c \in Callers |-> Silence]

\* loadProfileInternal: the cache, else the file, else an empty profile: when
\* there is none, and when it is not read or cannot be decoded.
Current(a) ==
  IF cache[a].loaded THEN {cache[a].book} ELSE {file.book, NoBookmarks}

CallerOf(a) == Head(queue[a])
RequestOf(a) == request[CallerOf(a)]

\* The request at the head is done, and answered.
Leave(a, x) ==
  /\ queue' = [queue EXCEPT ![a] = Tail(@)]
  /\ request' = [request EXCEPT ![CallerOf(a)] = Nothing]
  /\ answer' = [answer EXCEPT ![CallerOf(a)] = x]

\* The request at the head may be handled: nothing is being saved.
Ready(a) == queue[a] # <<>> /\ save[a] = "none"

\* It reaches the store, which finds these bookmarks.
Begin(a, book) ==
  /\ Ready(a) /\ ~Malformed(RequestOf(a))
  /\ book \in Current(a)
  /\ cache' = IF cache[a].loaded THEN cache
              ELSE [cache EXCEPT ![a] = Cached(book, book # file.book)]

-----------------------------------------------------------------------------
\* A request waits for the main thread.
Ask(c, r) ==
  /\ request[c] = Nothing
  /\ request' = [request EXCEPT ![c] = r]
  /\ answer' = [answer EXCEPT ![c] = Silence]
  /\ queue' = [queue EXCEPT ![AppOf[c]] = Append(@, c)]
  /\ UNCHANGED <<file, cache, save, pending>>

\* Its handler turns it away, before it reaches the store.
Rejects(a) ==
  /\ Ready(a) /\ Malformed(RequestOf(a))
  /\ Leave(a, Error)
  /\ UNCHANGED <<file, cache, save, pending>>

\* getBookmark and listBookmarks, and the writes whose check throws.
Replies(a) ==
  /\ \E book \in Current(a) :
       /\ Begin(a, book)
       /\ RequestOf(a).op \in {"get", "list"} \/ Refuses(RequestOf(a), book)
       /\ Leave(a, Reply(RequestOf(a), book))
  /\ UNCHANGED <<file, save, pending>>

\* The request at the head is to save what it makes of the bookmarks.
Changes(a, book) ==
  /\ Begin(a, book)
  /\ Writes(RequestOf(a)) /\ ~Refuses(RequestOf(a), book)

Saves(a, book) ==
  /\ pending' = [pending EXCEPT ![a] = book]
  /\ save' = [save EXCEPT ![a] = "open"]
  /\ UNCHANGED <<file, queue, request, answer>>

\* A mutant of StartsSave: profileCache is assigned before the save.
CachesBeforeSave(a) ==
  /\ Ready(a) /\ Writes(RequestOf(a))
  /\ \E book \in Current(a) :
       /\ ~Refuses(RequestOf(a), book)
       /\ Saves(a, Effect(RequestOf(a), book))
  /\ cache' = [cache EXCEPT ![a] = Loaded(pending'[a])]

\* A mutant of StartsSave: deleteBookmark forgets to save.
DeletesInMemory(a) ==
  \E book \in Current(a) :
    \/ /\ Ready(a) /\ RequestOf(a).op = "delete" /\ ~Refuses(RequestOf(a), book)
       /\ cache' = [cache EXCEPT ![a] = Loaded(Effect(RequestOf(a), book))]
       /\ Leave(a, Done)
       /\ UNCHANGED <<file, save, pending>>
    \/ /\ Changes(a, book) /\ RequestOf(a).op # "delete"
       /\ Saves(a, Effect(RequestOf(a), book))

\* addBookmark, updateBookmark and deleteBookmark, up to their save.
StartsSave(a) ==
  \E book \in Current(a) : Changes(a, book) /\ Saves(a, Effect(RequestOf(a), book))

\* loadProfile, for a webview: a profile that is cached, or is read.
FindsProfile(a) ==
  /\ Begin(a, IF cache[a].loaded THEN cache[a].book ELSE file.book)
  /\ RequestOf(a).op = "ensure"
  /\ cache[a].loaded \/ file.kind = "profile"
  /\ Leave(a, Done)
  /\ UNCHANGED <<file, save, pending>>

\* A mutant of CreatesProfile: the new profile is cached only once it is saved.
CreatesUncached(a) ==
  /\ Ready(a) /\ RequestOf(a).op = "ensure" /\ ~cache[a].loaded
  /\ Saves(a, NoBookmarks)
  /\ UNCHANGED cache

\* Otherwise it saves a new one, over a file that it could not read too.
CreatesProfile(a) ==
  /\ Begin(a, NoBookmarks)
  /\ RequestOf(a).op = "ensure" /\ ~cache[a].loaded
  /\ Saves(a, NoBookmarks)

-----------------------------------------------------------------------------
(* saveProfileInternal.                                                    *)

\* The write opens and truncates the file.
OpensFile(a) ==
  /\ save[a] = "open"
  /\ file' = Empty
  /\ save' = [save EXCEPT ![a] = "write"]
  /\ UNCHANGED <<cache, queue, pending, request, answer>>

\* What the write leaves: its bytes start at the beginning of the file, over
\* those that another app may have written since it was truncated.
Written(a) ==
  {Profile(pending[a])} \cup IF file = Empty THEN {} ELSE {Torn}

\* It succeeds, and the operation puts the profile in the cache.
WritesFile(a) ==
  /\ save[a] = "write"
  /\ file' \in Written(a)
  /\ cache' = [cache EXCEPT ![a] = Loaded(pending[a])]
  /\ save' = [save EXCEPT ![a] = "none"]
  /\ Leave(a, Done)
  /\ UNCHANGED pending

\* It throws: from the directory or the open, or half-way.  The command is
\* told; loadProfile only logs it.
SaveFails(a) ==
  /\ \/ save[a] = "open" /\ UNCHANGED file
     \/ save[a] = "write" /\ file' \in {file, Torn}
  /\ save' = [save EXCEPT ![a] = "none"]
  /\ Leave(a, IF RequestOf(a).op = "ensure" THEN Done ELSE Failed)
  /\ UNCHANGED <<cache, pending>>

\* The app quits or crashes, in the middle of a write too, and starts again.
Restarts(a) ==
  /\ \/ UNCHANGED file
     \/ save[a] = "write" /\ file' \in {Torn} \cup Written(a)
  /\ cache' = [cache EXCEPT ![a] = NotLoaded]
  /\ queue' = [queue EXCEPT ![a] = <<>>]
  /\ save' = [save EXCEPT ![a] = "none"]
  /\ request' = [c \in Callers |-> IF AppOf[c] = a THEN Nothing ELSE request[c]]
  /\ UNCHANGED <<pending, answer>>

\* The main thread handles what waits for it.
Runs(a) ==
  \/ Rejects(a) \/ Replies(a) \/ StartsSave(a) \/ FindsProfile(a) \/ CreatesProfile(a)
  \/ OpensFile(a) \/ WritesFile(a) \/ SaveFails(a)

Next ==
  \/ \E c \in Callers, r \in Requests : Ask(c, r)
  \/ \E a \in Apps : Runs(a) \/ Restarts(a)

Spec == Init /\ [][Next]_vars /\ \A a \in Apps : WF_vars(Runs(a))

\* The same on a good day: nothing fails and nobody quits.
ReadsWell == \A a \in Apps : ~cache'[a].blind

GoodNext ==
  /\ \/ \E c \in Callers, r \in Requests : Ask(c, r)
     \/ \E a \in Apps :
          \/ Rejects(a) \/ Replies(a) \/ StartsSave(a) \/ FindsProfile(a)
          \/ CreatesProfile(a) \/ OpensFile(a) \/ WritesFile(a)
  /\ ReadsWell

GoodSpec == Init /\ [][GoodNext]_vars

-----------------------------------------------------------------------------
OneApp == \A a, b \in Apps : a = b
ItsApp == CHOOSE a \in Apps : TRUE

\* With one app, every request takes effect at one instant or not at all,
\* whatever its save does; a failed save changes nothing that the app shows;
\* and bookmarks that it shows are lost by a save that was begun, or else kept.
Store == INSTANCE BookmarkStore
           WITH book <- cache[ItsApp].book, open <- cache[ItsApp].loaded,
                kept <- file.book
KeepsBookmarks == Store!StoreSpec

\* With one app between two saves, the bookmarks it shows are those in the
\* file, so that it may quit, unless the last save broke the file; or it shows
\* none, because it could not read the file and has saved nothing since.
Durable ==
  \A a \in Apps :
    cache[a].loaded /\ save[a] = "none" /\ file.kind \in {"profile", "absent"}
      => file.book = cache[a].book \/ cache[a] = Blind

\* docs/bookmarks.md: "All reads/writes go through Swift app (no race
\* conditions)".  A write that begins to save has the bookmarks that the file
\* holds as its start, so that it erases none of them.
StartsFromFile(a) ==
  save[a] = "none" /\ save'[a] = "open" /\ file.kind = "profile"
    => pending'[a] = Effect(RequestOf(a), file.book)
NoRaces == [][\A a \in Apps : StartsFromFile(a)]_vars

\* ensureProfileExists: "Ensure the profile exists on disk (creates if
\* needed)".
EnsuresFile(c) ==
  request[c].op = "ensure" /\ answer' # answer /\ request'[c] = Nothing
    => file'.kind = "profile"
EnsuredExists == [][\A c \in Callers : EnsuresFile(c)]_vars
=============================================================================
