--------------------------- MODULE BookmarkStore ---------------------------
(***************************************************************************)
(* What the bookmark commands promise: one set of bookmarks, in which      *)
(* every request takes effect at one instant between its asking and its    *)
(* answer, or fails and has none.  The running app shows the set, and a    *)
(* set is kept for the next one.  Both are the same, but for two things.   *)
(* An app may be unable to look at what is kept when it first needs it,    *)
(* and shows nothing until it ends: what it saves then replaces what was   *)
(* kept.  And a save starts by giving up what is kept: an app that fails   *)
(* or ends before the save is done leaves nothing.  What is kept is never  *)
(* an older set than the one shown, and never half of a request.           *)
(***************************************************************************)
EXTENDS Bookmarks

CONSTANTS Callers

VARIABLES
  kept,       \* the bookmarks that the next app finds
  open,       \* whether the app has looked at them
  book,       \* what it shows since then
  request,    \* what each caller asks, Nothing when it asks nothing
  answer      \* what it was told last

storeVars == <<kept, open, book, request, answer>>

StoreInit ==
  /\ kept = NoBookmarks /\ open = FALSE /\ book = NoBookmarks
  /\ request = [c \in Callers |-> Nothing]
  /\ answer = [c \in Callers |-> Silence]

Ask(c, r) ==
  /\ request[c] = Nothing
  /\ request' = [request EXCEPT ![c] = r]
  /\ answer' = [answer EXCEPT ![c] = Silence]
  /\ UNCHANGED <<kept, open, book>>

Answer(c, a) ==
  /\ request[c] # Nothing
  /\ request' = [request EXCEPT ![c] = Nothing]
  /\ answer' = [answer EXCEPT ![c] = a]

\* What the app finds.
Sees == IF open THEN {book} ELSE {kept, NoBookmarks}

Changes(r, b) == Writes(r) /\ ~Refuses(r, b)

Serve(c) ==
  \E b \in Sees :
    /\ Answer(c, Reply(request[c], b))
    /\ IF Changes(request[c], b)
       THEN book' = Effect(request[c], b) /\ kept' = book'
       ELSE book' = b /\ kept' = kept
    /\ open' = TRUE

\* A request that makes no sense is turned away at the door.
Reject(c) ==
  /\ Malformed(request[c])
  /\ Answer(c, Error)
  /\ UNCHANGED <<kept, open, book>>

\* The disk refuses.
Fail(c) ==
  /\ open /\ Writes(request[c])
  /\ Answer(c, Failed)
  /\ UNCHANGED <<kept, open, book>>

\* The app looks.
Look ==
  /\ ~open /\ open' = TRUE
  /\ book' \in Sees
  /\ UNCHANGED <<kept, request, answer>>

\* It begins to save for a caller, whose webview needs the profile if it does
\* not change it.
GiveUp(c) ==
  /\ open
  /\ \/ Changes(request[c], book)
     \/ request[c].op = "ensure" /\ book = NoBookmarks
  /\ kept' = NoBookmarks
  /\ UNCHANGED <<open, book, request, answer>>

\* The app goes, perhaps when it has just saved; callers that wait hear nothing
\* more.
Quit(S) ==
  /\ request' = [c \in Callers |-> IF c \in S THEN Nothing ELSE request[c]]
  /\ \/ kept' = kept
     \/ /\ open
        /\ \E c \in S : Changes(request[c], book) /\ kept' = Effect(request[c], book)
  /\ open' = FALSE /\ book' = NoBookmarks
  /\ UNCHANGED answer

StoreNext ==
  \/ \E c \in Callers :
       \/ Serve(c) \/ Reject(c) \/ Fail(c) \/ GiveUp(c)
       \/ \E r \in Requests : Ask(c, r)
  \/ Look
  \/ \E S \in SUBSET Callers : Quit(S)

\* Every caller is answered, or its app goes.
StoreSpec ==
  /\ StoreInit /\ [][StoreNext]_storeVars
  /\ \A c \in Callers : WF_storeVars(Serve(c) \/ Reject(c) \/ Fail(c))
=============================================================================
