----------------------------- MODULE Bookmarks -----------------------------
(***************************************************************************)
(* The vocabulary of the bookmark commands: what is stored, what may be    *)
(* asked and what a request does to a profile.  BookmarkStore says what    *)
(* the commands promise, ProfileManager how the app keeps it.  Profiles    *)
(* share nothing but the queue, so there is one.                           *)
(***************************************************************************)

CONSTANTS
  Names,      \* bookmark names
  Texts,      \* titles and URLs
  Requests    \* the requests that callers make, a subset of AnyRequest

Omitted == "omitted"

\* The title defaults to the name.
Bookmark == [title : Texts \cup Names, url : Texts]

\* profileData.bookmarks
Books == UNION {[S -> Bookmark] : S \in SUBSET Names}
NoBookmarks == [n \in {} |-> n]

AnyRequest ==
  [op : {"add", "get", "list", "update", "delete", "ensure"}, name : Names,
   title : Texts \cup {Omitted}, url : Texts \cup {Omitted}]

ASSUME RequestsAssumption == Requests \subseteq AnyRequest
ASSUME OmittedAssumption == Omitted \notin Texts \cup Names

\* A caller that asks nothing.
Nothing == [op |-> "nothing", name |-> Omitted, title |-> Omitted,
            url |-> Omitted]

\* The checks of the handlers, before they reach the store.
Malformed(r) ==
  \/ r.op = "add" /\ r.url = Omitted
  \/ r.op = "update" /\ r.title = Omitted /\ r.url = Omitted

\* And those of the store: BookmarkError.alreadyExists, BookmarkError.notFound.
Refuses(r, book) ==
  \/ Malformed(r)
  \/ r.op = "add" /\ r.name \in DOMAIN book
  \/ r.op \in {"get", "update", "delete"} /\ r.name \notin DOMAIN book

Writes(r) == r.op \in {"add", "update", "delete"}

NewBookmark(r) ==
  [title |-> IF r.title = Omitted THEN r.name ELSE r.title, url |-> r.url]

Amended(b, r) ==
  [title |-> IF r.title = Omitted THEN b.title ELSE r.title,
   url |-> IF r.url = Omitted THEN b.url ELSE r.url]

Put(book, n, b) ==
  [m \in DOMAIN book \cup {n} |-> IF m = n THEN b ELSE book[m]]

Without(book, n) == [m \in DOMAIN book \ {n} |-> book[m]]

\* What a write that is not refused makes of the profile.
Effect(r, book) ==
  CASE r.op = "add" -> Put(book, r.name, NewBookmark(r))
    [] r.op = "update" -> Put(book, r.name, Amended(book[r.name], r))
    [] r.op = "delete" -> Without(book, r.name)
    [] OTHER -> book

\* An answer carries the bookmarks that the caller asked to see.
Silence == [kind |-> "none", book |-> NoBookmarks]
Done == [kind |-> "ok", book |-> NoBookmarks]
Error == [kind |-> "error", book |-> NoBookmarks]
Failed == [kind |-> "failed", book |-> NoBookmarks]
Shown(r, book) ==
  [kind |-> "ok",
   book |-> [n \in IF r.op = "list" THEN DOMAIN book ELSE {r.name}
               |-> book[n]]]

Answers == [kind : {"none", "ok", "error", "failed"}, book : Books]

\* What a request that changes nothing is answered.
Reply(r, book) ==
  IF Refuses(r, book) THEN Error
  ELSE IF r.op \in {"get", "list"} THEN Shown(r, book) ELSE Done
=============================================================================
