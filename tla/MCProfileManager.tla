-------------------------- MODULE MCProfileManager --------------------------
EXTENDS ProfileManager

\* Two callers for each app.
OnlyApp == [c \in Callers |-> "app"]
OwnApp == [c \in Callers |-> c]

Add(n, t, u) == [op |-> "add", name |-> n, title |-> t, url |-> u]
Update(n, t, u) == [op |-> "update", name |-> n, title |-> t, url |-> u]
Plain(o, n) == [op |-> o, name |-> n, title |-> Omitted, url |-> Omitted]

\* Each operation, complete, partial and malformed.
AllRequests ==
  {Add("g", "t", "u"), Add("g", Omitted, "u"), Add("g", "t", Omitted),
   Update("g", "t", Omitted), Update("g", Omitted, "t"),
   Update("g", Omitted, Omitted)}
    \cup {Plain(o, "g") : o \in {"get", "list", "delete", "ensure"}}

\* With a second bookmark, which requests about the first must leave alone.
TwoNames == AllRequests \cup {Add("h", "t", "u"), Plain("delete", "h")}
=============================================================================
