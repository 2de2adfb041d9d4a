---------------------------- MODULE RenderSync ----------------------------
(* How the lines of a pane travel from the multiplexer to a client.         *)
(*                                                                          *)
(* The terminal of the pane lives in the server: the parser thread applies  *)
(* batches of output to it under its lock.  The main thread of the server   *)
(* tells a session what changed (SessionHandler, PerPane::compute_changes)  *)
(* but takes that lock once for each thing it asks, so that output lands    *)
(* between its questions.  The client (RenderableInner) keeps a cache of    *)
(* lines, fed by the deltas the server pushes, by the lines it fetches and  *)
(* by its own predictions of what a key will show.                          *)
(*                                                                          *)
(* The text of a line is abstracted to the screen it belongs to and the     *)
(* sequence number of its last change, which every change raises.           *)
EXTENDS Integers, Sequences, FiniteSets

CONSTANTS
  H,          \* rows of the viewport
  StartTop,   \* how far it had scrolled when the client attached
  MaxTop,     \* bound: how far the terminal scrolls
  FetchIds,   \* bound: fetches under way at a time, named by their start time
  MaxEvents,  \* bound: batches of output, acts of the user, lost connections
  AltScreens, \* the ways programs enter the alternate screen
  Predicted,  \* the keys whose effect the client predicts
  Hydrates    \* whether lines carry images the client has to ask for

ASSUME RenderAssumption ==
  /\ H \in Nat \ {0} /\ {MaxTop, MaxEvents} \subseteq Nat /\ StartTop \in 0 .. MaxTop
  /\ FetchIds \subseteq Nat \ {0} /\ FetchIds # {}
  /\ AltScreens \subseteq {"clear", "plain"} /\ Predicted \subseteq {"text", "motion"}
  /\ Hydrates \in BOOLEAN

VARIABLES
  term,     \* the terminal: screen, top of the viewport, cursor row, lines
  session,  \* PerPane: what the session believes the client was told; history:
            \* the last number taken by a computation that met the alternate
            \* screen ("blind")
  job,      \* compute_changes under way on the server's main thread
  asked,    \* what waits for the main thread: to push changes, the keys
  pushes,   \* deltas on their way, and waiting in the client's main thread
  fetches,  \* fetches under way: the rows and the answer
  lines,    \* the client's cache
  client,   \* the client's idea of viewport, cursor and sequence number; history:
            \* the rows a predicted motion left and nothing rewrote ("left")
  events     \* how many of those events have happened

renderVars == <<term, session, job, asked, pushes, fetches, lines, client, events>>

Rows == 0 .. MaxTop + H - 1
Guess == <<"guess", 0>>                       \* a predicted line
NoEntry == [k |-> "None"]
NoKey == 0

Top(t) == IF t.alt THEN 0 ELSE t.top
SeqAt(t, r) == IF t.alt THEN t.over[r] ELSE t.main[r]
LineAt(t, r) == <<IF t.alt THEN "alt" ELSE "main", SeqAt(t, r)>>
Existing(t) == 0 .. Top(t) + H - 1
Viewport(t) == Top(t) .. Top(t) + H - 1

(* Screen::stable_range: the rows answered for the rows a to b - 1.         *)
StableRange(t, a, b) ==
  LET n == Top(t) + H
      least(x, y) == IF x < y THEN x ELSE y
  IN IF a >= n THEN 0 .. least(b - a, n) - 1
     ELSE IF b > n THEN {r \in 0 .. n - 1 : r >= n - 1 - (b - a)}
     ELSE a .. b - 1

Fresh == [top |-> -1, cur |-> 0, seqno |-> 0, blind |-> 0]
NoJob == [pc |-> "idle"]

(* A client attaches to a pane that has been running for a while.           *)
RenderInit ==
  /\ term = [alt |-> FALSE, top |-> StartTop, cur |-> StartTop, seq |-> 1,
             main |-> [r \in Rows |-> IF r < StartTop + H THEN 1 ELSE 0],
             over |-> [r \in 0 .. H - 1 |-> 1]]
  /\ session = Fresh
  /\ job = NoJob
  /\ asked = [push |-> FALSE, keys |-> <<>>]
  /\ pushes = <<>>
  /\ fetches = [f \in {} |-> 0]
  /\ lines = [r \in Rows |-> NoEntry]
  /\ client = [top |-> 0, cur |-> 0, seqno |-> 0, serial |-> 0,
               back |-> FALSE, paint |-> TRUE, left |-> {}]
  /\ events = 0

----------------------------------------------------------------------------
(* The parser thread: one batch of output under the terminal's lock, then   *)
(* the notification that becomes a push.                                    *)

Happens == events < MaxEvents /\ events' = events + 1

Batch(t) ==
  /\ term' = [t EXCEPT !.seq = term.seq + 1]
  /\ asked' = [asked EXCEPT !.push = TRUE]
  /\ Happens
  /\ UNCHANGED <<session, job, pushes, fetches, lines, client>>

Touch(f, S) == [r \in DOMAIN f |-> IF r \in S THEN term.seq + 1 ELSE f[r]]

(* The program writes a row and leaves the cursor on it or elsewhere.       *)
Write ==
  \E row, c \in Viewport(term) :
    Batch(IF term.alt THEN [term EXCEPT !.over = Touch(@, {row}), !.cur = c]
                      ELSE [term EXCEPT !.main = Touch(@, {row}), !.cur = c])

(* A new line at the bottom of the primary screen (Screen::scroll_up).      *)
ScrollUp ==
  /\ ~term.alt /\ term.top < MaxTop
  /\ Batch([term EXCEPT !.top = @ + 1, !.main = Touch(@, {term.top + H}),
                        !.cur = term.top + H])

(* activate_alt_screen and activate_primary_screen touch the first rows of  *)
(* the primary screen.  Mode 1049 then erases the alternate screen, modes   *)
(* 47 and 1047 show what it held.                                           *)
Switched(alt) == [term EXCEPT !.alt = alt, !.main = Touch(@, 0 .. H - 1)]

EnterAlt ==
  /\ ~term.alt
  /\ \E mode \in AltScreens :
       Batch([Switched(TRUE) EXCEPT !.cur = 0,
                !.over = IF mode = "clear" THEN Touch(@, 0 .. H - 1) ELSE @])

LeaveAlt ==
  /\ term.alt
  /\ \E c \in Viewport([term EXCEPT !.alt = FALSE]) :
       Batch([Switched(FALSE) EXCEPT !.cur = c])

Output == Write \/ ScrollUp \/ EnterAlt \/ LeaveAlt

----------------------------------------------------------------------------
(* The main thread of the server.  compute_changes reads the dimensions,    *)
(* the cursor, the sequence number, the changed rows, the lines of the      *)
(* viewport and the line of the cursor, taking the lock for each of them.   *)

OnlyAsks == UNCHANGED <<term, fetches, lines, client, events>>

Begin(force) ==
  /\ job' = [pc |-> "cursor", force |-> force, top |-> Top(term), alt |-> term.alt]
  /\ UNCHANGED <<session, pushes>> /\ OnlyAsks

StartPush ==
  /\ job.pc = "idle" /\ asked.push
  /\ asked' = [asked EXCEPT !.push = FALSE]
  /\ Begin(NoKey)

StartKey ==
  /\ job.pc = "idle" /\ asked.keys # <<>>
  /\ asked' = [asked EXCEPT !.keys = Tail(@)]
  /\ Begin(Head(asked.keys))

ReadCursor ==
  /\ job.pc = "cursor"
  /\ job' = [pc |-> "seqno", force |-> job.force, top |-> job.top,
             alt |-> job.alt, cur |-> term.cur]
  /\ UNCHANGED <<session, asked, pushes>> /\ OnlyAsks

ReadSeqno ==
  /\ job.pc = "seqno"
  /\ job' = [pc |-> "dirty", force |-> job.force, top |-> job.top,
             cur |-> job.cur, old |-> session.seqno]
  /\ session' = [session EXCEPT !.seqno = term.seq,
                                !.blind = IF job.alt THEN term.seq ELSE @]
  /\ UNCHANGED <<asked, pushes>> /\ OnlyAsks

Changed(old, top) ==
  {r \in StableRange(term, 0, top + H) : SeqAt(term, r) > old}

ReadDirty ==
  /\ job.pc = "dirty"
  /\ LET dirty == Changed(job.old, job.top)
     IN IF \/ dirty # {} \/ job.force # NoKey
           \/ job.top # session.top \/ job.cur # session.cur
        THEN job' = [pc |-> "lines", force |-> job.force, top |-> job.top,
                     cur |-> job.cur, dirty |-> dirty]
        ELSE job' = NoJob
  /\ session' = [session EXCEPT !.blind = IF term.alt THEN session.seqno ELSE @]
  /\ UNCHANGED <<asked, pushes>> /\ OnlyAsks

ReadLines ==
  /\ job.pc = "lines"
  /\ LET sent == StableRange(term, job.top, job.top + H) \cap job.dirty
     IN job' = [pc |-> "cursorline", force |-> job.force, top |-> job.top,
                cur |-> job.cur, dirty |-> job.dirty \ sent,
                bonus |-> [r \in sent |-> LineAt(term, r)]]
  /\ UNCHANGED <<session, asked, pushes>> /\ OnlyAsks

(* Mutant: the session takes the sequence number when the delta is complete *)
(* instead of before it asks what changed.                                  *)
PushDeltaNewestSeqno ==
  /\ job.pc = "cursorline"
  /\ pushes' = Append(pushes, [top |-> job.top, cur |-> job.cur, dirty |-> job.dirty,
                serial |-> job.force, seqno |-> term.seq, bonus |-> job.bonus])
  /\ session' = [session EXCEPT !.top = job.top, !.cur = job.cur, !.seqno = term.seq]
  /\ job' = NoJob
  /\ UNCHANGED asked /\ OnlyAsks

(* The line of the cursor goes along in any case.                           *)
PushDelta ==
  /\ job.pc = "cursorline"
  /\ LET row == CHOOSE r \in StableRange(term, job.cur, job.cur + 1) : TRUE
         d == [top |-> job.top, cur |-> job.cur, dirty |-> job.dirty,
               serial |-> job.force, seqno |-> session.seqno,
               bonus |-> [r \in DOMAIN job.bonus \cup {row} |->
                            IF r = row THEN LineAt(term, r) ELSE job.bonus[r]]]
     IN pushes' = Append(pushes, d)
  /\ session' = [session EXCEPT !.top = job.top, !.cur = job.cur,
                                !.blind = IF term.alt THEN session.seqno ELSE @]
  /\ job' = NoJob
  /\ UNCHANGED asked /\ OnlyAsks

(* The GetLines handler: rows the terminal does not have are not answered.  *)
AnswerFetch(f) ==
  /\ job.pc = "idle"
  /\ fetches[f].got = "nothing"
  /\ fetches' = [fetches EXCEPT ![f].got = "lines",
        ![f].ans = [r \in fetches[f].rows \cap Existing(term) |-> LineAt(term, r)]]
  /\ UNCHANGED <<term, session, job, asked, pushes, lines, client, events>>

----------------------------------------------------------------------------
(* The client.  Everything here runs on its main thread.                    *)

ServerIsElsewhere == UNCHANGED <<term, session, job>>

Line(v, s) == [k |-> "Line", v |-> v, s |-> s]
Held(e) == e.k \in {"Line", "Stale", "Both"}       \* a line is there
Waits(e, f) == e.k \in {"Fetching", "Both"} /\ e.t = f
Fetch(e, f) == IF Held(e) THEN [k |-> "Both", v |-> e.v, s |-> e.s, t |-> f]
               ELSE [k |-> "Fetching", t |-> f]
MakeStale(e) == IF Held(e) THEN [k |-> "Stale", v |-> e.v, s |-> e.s] ELSE NoEntry

(* The start time of a fetch names it, in the entries that wait for it too. *)
Free == {f \in FetchIds \ DOMAIN fetches : \A r \in Rows : ~Waits(lines[r], f)}

(* Mutants: a fetch is started for no row; no fetch while another is under  *)
(* way.                                                                     *)
ScheduledAlways(f, rows) ==
  [g \in DOMAIN fetches \cup {f} |->
     IF g = f THEN [rows |-> rows, got |-> "nothing", ans |-> <<>>] ELSE fetches[g]]
ScheduledAlone(f, rows) ==
  IF rows = {} \/ DOMAIN fetches # {} THEN fetches ELSE ScheduledAlways(f, rows)

(* schedule_fetch_lines.                                                    *)
Scheduled(f, rows) ==
  IF rows = {} THEN fetches
  ELSE [g \in DOMAIN fetches \cup {f} |->
          IF g = f THEN [rows |-> rows, got |-> "nothing", ans |-> <<>>]
          ELSE fetches[g]]

Dropped(q, i) == SubSeq(q, 1, i - 1) \o SubSeq(q, i + 1, Len(q))

(* apply_changes_to_surface.  The rows a delta names, and those the cursor  *)
(* leaves and enters, are dirty unless their line came along: in the        *)
(* viewport they are fetched, if the limiter admits it, elsewhere forgotten.*)
Apply(i, admitted) ==
  LET d == pushes[i]
      dirty == (d.dirty \cup (IF d.cur # client.cur THEN {d.cur, client.cur}
                                                   ELSE {})) \ DOMAIN d.bonus
      want == {r \in dirty : r >= d.top}
      now == CHOOSE f \in Free : TRUE
  IN /\ want # {} /\ admitted => Free # {}
     /\ pushes' = Dropped(pushes, i)
     /\ lines' = [r \in Rows |->
          IF r \in DOMAIN d.bonus THEN Line(d.bonus[r], d.bonus[r][2])
          ELSE IF r \in dirty \ want THEN NoEntry
          ELSE IF r \in want THEN
                 IF admitted THEN Fetch(lines[r], now) ELSE MakeStale(lines[r])
          ELSE lines[r]]
     /\ fetches' = IF admitted THEN Scheduled(now, want) ELSE fetches
     /\ client' = [client EXCEPT !.top = d.top, !.seqno = d.seqno, !.paint = TRUE,
          !.cur = IF d.serial = NoKey \/ d.serial >= client.serial THEN d.cur ELSE @,
          !.left = @ \ DOMAIN d.bonus]
     /\ UNCHANGED <<asked, events>> /\ ServerIsElsewhere

(* hydrate_lines awaits the images of a delta before it is applied.         *)
ApplyDelta ==
  \E i \in 1 .. Len(pushes), admitted \in BOOLEAN :
    (Hydrates \/ i = 1) /\ Apply(i, admitted)

(* apply_lines and put_line: an entry that does not wait for this very      *)
(* fetch any more is left alone.                                            *)
Largest(a, b) == IF a > b THEN a ELSE b

FetchDone(f) ==
  LET rows == {r \in fetches[f].rows : Waits(lines[r], f)}
      ans == fetches[f].ans
  IN /\ fetches[f].got # "nothing"
     /\ lines' = [r \in Rows |->
          IF r \notin rows THEN lines[r]
          ELSE IF fetches[f].got = "error"
               THEN IF Held(lines[r]) THEN Line(lines[r].v, lines[r].s) ELSE NoEntry
          ELSE IF r \in DOMAIN ans
               THEN Line(ans[r], Largest(ans[r][2], client.seqno))
          ELSE lines[r]]
     /\ fetches' = [g \in DOMAIN fetches \ {f} |-> fetches[g]]
     /\ client' = [client EXCEPT !.paint = TRUE,
          !.left = IF fetches[f].got = "lines" THEN @ \ (rows \cap DOMAIN ans) ELSE @]
     /\ UNCHANGED <<asked, pushes, events>> /\ ServerIsElsewhere

(* A repaint asks the cache for the rows in view (get_lines) and, when one  *)
(* is due, sends a poll (get_changed_since).                                *)
View == LET first == IF client.back THEN 0 ELSE client.top
        IN first .. first + H - 1

Paint(poll) ==
  LET ahead == {r \in View : lines[r].k = "Line" /\ lines[r].s > client.seqno}
      wait == {r \in View : lines[r].k \in {"None", "Stale"}}
      now == CHOOSE f \in Free : TRUE
  IN /\ client.paint
     /\ ahead \cup wait # {} => Free # {}
     /\ lines' = [r \in Rows |-> IF r \in ahead THEN MakeStale(lines[r])
                                 ELSE IF r \in wait THEN Fetch(lines[r], now)
                                 ELSE lines[r]]
     /\ fetches' = Scheduled(now, ahead \cup wait)
     /\ asked' = [asked EXCEPT !.push = @ \/ poll]
     /\ client' = [client EXCEPT !.paint = FALSE]
     /\ UNCHANGED <<pushes, events>> /\ ServerIsElsewhere

Acts == Happens /\ UNCHANGED pushes /\ ServerIsElsewhere

(* A key goes to the server.  predict_from_key_event, on a slow connection, *)
(* shows the echo the key should have: a text key changes the line of the   *)
(* cursor if there is one at hand, a motion key moves the cursor a row.     *)
Press(row, v) ==
  LET e == lines[client.cur]
  IN /\ Acts
     /\ lines' = IF ~Held(e) THEN lines
          ELSE [lines EXCEPT ![client.cur] =
                  IF e.k = "Both" THEN [e EXCEPT !.v = v] ELSE Line(v, e.s)]
     /\ client' = [client EXCEPT !.serial = @ + 1,
          !.cur = IF Held(e) THEN row ELSE @,
          !.left = IF Held(e) /\ row # client.cur THEN @ \cup {client.cur} ELSE @]
     /\ asked' = [asked EXCEPT !.keys = Append(@, client.serial + 1)]
     /\ UNCHANGED fetches

Text == "text" \in Predicted /\ Press(client.cur, Guess)

Motion ==
  /\ "motion" \in Predicted
  /\ \E row \in {client.cur - 1, client.cur + 1} \cap Rows :
       Press(row, IF Held(lines[client.cur]) THEN lines[client.cur].v ELSE Guess)

(* make_all_stale, for a new palette, a resize or a zoom.                   *)
Invalidate ==
  /\ Acts
  /\ lines' = [r \in Rows |-> IF lines[r].k = "Line" THEN MakeStale(lines[r])
                              ELSE lines[r]]
  /\ client' = [client EXCEPT !.paint = TRUE]
  /\ UNCHANGED <<asked, fetches>>

(* The user goes to the top of the scrollback, or back.                     *)
ScrollView ==
  /\ Acts
  /\ client' = [client EXCEPT !.back = ~@, !.paint = TRUE]
  /\ UNCHANGED <<asked, fetches, lines>>

(* The connection is lost and made again: the server starts a new session,  *)
(* what was on its way is gone, what was asked for fails.                   *)
NewSession ==
  /\ Happens
  /\ session' = Fresh
  /\ job' = NoJob
  /\ asked' = [push |-> FALSE, keys |-> <<>>]
  /\ \E n \in 0 .. Len(pushes) : pushes' = SubSeq(pushes, 1, n)
  /\ \E kept \in SUBSET {f \in DOMAIN fetches : fetches[f].got # "nothing"} :
       fetches' = [f \in DOMAIN fetches |->
                     IF f \in kept THEN fetches[f]
                     ELSE [fetches[f] EXCEPT !.got = "error", !.ans = <<>>]]
  /\ UNCHANGED <<term, lines, client>>

----------------------------------------------------------------------------
Serve == \/ StartPush \/ StartKey \/ ReadCursor \/ ReadSeqno
         \/ ReadDirty \/ ReadLines \/ PushDelta
AnswerFetches == \E f \in DOMAIN fetches : AnswerFetch(f)
FetchesDone == \E f \in DOMAIN fetches : FetchDone(f)
Paints == \E poll \in BOOLEAN : Paint(poll)

RenderNext == \/ Output \/ Serve \/ AnswerFetches
        \/ ApplyDelta \/ FetchesDone \/ Paints
        \/ Text \/ Motion \/ Invalidate \/ ScrollView \/ NewSession

RenderSpec == RenderInit /\ [][RenderNext]_renderVars

(* The queues of the two main threads are fair: whatever kind of work waits *)
(* has its turn.  Programs, users and networks need not act.                *)
RenderFairSpec ==
  /\ RenderSpec
  /\ WF_renderVars(Serve) /\ WF_renderVars(AnswerFetches)
  /\ WF_renderVars(ApplyDelta) /\ WF_renderVars(FetchesDone) /\ WF_renderVars(Paints)

----------------------------------------------------------------------------
Seqs == 0 .. MaxEvents + 1
Version == {"main", "alt"} \X Seqs
Content == Version \cup {Guess}
Answer == UNION {[S -> Version] : S \in SUBSET Rows}
Entry == {NoEntry} \cup [k : {"Fetching"}, t : FetchIds]
         \cup [k : {"Line", "Stale"}, v : Content, s : Seqs]
         \cup [k : {"Both"}, v : Content, s : Seqs, t : FetchIds]
Delta == [top : 0 .. MaxTop, cur : Rows, dirty : SUBSET Rows, serial : Nat,
          seqno : Seqs, bonus : Answer]
Job == {NoJob}
  \cup [pc : {"cursor"}, force : Nat, top : 0 .. MaxTop, alt : BOOLEAN]
  \cup [pc : {"seqno"}, force : Nat, top : 0 .. MaxTop, alt : BOOLEAN, cur : Rows]
  \cup [pc : {"dirty"}, force : Nat, top : 0 .. MaxTop, cur : Rows, old : Seqs]
  \cup [pc : {"lines"}, force : Nat, top : 0 .. MaxTop, cur : Rows,
        dirty : SUBSET Rows]
  \cup [pc : {"cursorline"}, force : Nat, top : 0 .. MaxTop, cur : Rows,
        dirty : SUBSET Rows, bonus : Answer]

(* The types; a session is not ahead of its terminal, and a fetch is for    *)
(* some row.                                                                *)
RenderTypeOK ==
  /\ events \in 0 .. MaxEvents
  /\ term \in [alt : BOOLEAN, top : 0 .. MaxTop, cur : Rows, seq : 1 .. events + 1,
              main : [Rows -> 0 .. events + 1], over : [0 .. H - 1 -> 0 .. events + 1]]
  /\ session \in [top : -1 .. MaxTop, cur : Rows, seqno : 0 .. term.seq,
                  blind : 0 .. term.seq]
  /\ job \in Job
  /\ asked \in [push : BOOLEAN, keys : Seq(Nat \ {NoKey})]
  /\ pushes \in Seq(Delta)
  /\ DOMAIN fetches \subseteq FetchIds
  /\ \A f \in DOMAIN fetches :
       fetches[f] \in [rows : (SUBSET Rows) \ {{}}, got : {"nothing", "lines", "error"},
                      ans : Answer]
  /\ lines \in [Rows -> Entry]
  /\ client \in [top : 0 .. MaxTop, cur : Rows, seqno : Seqs, serial : Nat,
                back : BOOLEAN, paint : BOOLEAN, left : SUBSET Rows]

(* What will still bring row r to the client: the session has yet to see    *)
(* the change, or is about to report it, or a delta that covers it is on    *)
(* its way.                                                                 *)
Named(d, r) == r \in d.dirty \/ r \in DOMAIN d.bonus

Coming(r) ==
  \/ SeqAt(term, r) > session.seqno
  \/ job.pc = "dirty" /\ r \in Changed(job.old, job.top)
  \/ job.pc = "lines" /\ r \in job.dirty
  \/ job.pc = "cursorline" /\ Named(job, r)

Promised(r) ==
  \/ Coming(r)
  \/ job.pc # "idle" /\ job.force # NoKey
  \/ asked.keys # <<>>
  \/ \E i \in 1 .. Len(pushes) : Named(pushes[i], r) \/ pushes[i].cur # client.cur

(* A change that no computation will look at.  Of a row below the first     *)
(* screen: it was there when a computation took its number that met the     *)
(* alternate screen, which has no such row.  Of a row of the alternate      *)
(* screen: it is as the last program left it, older than what is reported.  *)
PassedOver(r) ==
  IF r >= H THEN term.main[r] <= session.blind
            ELSE term.alt /\ term.over[r] < term.main[r]

(* A line the cache calls up to date is the server's line, or a correction  *)
(* is on its way: the claim of the code.                                    *)
AllLinesAreUpToDate ==
  \A r \in Existing(term) :
    lines[r].k = "Line" /\ lines[r].v # LineAt(term, r) => Promised(r)

(* It holds but for the changes passed over, and for the rows that a        *)
(* predicted motion of the cursor left.                                     *)
LinesAreUpToDate ==
  \A r \in Existing(term) :
    lines[r].k = "Line" /\ lines[r].v # LineAt(term, r) =>
      Promised(r) \/ PassedOver(r) \/ r \in client.left

(* An entry that says it is being fetched is: its fetch is under way.  A    *)
(* row the terminal loses while it is being asked for breaks this.          *)
FetchingIsUnderWay ==
  \A r \in Rows : lines[r].k \in {"Fetching", "Both"} => lines[r].t \in DOMAIN fetches

(* Once programs and user are quiet, the window shows what the server has   *)
(* (or the session is new and nothing has been asked of it), but for those  *)
(* rows and for the row FetchingIsUnderWay is about, below those of the     *)
(* alternate screen.                                                        *)
Shown(r) == /\ lines[r].k = "Line"
            /\ r \in Existing(term) /\ lines[r].v = LineAt(term, r)
GivenUp(r) == r >= H /\ lines[r].k \in {"Fetching", "Both"}
                     /\ lines[r].t \notin DOMAIN fetches
ShowsTheTerminal ==
  \A r \in View : \/ Shown(r) \/ GivenUp(r)
                  \/ r \in Existing(term) /\ (PassedOver(r) \/ r \in client.left)

Converges == <>[](session = Fresh \/ ShowsTheTerminal)

=============================================================================
