-------------------------- MODULE SocketConnection --------------------------
(***************************************************************************)
(* One connection of SocketConnection.swift: the client writes lines, the  *)
(* reader thread puts them together again from whatever read(2) delivers   *)
(* and decodes them, and the main thread handles them and answers.  A line *)
(* that is not a request is answered by the reader thread itself.          *)
(*                                                                         *)
(* The answers of the handlers are those of WebViewManager and             *)
(* ProfileManager; here it only matters which line an answer is for.       *)
(***************************************************************************)
EXTENDS Naturals, Sequences, SequencesExt

CONSTANTS
  Scripts,    \* what a client may send: sequences of kinds of lines
  MaxChunk    \* the most that one read(2) returns, in pieces

Kinds == {"request", "garbage", "blank"}

\* Scripts for TLC: up to three lines of any kind.
ShortScripts == UNION {[1..n -> Kinds] : n \in 1..3}

ASSUME ScriptsAssumption == Scripts \subseteq Seq(Kinds)
ASSUME MaxChunkAssumption == MaxChunk \in Nat \ {0}

VARIABLES
  script,     \* the lines of this client
  written,    \* how many it has written
  client,     \* "open", or "gone" once its end is closed
  stream,     \* pieces of lines on their way to the reader
  buffer,     \* pieces that the reader holds
  reader,     \* "reading", "parsing" or "ended"
  mainQueue,  \* the lines whose handler waits on DispatchQueue.main
  parsed,     \* history: the lines that reached processLine
  out         \* the lines answered, in the order of the answers

vars == <<script, written, client, stream, buffer, reader, mainQueue, parsed, out>>

\* A line is two pieces, of which the second ends with the newline; a blank
\* line is a newline alone.
Pieces(i) ==
  IF script[i] = "blank" THEN <<[line |-> i, newline |-> TRUE]>>
  ELSE <<[line |-> i, newline |-> FALSE], [line |-> i, newline |-> TRUE]>>

Piece == [line : Nat, newline : BOOLEAN]

\* The types, with what they owe to each other: nothing is left to parse when
\* the reader has gone back to read(2), or has ended.
TypeOK ==
  /\ script \in Scripts
  /\ written \in 0..Len(script)
  /\ client \in {"open", "gone"}
  /\ stream \in Seq(Piece) /\ buffer \in Seq(Piece)
  /\ reader \in {"reading", "parsing", "ended"}
  /\ mainQueue \in Seq(1..Len(script))
  /\ parsed \in Seq(1..Len(script))
  /\ out \in Seq(1..Len(script))
  /\ reader # "parsing" => \A i \in DOMAIN buffer : ~buffer[i].newline

Init ==
  /\ script \in Scripts
  /\ written = 0 /\ client = "open"
  /\ stream = <<>> /\ buffer = <<>> /\ reader = "reading"
  /\ mainQueue = <<>> /\ parsed = <<>> /\ out = <<>>

\* sendResponse: an answer to a client that is gone is lost.
Answer(i) == out' = IF client = "open" THEN Append(out, i) ELSE out

-----------------------------------------------------------------------------
(* The client.                                                             *)

ClientWrites ==
  /\ client = "open" /\ written < Len(script)
  /\ written' = written + 1
  /\ stream' = stream \o Pieces(written + 1)
  /\ UNCHANGED <<script, client, buffer, reader, mainQueue, parsed, out>>

\* It closes its end, or dies; perhaps in the middle of a line.
ClientLeaves ==
  /\ client = "open"
  /\ client' = "gone"
  /\ \/ UNCHANGED stream
     \/ stream # <<>> /\ stream' = Front(stream)
  /\ UNCHANGED <<script, written, buffer, reader, mainQueue, parsed, out>>

-----------------------------------------------------------------------------
(* The reader thread.                                                      *)

\* availableData: some of what is there.
Reads ==
  /\ reader = "reading"
  /\ \E n \in 1..MaxChunk :
       /\ n <= Len(stream)
       /\ buffer' = buffer \o SubSeq(stream, 1, n)
       /\ stream' = SubSeq(stream, n + 1, Len(stream))
  /\ reader' = "parsing"
  /\ UNCHANGED <<script, written, client, mainQueue, parsed, out>>

\* The end of the stream: what is left of an unfinished line is dropped.
ReadsEnd ==
  /\ reader = "reading" /\ stream = <<>> /\ client = "gone"
  /\ reader' = "ended"
  /\ UNCHANGED <<script, written, client, stream, buffer, mainQueue, parsed, out>>

\* processBuffer: where the first complete line of the buffer ends.
Complete == \E i \in DOMAIN buffer : buffer[i].newline
LineEnd == CHOOSE i \in DOMAIN buffer :
             buffer[i].newline /\ \A j \in 1..(i - 1) : ~buffer[j].newline

\* A mutant of ProcessLine: what cannot be decoded is only logged.
ProcessLineQuietly(i) ==
  /\ parsed' = Append(parsed, i)
  /\ mainQueue' = IF script[i] = "request" THEN Append(mainQueue, i) ELSE mainQueue
  /\ UNCHANGED out

\* processLine: a request goes to the main queue, anything else is answered
\* here.
ProcessLine(i) ==
  /\ parsed' = Append(parsed, i)
  /\ IF script[i] = "request"
     THEN mainQueue' = Append(mainQueue, i) /\ UNCHANGED out
     ELSE Answer(i) /\ UNCHANGED mainQueue

\* Mutants of TakesLine: the buffer is emptied with the line that is taken; one
\* line is taken for each read.
TakesAll ==
  /\ reader = "parsing" /\ Complete
  /\ buffer' = <<>>
  /\ IF LineEnd = 1 THEN UNCHANGED <<mainQueue, parsed, out>>
     ELSE ProcessLine(buffer[1].line)
  /\ UNCHANGED <<script, written, client, stream, reader>>

TakesOne ==
  /\ reader = "parsing" /\ Complete
  /\ buffer' = SubSeq(buffer, LineEnd + 1, Len(buffer))
  /\ IF LineEnd = 1 THEN UNCHANGED <<mainQueue, parsed, out>>
     ELSE ProcessLine(buffer[1].line)
  /\ reader' = "reading"
  /\ UNCHANGED <<script, written, client, stream>>

\* One turn of its loop.
TakesLine ==
  /\ reader = "parsing" /\ Complete
  /\ buffer' = SubSeq(buffer, LineEnd + 1, Len(buffer))
  /\ IF LineEnd = 1 THEN UNCHANGED <<mainQueue, parsed, out>>
     ELSE ProcessLine(buffer[1].line)
  /\ UNCHANGED <<script, written, client, stream, reader>>

ReadsOn ==
  /\ reader = "parsing" /\ ~Complete
  /\ reader' = "reading"
  /\ UNCHANGED <<script, written, client, stream, buffer, mainQueue, parsed, out>>

-----------------------------------------------------------------------------
\* A mutant of Handles: requests are handled concurrently.
HandlesAny ==
  /\ mainQueue # <<>>
  /\ \E k \in DOMAIN mainQueue :
       /\ mainQueue' = RemoveAt(mainQueue, k)
       /\ Answer(mainQueue[k])
  /\ UNCHANGED <<script, written, client, stream, buffer, reader, parsed>>

\* The main thread handles a request and answers it.
Handles ==
  /\ mainQueue # <<>>
  /\ mainQueue' = Tail(mainQueue)
  /\ Answer(Head(mainQueue))
  /\ UNCHANGED <<script, written, client, stream, buffer, reader, parsed>>

ReaderStep == Reads \/ ReadsEnd \/ TakesLine \/ ReadsOn

Next == ClientWrites \/ ClientLeaves \/ ReaderStep \/ Handles

Spec == Init /\ [][Next]_vars /\ WF_vars(ReaderStep) /\ WF_vars(Handles)

-----------------------------------------------------------------------------
\* The lines that the client has written and that want to be processed.
Wanted == {i \in 1..written : script[i] # "blank"}
OfKind(kind) == {i \in 1..Len(script) : script[i] = kind}

\* The members of S among some lines are the first ones of S, each once and in
\* order: none is overtaken and none is left out.
StartOf(S, lines) ==
  /\ \A k, l \in DOMAIN lines :
       k < l /\ lines[k] \in S /\ lines[l] \in S => lines[k] < lines[l]
  /\ \A i, j \in S : i < j /\ j \in Range(lines) => i \in Range(lines)

\* However read(2) cuts the stream, processLine gets the lines of the client
\* that are not blank, each once, whole and in order.
LinesInOrder == Range(parsed) \subseteq Wanted /\ StartOf(Wanted, parsed)

\* The requests of a client are answered in the order it made them, each once,
\* and so are the lines that are none; but the errors of the reader thread may
\* overtake the answers of the main thread.
AnswersInOrder ==
  /\ Range(out) \subseteq Wanted
  /\ \A kind \in Kinds : StartOf(OfKind(kind), out)

\* A client that writes a line and stays gets an answer for it.
EveryLineAnswered ==
  \A i \in UNION {DOMAIN s : s \in Scripts} :
    i \in Wanted ~> i \in Range(out) \/ client = "gone"
=============================================================================
