------------------------- MODULE Connection_proofs -------------------------
(***************************************************************************)
(* Theorems about a connection, in its two views: SocketConnection, which  *)
(* names the lines and cuts them into pieces, and ConsoleStream, which     *)
(* counts them and lets the buffers on their way fill up.  For any script  *)
(* of a client, and however its pieces are read, lines are taken and       *)
(* answered in order; and no line of a page is lost or doubled.            *)
(***************************************************************************)
EXTENDS SocketConnection, ConsoleStream, SequenceTheorems, TLAPS

-----------------------------------------------------------------------------
(* Sequences.                                                              *)

\* What appending does to a sequence and its members.
LEMMA AppendAdds ==
  ASSUME NEW S, NEW s \in Seq(S), NEW e \in S
  PROVE  /\ Append(s, e) \in Seq(S)
         /\ Len(Append(s, e)) = Len(s) + 1
         /\ \A k \in 1..Len(s) : Append(s, e)[k] = s[k]
         /\ Append(s, e)[Len(s) + 1] = e
         /\ Range(Append(s, e)) = Range(s) \cup {e}
  <1>1. /\ Append(s, e) \in Seq(S) /\ Len(Append(s, e)) = Len(s) + 1
        /\ DOMAIN Append(s, e) = 1..(Len(s) + 1) /\ DOMAIN s = 1..Len(s)
        /\ \A k \in 1..Len(s) : Append(s, e)[k] = s[k]
        /\ Append(s, e)[Len(s) + 1] = e
    OBVIOUS
  <1>2. Len(s) \in Nat
    OBVIOUS
  <1>3. \A k \in 1..(Len(s) + 1) : k \in 1..Len(s) \/ k = Len(s) + 1
    BY <1>2
  <1>4. 1..Len(s) \subseteq 1..(Len(s) + 1) /\ Len(s) + 1 \in 1..(Len(s) + 1)
    BY <1>2
  <1>5. Range(Append(s, e)) = Range(s) \cup {e}
    BY <1>1, <1>3, <1>4 DEF Range
  <1> QED
    BY <1>1, <1>5

\* The members of a sequence of numbers that grows.
LEMMA NumberAdds ==
  ASSUME NEW s \in Seq(Nat), NEW e \in Nat
  PROVE  Range(Append(s, e)) = Range(s) \cup {e}
  BY AppendAdds

\* Sequences of one and of two.
LEMMA Short ==
  ASSUME NEW S, NEW x \in S, NEW y \in S
  PROVE  /\ <<x>> \in Seq(S) /\ Len(<<x>>) = 1
         /\ <<x, y>> \in Seq(S) /\ Len(<<x, y>>) = 2
  OBVIOUS

\* What taking the head away does.
LEMMA TailTakes ==
  ASSUME NEW S, NEW s \in Seq(S), s # <<>>
  PROVE  /\ Head(s) \in S /\ Tail(s) \in Seq(S)
         /\ Head(s) = s[1] /\ 1 \in DOMAIN s
         /\ \A k \in DOMAIN Tail(s) : k + 1 \in DOMAIN s /\ Tail(s)[k] = s[k + 1]
         /\ Range(s) = Range(Tail(s)) \cup {Head(s)}
  <1>1. /\ Head(s) \in S /\ Tail(s) \in Seq(S) /\ Head(s) = s[1] /\ 1 \in DOMAIN s
        /\ Len(s) \in Nat /\ DOMAIN s = 1..Len(s) /\ DOMAIN Tail(s) = 1..(Len(s) - 1)
        /\ \A k \in 1..(Len(s) - 1) : Tail(s)[k] = s[k + 1]
    OBVIOUS
  <1>2. \A k \in 1..(Len(s) - 1) : k + 1 \in 1..Len(s)
    BY <1>1
  <1>3. \A k \in 1..Len(s) : k = 1 \/ (k - 1 \in 1..(Len(s) - 1) /\ (k - 1) + 1 = k)
    BY <1>1
  <1>4. ASSUME NEW k \in DOMAIN s PROVE s[k] \in Range(Tail(s)) \cup {Head(s)}
    <2>1. CASE k = 1
      BY <1>1, <2>1
    <2>2. CASE k - 1 \in DOMAIN Tail(s) /\ (k - 1) + 1 = k
      <3>1. Tail(s)[k - 1] = s[k]
        BY <1>1, <2>2
      <3> QED
        BY <2>2, <3>1 DEF Range
    <2> QED
      BY <1>1, <1>3, <2>1, <2>2
  <1>5. Range(Tail(s)) \cup {Head(s)} \subseteq Range(s)
    BY <1>1, <1>2 DEF Range
  <1>6. Range(s) \subseteq Range(Tail(s)) \cup {Head(s)}
    BY <1>4 DEF Range
  <1> QED
    BY <1>1, <1>2, <1>5, <1>6

\* A member of S goes to the end when all that is below it has gone before.
LEMMA StartGrows ==
  ASSUME NEW S \in SUBSET Nat, NEW s \in Seq(Nat), NEW e \in Nat, StartOf(S, s),
         e \in S => \A i \in S :
           (i \in Range(s) => i < e) /\ (i < e => i \in Range(s))
  PROVE  StartOf(S, Append(s, e))
  <1> DEFINE t == Append(s, e)
  <1>1. /\ t \in Seq(Nat) /\ Len(t) = Len(s) + 1 /\ Len(s) \in Nat
        /\ DOMAIN t = 1..(Len(s) + 1) /\ DOMAIN s = 1..Len(s)
        /\ \A k \in 1..Len(s) : t[k] = s[k]
        /\ t[Len(s) + 1] = e
        /\ Range(t) = Range(s) \cup {e}
    BY AppendAdds, LenProperties
  <1> HIDE DEF t
  <1>2. ASSUME NEW k \in DOMAIN t, NEW l \in DOMAIN t, k < l, t[k] \in S, t[l] \in S
        PROVE  t[k] < t[l]
    <2>1. k \in DOMAIN s /\ t[k] = s[k] /\ s[k] \in Range(s)
      BY <1>1, <1>2 DEF Range
    <2>2. CASE l = Len(s) + 1
      BY <1>1, <1>2, <2>1, <2>2
    <2>3. CASE l # Len(s) + 1
      <3>1. l \in DOMAIN s /\ t[l] = s[l]
        BY <1>1, <2>3
      <3> QED
        BY <1>2, <2>1, <3>1 DEF StartOf
    <2> QED
      BY <2>2, <2>3
  <1>3. ASSUME NEW i \in S, NEW j \in S, i < j, j \in Range(t)
        PROVE  i \in Range(t)
    BY <1>1, <1>3 DEF StartOf
  <1> QED
    BY <1>2, <1>3 DEF StartOf, t

-----------------------------------------------------------------------------
(* What is on its way.                                                     *)

\* The pieces that the reader holds and those that it has not read.
Flow == buffer \o stream

\* They are whole lines, in order, except that the last may have been cut off by
\* a client that left.
Whole(f) ==
  /\ \A a \in DOMAIN f : f[a].line \in 1..written
  /\ \A a \in DOMAIN f : ~f[a].newline =>
       /\ script[f[a].line] # "blank"
       /\ a + 1 \in DOMAIN f => f[a + 1].line = f[a].line /\ f[a + 1].newline
  /\ \A a \in DOMAIN f : f[a].newline /\ script[f[a].line] # "blank" =>
       a > 1 /\ ~f[a - 1].newline
  /\ \A a, b \in DOMAIN f : a < b /\ f[a].newline => f[a].line < f[b].line
  /\ client = "open" /\ f # <<>> => f[Len(f)].newline

\* A line that was written is processed or on its way, and the processed ones
\* are before all others.
Reached ==
  /\ \A i \in Range(parsed) : \A a \in DOMAIN Flow : i < Flow[a].line
  /\ \A i \in Wanted : i \in Range(parsed) \/ \E a \in DOMAIN Flow : Flow[a].line = i

\* The main thread has the requests that are processed and not answered, in
\* their order and behind those that are.
Queued ==
  /\ \A i \in Range(mainQueue) : i \in Range(parsed) /\ script[i] = "request"
  /\ \A k, l \in DOMAIN mainQueue : k < l => mainQueue[k] < mainQueue[l]
  /\ \A i \in Range(out) : i \in Range(parsed)
  /\ \A i \in Range(out), j \in Range(mainQueue) : script[i] = "request" => i < j
  /\ client = "open" =>
       \A i \in Range(parsed) : i \in Range(out) \/ i \in Range(mainQueue)

Inv ==
  /\ TypeOK /\ Whole(Flow) /\ Reached /\ Queued
  /\ LinesInOrder /\ AnswersInOrder

\* What is known of a script and of the flow, in any state.
LEMMA Types ==
  ASSUME TypeOK
  PROVE  /\ script \in Seq(Kinds) /\ Len(script) \in Nat /\ written \in Nat
         /\ \A i \in 1..Len(script) : script[i] \in Kinds
         /\ Flow \in Seq(Piece) /\ Len(Flow) = Len(buffer) + Len(stream)
         /\ Len(buffer) \in Nat /\ Len(stream) \in Nat
         /\ DOMAIN Flow = 1..Len(Flow) /\ DOMAIN buffer = 1..Len(buffer)
         /\ \A a \in 1..Len(Flow) :
              Flow[a] = IF a <= Len(buffer) THEN buffer[a] ELSE stream[a - Len(buffer)]
         /\ \A a \in 1..Len(Flow) : Flow[a].line \in Nat /\ Flow[a].newline \in BOOLEAN
         /\ Wanted \subseteq Nat /\ \A kind : OfKind(kind) \subseteq Nat
  <1>1. script \in Seq(Kinds) /\ written \in 0..Len(script)
    BY ScriptsAssumption DEF TypeOK
  <1>2. buffer \in Seq(Piece) /\ stream \in Seq(Piece)
    BY DEF TypeOK
  <1>3. Len(script) \in Nat /\ written \in Nat
    BY <1>1
  <1>4. /\ Flow \in Seq(Piece) /\ Len(Flow) = Len(buffer) + Len(stream)
        /\ Len(buffer) \in Nat /\ Len(stream) \in Nat
        /\ DOMAIN Flow = 1..Len(Flow) /\ DOMAIN buffer = 1..Len(buffer)
        /\ \A a \in 1..Len(Flow) :
             Flow[a] = IF a <= Len(buffer) THEN buffer[a] ELSE stream[a - Len(buffer)]
    BY <1>2, ConcatProperties, LenProperties DEF Flow
  <1>5. \A a \in 1..Len(Flow) : Flow[a] \in Piece
    BY <1>4, ElementOfSeq
  <1>6. \A i \in 1..Len(script) : script[i] \in Kinds
    BY <1>1, ElementOfSeq
  <1>7. Wanted \subseteq Nat /\ \A kind : OfKind(kind) \subseteq Nat
    BY <1>3 DEF Wanted, OfKind
  <1> QED
    BY <1>1, <1>3, <1>4, <1>5, <1>6, <1>7 DEF Piece

-----------------------------------------------------------------------------
(* What the steps do to it.                                                *)

\* The first line of the buffer is a blank one, or two pieces of one line.
LEMMA FirstLine ==
  ASSUME TypeOK, Whole(Flow), Complete
  PROVE  /\ LineEnd \in 1..2 /\ LineEnd <= Len(buffer)
         /\ buffer[1] = Flow[1] /\ Flow[LineEnd].newline
         /\ Flow[LineEnd].line = Flow[1].line
         /\ Flow[1].line \in 1..written
         /\ LineEnd = 1 <=> script[Flow[1].line] = "blank"
  <1> DEFINE IsEnd(i) == buffer[i].newline /\ \A j \in 1..(i - 1) : ~buffer[j].newline
  <1>1. \A a \in DOMAIN buffer : a \in 1..Len(Flow) /\ Flow[a] = buffer[a]
    BY Types
  <1>2. PICK i \in DOMAIN buffer : buffer[i].newline
    BY DEF Complete
  <1>3. i \in Nat /\ 1 <= i /\ i <= Len(buffer) /\ Len(buffer) \in Nat
    BY <1>2, Types
  <1>4. 1 \in DOMAIN buffer /\ 1 \in DOMAIN Flow
    BY <1>1, <1>3, Types
  <1>5. Flow[1].line \in 1..written
    BY <1>4 DEF Whole
  <1>6. CASE buffer[1].newline
    <2>1. IsEnd(1)
      BY <1>6
    <2>2. IsEnd(LineEnd) /\ LineEnd \in DOMAIN buffer
      BY <1>4, <2>1 DEF LineEnd
    <2>3. LineEnd = 1
      <3> SUFFICES ASSUME LineEnd # 1 PROVE FALSE
        OBVIOUS
      <3>1. 1 \in 1..(LineEnd - 1)
        BY <2>2, Types
      <3> QED
        BY <1>6, <2>2, <3>1
    <2>4. script[Flow[1].line] = "blank"
      <3>1. ~(1 > 1)
        OBVIOUS
      <3> QED
        BY <1>1, <1>4, <1>6, <3>1 DEF Whole
    <2> QED
      BY <1>1, <1>3, <1>4, <1>5, <1>6, <2>3, <2>4
  <1>7. CASE ~buffer[1].newline
    <2>1. i # 1
      BY <1>2, <1>7
    <2>2. 2 \in DOMAIN buffer /\ 2 \in DOMAIN Flow
      BY <1>1, <1>3, <2>1, Types
    <2>3. /\ script[Flow[1].line] # "blank"
          /\ Flow[1 + 1].line = Flow[1].line /\ Flow[1 + 1].newline
      <3>1. 1 + 1 = 2
        OBVIOUS
      <3> QED
        BY <1>1, <1>4, <1>7, <2>2, <3>1 DEF Whole
    <2>4. Flow[2].line = Flow[1].line /\ Flow[2].newline /\ buffer[2].newline
      BY <1>1, <2>2, <2>3
    <2>5. \A j \in 1..(2 - 1) : j = 1
      OBVIOUS
    <2>6. IsEnd(2)
      BY <1>7, <2>4, <2>5
    <2>7. IsEnd(LineEnd) /\ LineEnd \in DOMAIN buffer
      BY <2>2, <2>6 DEF LineEnd
    <2>8. LineEnd = 2
      <3>1. LineEnd # 1
        BY <1>7, <2>7
      <3>2. LineEnd \in Nat /\ 1 <= LineEnd
        BY <2>7, Types
      <3>3. LineEnd > 2 => 2 \in 1..(LineEnd - 1)
        BY <3>2
      <3> QED
        BY <2>4, <2>7, <3>1, <3>2, <3>3
    <2> QED
      BY <1>1, <1>3, <1>4, <1>5, <2>2, <2>3, <2>4, <2>8, Types
  <1> QED
    BY <1>6, <1>7

\* The reader moves pieces to its buffer: the flow stays.
LEMMA ReadsMoves ==
  ASSUME TypeOK, Reads
  PROVE  Flow' = Flow /\ buffer' \in Seq(Piece) /\ stream' \in Seq(Piece)
  <1>1. PICK n \in 1..MaxChunk :
          /\ n <= Len(stream)
          /\ buffer' = buffer \o SubSeq(stream, 1, n)
          /\ stream' = SubSeq(stream, n + 1, Len(stream))
    BY DEF Reads
  <1> DEFINE s1 == SubSeq(stream, 1, n)
             s2 == SubSeq(stream, n + 1, Len(stream))
  <1>2. stream \in Seq(Piece) /\ buffer \in Seq(Piece) /\ Len(stream) \in Nat
    BY DEF TypeOK
  <1>3. n \in Nat /\ 1 <= n /\ n <= Len(stream)
    BY <1>1, MaxChunkAssumption
  <1>4. s1 \in Seq(Piece) /\ s2 \in Seq(Piece)
    <2>1. \A k \in 1..n : stream[k] \in Piece
      BY <1>2, <1>3, ElementOfSeq
    <2>2. \A k \in (n + 1)..Len(stream) : stream[k] \in Piece
      BY <1>2, <1>3, ElementOfSeq
    <2> QED
      BY <1>2, <1>3, <2>1, <2>2, SubSeqProperties
  <1>5. s1 \o s2 = stream
    <2>1. 1 \in 1..(Len(stream) + 1) /\ n \in (1 - 1)..Len(stream)
      BY <1>2, <1>3
    <2>2. Len(stream) \in n..Len(stream)
      BY <1>2, <1>3
    <2>3. s1 \o s2 = SubSeq(stream, 1, Len(stream))
      BY <1>2, <2>1, <2>2, ConcatAdjacentSubSeq
    <2> QED
      BY <1>2, <2>3, SubSeqFull
  <1> HIDE DEF s1, s2
  <1>6. (buffer \o s1) \o s2 = buffer \o (s1 \o s2)
    BY <1>2, <1>4, ConcatAssociative
  <1>7. buffer' = buffer \o s1 /\ stream' = s2
    BY <1>1 DEF s1, s2
  <1>8. buffer \o s1 \in Seq(Piece)
    BY <1>2, <1>4, ConcatProperties
  <1> QED
    BY <1>4, <1>5, <1>6, <1>7, <1>8 DEF Flow

\* A line leaves the flow at its head.
LEMMA LineLeaves ==
  ASSUME TypeOK, Whole(Flow), TakesLine
  PROVE  /\ buffer' \in Seq(Piece)
         /\ Flow' \in Seq(Piece) /\ Len(Flow') = Len(Flow) - LineEnd
         /\ DOMAIN Flow' = 1..(Len(Flow) - LineEnd)
         /\ \A a \in DOMAIN Flow' :
              a + LineEnd \in DOMAIN Flow /\ Flow'[a] = Flow[a + LineEnd]
  <1> DEFINE e == LineEnd
             rest == SubSeq(buffer, e + 1, Len(buffer))
  <1>1. Complete /\ buffer' = rest /\ stream' = stream
    BY DEF TakesLine
  <1>2. e \in 1..2 /\ e <= Len(buffer)
    BY <1>1, FirstLine
  <1>3. stream \in Seq(Piece) /\ buffer \in Seq(Piece)
    BY DEF TypeOK
  <1>4. Len(buffer) \in Nat /\ Len(stream) \in Nat
    BY Types
  <1>5. \A k \in (e + 1)..Len(buffer) : buffer[k] \in Piece
    BY <1>2, <1>3, <1>4, ElementOfSeq
  <1> HIDE DEF e
  <1>6. /\ rest \in Seq(Piece)
        /\ Len(rest) = IF e + 1 <= Len(buffer) THEN Len(buffer) - (e + 1) + 1 ELSE 0
        /\ \A k \in 1..(Len(buffer) - (e + 1) + 1) : rest[k] = buffer[(e + 1) + k - 1]
    BY <1>2, <1>4, <1>5, SubSeqProperties
  <1>7. Len(rest) = Len(buffer) - e
    BY <1>2, <1>4, <1>6
  <1>8. \A k \in 1..(Len(buffer) - e) : rest[k] = buffer[k + e]
    <2> SUFFICES ASSUME NEW k \in 1..(Len(buffer) - e) PROVE rest[k] = buffer[k + e]
      OBVIOUS
    <2>1. k \in 1..(Len(buffer) - (e + 1) + 1) /\ (e + 1) + k - 1 = k + e
      BY <1>2, <1>4
    <2> QED
      BY <1>6, <2>1
  <1> HIDE DEF rest
  <1>9. Flow' = rest \o stream
    BY <1>1 DEF Flow
  <1>10. /\ rest \o stream \in Seq(Piece)
         /\ Len(rest \o stream) = Len(rest) + Len(stream)
         /\ \A k \in 1..(Len(rest) + Len(stream)) : (rest \o stream)[k] =
               IF k <= Len(rest) THEN rest[k] ELSE stream[k - Len(rest)]
    BY <1>3, <1>6, ConcatProperties
  <1>11. Flow' \in Seq(Piece) /\ Len(Flow') = Len(Flow) - e
    BY <1>4, <1>7, <1>9, <1>10, <1>2, Types
  <1>12. DOMAIN Flow' = 1..(Len(Flow) - e)
    BY <1>11, LenProperties
  <1>13. ASSUME NEW a \in 1..(Len(Flow) - e)
         PROVE  a + e \in DOMAIN Flow /\ Flow'[a] = Flow[a + e]
    <2>1. a + e \in 1..Len(Flow) /\ a \in Nat
      BY <1>2, Types
    <2>2. a \in 1..(Len(rest) + Len(stream))
      BY <1>2, <1>4, <1>7, Types
    <2>3. CASE a <= Len(rest)
      <3>1. Flow'[a] = buffer[a + e]
        BY <1>4, <1>7, <1>8, <1>9, <1>10, <2>1, <2>2, <2>3
      <3>2. a + e <= Len(buffer)
        BY <1>2, <1>4, <1>7, <2>1, <2>3
      <3> QED
        BY <2>1, <3>1, <3>2, Types
    <2>4. CASE ~(a <= Len(rest))
      <3>1. Flow'[a] = stream[a - Len(rest)]
        BY <1>9, <1>10, <2>2, <2>4
      <3>2. ~(a + e <= Len(buffer)) /\ a - Len(rest) = (a + e) - Len(buffer)
        BY <1>2, <1>4, <1>7, <2>1, <2>4
      <3> QED
        BY <2>1, <3>1, <3>2, Types
    <2> QED
      BY <2>3, <2>4
  <1> QED
    BY <1>1, <1>6, <1>11, <1>12, <1>13 DEF e

\* The next line of the client comes at the end of the flow.
LEMMA LineComes ==
  ASSUME TypeOK, ClientWrites
  PROVE  LET n == written + 1
             p == Pieces(n)
         IN  /\ n \in 1..Len(script) /\ written' = n
             /\ stream' \in Seq(Piece)
             /\ Len(p) \in 1..2 /\ (Len(p) = 1 <=> script[n] = "blank")
             /\ Len(Flow') = Len(Flow) + Len(p) /\ DOMAIN Flow' = 1..Len(Flow')
             /\ \A a \in DOMAIN Flow : Flow'[a] = Flow[a]
             /\ \A a \in DOMAIN Flow' : a \in DOMAIN Flow \/
                  (a > Len(Flow) /\ Flow'[a].line = n
                     /\ (Flow'[a].newline <=> a = Len(Flow')))
  <1> DEFINE n == written + 1
             p == Pieces(n)
  <1>1. n \in 1..Len(script) /\ n \in Nat /\ written' = n
    BY Types DEF ClientWrites, TypeOK
  <1>2. /\ p \in Seq(Piece) /\ Len(p) \in 1..2 /\ (Len(p) = 1 <=> script[n] = "blank")
        /\ \A k \in 1..Len(p) : p[k].line = n /\ (p[k].newline <=> k = Len(p))
    <2>1. [line |-> n, newline |-> TRUE] \in Piece /\ [line |-> n, newline |-> FALSE] \in Piece
      BY <1>1 DEF Piece
    <2>2. CASE script[n] = "blank"
      <3>1. p = <<[line |-> n, newline |-> TRUE]>>
        BY <2>2 DEF Pieces
      <3>2. p \in Seq(Piece) /\ Len(p) = 1
        BY <2>1, <3>1, Short
      <3>3. p[1].line = n /\ p[1].newline = TRUE
        BY <3>1
      <3>4. \A k \in 1..1 : k = 1
        OBVIOUS
      <3> QED
        BY <2>2, <3>2, <3>3, <3>4
    <2>3. CASE script[n] # "blank"
      <3>1. p = <<[line |-> n, newline |-> FALSE], [line |-> n, newline |-> TRUE]>>
        BY <2>3 DEF Pieces
      <3> DEFINE p1 == [line |-> n, newline |-> FALSE]
                 p2 == [line |-> n, newline |-> TRUE]
      <3>5. p1 \in Piece /\ p2 \in Piece /\ p = <<p1, p2>>
        BY <2>1, <3>1
      <3> HIDE DEF p1, p2
      <3>2. p \in Seq(Piece) /\ Len(p) = 2
        BY <3>5, Short
      <3>3. /\ p[1].line = n /\ p[1].newline = FALSE
            /\ p[2].line = n /\ p[2].newline = TRUE
        BY <3>1
      <3> HIDE DEF p
      <3>4. \A k \in 1..2 : p[k].line = n /\ (p[k].newline <=> k = 2)
        BY <3>3
      <3> QED
        BY <2>3, <3>2, <3>4
    <2> QED
      BY <2>2, <2>3
  <1>3. stream \in Seq(Piece) /\ buffer \in Seq(Piece)
    BY DEF TypeOK
  <1>4. stream' = stream \o p /\ buffer' = buffer
    BY DEF ClientWrites
  <1> HIDE DEF p
  <1>5. stream' \in Seq(Piece)
    BY <1>2, <1>3, <1>4, ConcatProperties
  <1>6. Flow' = Flow \o p /\ Flow \in Seq(Piece)
    <2>1. (buffer \o stream) \o p = buffer \o (stream \o p)
      BY <1>2, <1>3, ConcatAssociative
    <2> QED
      BY <1>4, <2>1, Types DEF Flow
  <1>7. /\ Flow' \in Seq(Piece) /\ Len(Flow') = Len(Flow) + Len(p)
        /\ \A a \in 1..(Len(Flow) + Len(p)) : Flow'[a] =
              IF a <= Len(Flow) THEN Flow[a] ELSE p[a - Len(Flow)]
    BY <1>2, <1>6, ConcatProperties
  <1>8. DOMAIN Flow' = 1..Len(Flow') /\ DOMAIN Flow = 1..Len(Flow) /\ Len(Flow) \in Nat
    BY <1>6, <1>7, LenProperties
  <1>9. \A a \in DOMAIN Flow : Flow'[a] = Flow[a]
    BY <1>2, <1>7, <1>8
  <1>10. ASSUME NEW a \in DOMAIN Flow', a \notin DOMAIN Flow
         PROVE  /\ a > Len(Flow) /\ Flow'[a].line = n
                /\ Flow'[a].newline <=> a = Len(Flow')
    <2>1. a > Len(Flow) /\ a - Len(Flow) \in 1..Len(p)
      BY <1>2, <1>7, <1>8, <1>10
    <2>2. Flow'[a] = p[a - Len(Flow)]
      BY <1>7, <1>8, <2>1
    <2>3. a - Len(Flow) = Len(p) <=> a = Len(Flow')
      BY <1>2, <1>7, <1>8, <2>1
    <2> QED
      BY <1>2, <2>1, <2>2, <2>3
  <1> QED
    BY <1>1, <1>2, <1>5, <1>7, <1>8, <1>9, <1>10 DEF p

\* A client that leaves cuts off a piece at most.
LEMMA PieceLost ==
  ASSUME TypeOK, ClientLeaves
  PROVE  /\ stream' \in Seq(Piece)
         /\ Len(Flow') \in {Len(Flow), Len(Flow) - 1}
         /\ DOMAIN Flow' = 1..Len(Flow')
         /\ \A a \in DOMAIN Flow' : a \in DOMAIN Flow /\ Flow'[a] = Flow[a]
  <1>1. stream \in Seq(Piece) /\ buffer \in Seq(Piece) /\ buffer' = buffer
    BY DEF TypeOK, ClientLeaves
  <1>2. Len(stream) \in Nat /\ Len(buffer) \in Nat
    BY Types
  <1>3. CASE stream' = stream
    <2>1. Flow' = Flow
      BY <1>1, <1>3 DEF Flow
    <2> QED
      BY <1>1, <1>3, <2>1, Types
  <1>4. CASE stream # <<>> /\ stream' = Front(stream)
    <2>1. stream' = SubSeq(stream, 1, Len(stream) - 1)
      BY <1>4 DEF Front
    <2>2. Len(stream) >= 1
      BY <1>1, <1>4, EmptySeq
    <2>3. \A k \in 1..(Len(stream) - 1) : stream[k] \in Piece
      BY <1>1, <1>2, ElementOfSeq
    <2>4. /\ stream' \in Seq(Piece)
          /\ Len(stream') = IF 1 <= Len(stream) - 1 THEN Len(stream) - 1 - 1 + 1 ELSE 0
          /\ \A k \in 1..(Len(stream) - 1 - 1 + 1) : stream'[k] = stream[1 + k - 1]
      BY <1>2, <2>1, <2>3, SubSeqProperties
    <2>5. Len(stream') = Len(stream) - 1
      <3>1. Len(stream') = IF 1 <= Len(stream) - 1 THEN Len(stream) - 1 - 1 + 1 ELSE 0
        BY <2>4
      <3> DEFINE m == Len(stream)
      <3>2. m \in Nat /\ m >= 1
        BY <1>2, <2>2
      <3> HIDE DEF m
      <3>3. (IF 1 <= m - 1 THEN m - 1 - 1 + 1 ELSE 0) = m - 1
        BY <3>2
      <3> QED
        BY <3>1, <3>3 DEF m
    <2>6. \A k \in 1..Len(stream') : stream'[k] = stream[k]
      <3> SUFFICES ASSUME NEW k \in 1..Len(stream') PROVE stream'[k] = stream[k]
        OBVIOUS
      <3>1. k \in 1..(Len(stream) - 1 - 1 + 1) /\ 1 + k - 1 = k
        BY <1>2, <2>2, <2>5
      <3> QED
        BY <2>4, <3>1
    <2>7. /\ Flow' = buffer \o stream'
          /\ Flow' \in Seq(Piece) /\ Len(Flow') = Len(buffer) + Len(stream')
          /\ \A a \in 1..(Len(buffer) + Len(stream')) : Flow'[a] =
                IF a <= Len(buffer) THEN buffer[a] ELSE stream'[a - Len(buffer)]
      BY <1>1, <2>4, ConcatProperties DEF Flow
    <2>8. DOMAIN Flow' = 1..Len(Flow')
      BY <2>7, LenProperties
    <2>9. Len(Flow') = Len(Flow) - 1
      BY <1>2, <2>5, <2>7, Types
    <2>10. ASSUME NEW a \in DOMAIN Flow' PROVE a \in DOMAIN Flow /\ Flow'[a] = Flow[a]
      <3>1. a \in 1..Len(Flow) /\ a \in Nat
        BY <1>2, <2>8, <2>9, Types
      <3>2. CASE a <= Len(buffer)
        BY <2>7, <2>8, <3>1, <3>2, Types
      <3>3. CASE ~(a <= Len(buffer))
        <4>1. a - Len(buffer) \in 1..Len(stream')
          BY <1>2, <2>5, <2>7, <2>8, <3>1, <3>3
        <4> QED
          BY <2>6, <2>7, <2>8, <3>1, <3>3, <4>1, Types
      <3> QED
        BY <3>2, <3>3
    <2> QED
      BY <2>4, <2>8, <2>9, <2>10
  <1> QED
    BY <1>3, <1>4 DEF ClientLeaves

\* The flow stays whole when its first line leaves,
LEMMA WholeTakes ==
  ASSUME TypeOK, Whole(Flow), TakesLine
  PROVE  Whole(Flow)'
  <1> DEFINE f == Flow
             g == Flow'
             e == LineEnd
             m == Len(Flow)
  <1>1. script' = script /\ written' = written /\ client' = client
    BY DEF TakesLine
  <1>2. /\ e \in 1..2 /\ e <= m /\ f[e].newline
        /\ m \in Nat /\ DOMAIN f = 1..m
    BY FirstLine, Types DEF TakesLine
  <1>3. /\ Len(g) = m - e /\ DOMAIN g = 1..(m - e)
        /\ \A a \in DOMAIN g : a + e \in DOMAIN f /\ g[a] = f[a + e]
        /\ g # <<>> => Len(g) # 0
    BY LineLeaves, EmptySeq
  <1>4. /\ \A a \in DOMAIN f : f[a].line \in 1..written
        /\ \A a \in DOMAIN f : ~f[a].newline =>
             /\ script[f[a].line] # "blank"
             /\ a + 1 \in DOMAIN f => f[a + 1].line = f[a].line /\ f[a + 1].newline
        /\ \A a \in DOMAIN f : f[a].newline /\ script[f[a].line] # "blank" =>
             a > 1 /\ ~f[a - 1].newline
        /\ \A a, b \in DOMAIN f : a < b /\ f[a].newline => f[a].line < f[b].line
        /\ client = "open" /\ f # <<>> => f[Len(f)].newline
    BY DEF Whole
  <1> HIDE DEF f, g, e
  <1>5. ASSUME NEW a \in DOMAIN g, ~g[a].newline
        PROVE  /\ script[g[a].line] # "blank"
               /\ a + 1 \in DOMAIN g => g[a + 1].line = g[a].line /\ g[a + 1].newline
    <2>1. a + e \in DOMAIN f /\ g[a] = f[a + e]
      BY <1>3
    <2>2. ASSUME a + 1 \in DOMAIN g PROVE g[a + 1].line = g[a].line /\ g[a + 1].newline
      <3>1. (a + 1) + e = (a + e) + 1 /\ (a + e) + 1 \in DOMAIN f
        BY <1>2, <1>3, <2>2
      <3>2. g[a + 1] = f[(a + e) + 1]
        BY <1>3, <2>2, <3>1
      <3> QED
        BY <1>4, <1>5, <2>1, <3>1, <3>2
    <2> QED
      BY <1>4, <1>5, <2>1, <2>2
  <1>6. ASSUME NEW a \in DOMAIN g, g[a].newline, script[g[a].line] # "blank"
        PROVE  a > 1 /\ ~g[a - 1].newline
    <2>1. /\ a + e \in DOMAIN f /\ g[a] = f[a + e]
          /\ a + e > 1 /\ ~f[(a + e) - 1].newline
      BY <1>3, <1>4, <1>6
    <2>2. a # 1
      <3> SUFFICES ASSUME a = 1 PROVE FALSE
        OBVIOUS
      <3>1. (a + e) - 1 = e
        BY <1>2
      <3> QED
        BY <1>2, <2>1, <3>1
    <2>3. a > 1 /\ a - 1 \in DOMAIN g /\ (a - 1) + e = (a + e) - 1
      BY <1>2, <1>3, <2>2
    <2> QED
      BY <1>3, <2>1, <2>3
  <1>7. ASSUME NEW a \in DOMAIN g, NEW b \in DOMAIN g, a < b, g[a].newline
        PROVE  g[a].line < g[b].line
    <2>1. a + e < b + e
      BY <1>2, <1>3, <1>7
    <2> QED
      BY <1>3, <1>4, <1>7, <2>1
  <1>8. ASSUME client = "open", g # <<>> PROVE g[Len(g)].newline
    <2>1. Len(g) \in DOMAIN g /\ Len(g) + e = m /\ m # 0
      BY <1>2, <1>3, <1>8
    <2>2. f # <<>> /\ m = Len(f)
      BY <1>2, <2>1 DEF f
    <2> QED
      BY <1>3, <1>4, <1>8, <2>1, <2>2
  <1>9. \A a \in DOMAIN g : g[a].line \in 1..written
    BY <1>3, <1>4
  <1> QED
    BY <1>1, <1>5, <1>6, <1>7, <1>8, <1>9 DEF Whole, g

\* when another comes,
LEMMA WholeComes ==
  ASSUME TypeOK, Whole(Flow), ClientWrites
  PROVE  Whole(Flow)'
  <1> DEFINE f == Flow
             g == Flow'
             n == written + 1
             k == Len(Pieces(n))
             m == Len(Flow)
  <1>1. script' = script /\ written' = n /\ client' = client /\ client = "open"
    BY DEF ClientWrites
  <1>2. n \in Nat /\ written \in Nat /\ m \in Nat /\ DOMAIN f = 1..m
    BY Types
  <1>3. /\ k \in 1..2 /\ (k = 1 <=> script[n] = "blank")
        /\ Len(g) = m + k /\ DOMAIN g = 1..(m + k)
        /\ \A a \in DOMAIN f : g[a] = f[a]
        /\ \A a \in DOMAIN g : a \in DOMAIN f \/
             (a > m /\ g[a].line = n /\ (g[a].newline <=> a = m + k))
    BY LineComes
  <1>4. /\ \A a \in DOMAIN f : f[a].line \in 1..written
        /\ \A a \in DOMAIN f : ~f[a].newline =>
             /\ script[f[a].line] # "blank"
             /\ a + 1 \in DOMAIN f => f[a + 1].line = f[a].line /\ f[a + 1].newline
        /\ \A a \in DOMAIN f : f[a].newline /\ script[f[a].line] # "blank" =>
             a > 1 /\ ~f[a - 1].newline
        /\ \A a, b \in DOMAIN f : a < b /\ f[a].newline => f[a].line < f[b].line
        /\ f # <<>> => f[m].newline
    BY <1>1 DEF Whole
  <1>5. \A a \in DOMAIN f : f # <<>>
    BY <1>2
  <1> HIDE DEF f, g, k, n, m
  <1>6. ASSUME NEW a \in DOMAIN g, ~g[a].newline
        PROVE  /\ script[g[a].line] # "blank"
               /\ a + 1 \in DOMAIN g => g[a + 1].line = g[a].line /\ g[a + 1].newline
    <2>1. CASE a \in DOMAIN f
      <3>1. a # m
        BY <1>3, <1>4, <1>5, <1>6, <2>1
      <3>2. a + 1 \in DOMAIN f
        BY <1>2, <2>1, <3>1
      <3> QED
        BY <1>3, <1>4, <1>6, <2>1, <3>2
    <2>2. CASE a \notin DOMAIN f
      <3>1. a > m /\ g[a].line = n /\ a # m + k
        BY <1>3, <1>6, <2>2
      <3>2. k = 2 /\ a = m + 1
        BY <1>2, <1>3, <3>1
      <3>3. a + 1 = m + k /\ a + 1 \notin DOMAIN f
        BY <1>2, <3>2
      <3> QED
        BY <1>3, <3>1, <3>2, <3>3
    <2> QED
      BY <2>1, <2>2
  <1>7. ASSUME NEW a \in DOMAIN g, g[a].newline, script[g[a].line] # "blank"
        PROVE  a > 1 /\ ~g[a - 1].newline
    <2>1. CASE a \in DOMAIN f
      <3>1. a > 1 /\ ~f[a - 1].newline
        BY <1>3, <1>4, <1>7, <2>1
      <3>2. a - 1 \in DOMAIN f
        BY <1>2, <2>1, <3>1
      <3> QED
        BY <1>3, <3>1, <3>2
    <2>2. CASE a \notin DOMAIN f
      <3>1. a = m + k /\ g[a].line = n
        BY <1>3, <1>7, <2>2
      <3>2. k = 2
        BY <1>3, <1>7, <3>1
      <3>3. a > 1 /\ a - 1 \in DOMAIN g /\ a - 1 \notin DOMAIN f /\ a - 1 # m + k
        BY <1>2, <1>3, <3>1, <3>2
      <3> QED
        BY <1>3, <3>3
    <2> QED
      BY <2>1, <2>2
  <1>8. ASSUME NEW a \in DOMAIN g, NEW b \in DOMAIN g, a < b, g[a].newline
        PROVE  g[a].line < g[b].line
    <2>1. CASE a \in DOMAIN f
      <3>1. g[a].line \in 1..written /\ g[a] = f[a]
        BY <1>3, <1>4, <2>1
      <3>2. CASE b \in DOMAIN f
        BY <1>3, <1>4, <1>8, <2>1, <3>2
      <3>3. CASE b \notin DOMAIN f
        <4>1. g[b].line = n
          BY <1>3, <3>3
        <4> QED
          BY <1>2, <3>1, <4>1 DEF n
      <3> QED
        BY <3>2, <3>3
    <2>2. CASE a \notin DOMAIN f
      <3>1. a = m + k
        BY <1>3, <1>8, <2>2
      <3> QED
        BY <1>2, <1>3, <1>8, <3>1
    <2> QED
      BY <2>1, <2>2
  <1>9. g[Len(g)].newline
    <2>1. m + k \in DOMAIN g /\ m + k \notin DOMAIN f
      BY <1>2, <1>3
    <2> QED
      BY <1>3, <2>1
  <1>10. ASSUME NEW a \in DOMAIN g PROVE g[a].line \in 1..n
    <2>1. CASE a \in DOMAIN f
      BY <1>2, <1>3, <1>4, <2>1 DEF n
    <2>2. CASE a \notin DOMAIN f
      BY <1>2, <1>3, <2>2 DEF n
    <2> QED
      BY <2>1, <2>2
  <1> QED
    BY <1>1, <1>6, <1>7, <1>8, <1>9, <1>10 DEF Whole, g

\* and when the client leaves.
LEMMA WholeLost ==
  ASSUME TypeOK, Whole(Flow), ClientLeaves
  PROVE  Whole(Flow)'
  <1> DEFINE f == Flow
             g == Flow'
  <1>1. script' = script /\ written' = written /\ client' = "gone"
    BY DEF ClientLeaves
  <1>2. /\ DOMAIN g = 1..Len(g)
        /\ \A a \in DOMAIN g : a \in DOMAIN f /\ g[a] = f[a]
    BY PieceLost
  <1>3. Len(g) \in Int
    <2>1. Len(g) \in {Len(Flow), Len(Flow) - 1}
      BY PieceLost
    <2>2. Len(Flow) \in Int
      BY Types
    <2> QED
      BY <2>1, <2>2
  <1>4. /\ \A a \in DOMAIN f : f[a].line \in 1..written
        /\ \A a \in DOMAIN f : ~f[a].newline =>
             /\ script[f[a].line] # "blank"
             /\ a + 1 \in DOMAIN f => f[a + 1].line = f[a].line /\ f[a + 1].newline
        /\ \A a \in DOMAIN f : f[a].newline /\ script[f[a].line] # "blank" =>
             a > 1 /\ ~f[a - 1].newline
        /\ \A a, b \in DOMAIN f : a < b /\ f[a].newline => f[a].line < f[b].line
    BY DEF Whole
  <1> HIDE DEF f, g
  <1>5. ASSUME NEW a \in DOMAIN g, g[a].newline, script[g[a].line] # "blank"
        PROVE  a > 1 /\ ~g[a - 1].newline
    <2>1. a > 1 /\ ~f[a - 1].newline
      BY <1>2, <1>4, <1>5
    <2>2. a - 1 \in DOMAIN g
      BY <1>2, <1>3, <2>1
    <2> QED
      BY <1>2, <2>1, <2>2
  <1>6. \A a \in DOMAIN g : g[a].line \in 1..written
    BY <1>2, <1>4
  <1>7. ASSUME NEW a \in DOMAIN g, ~g[a].newline
        PROVE  /\ script[g[a].line] # "blank"
               /\ a + 1 \in DOMAIN g => g[a + 1].line = g[a].line /\ g[a + 1].newline
    BY <1>2, <1>4, <1>7
  <1>8. \A a, b \in DOMAIN g : a < b /\ g[a].newline => g[a].line < g[b].line
    BY <1>2, <1>4
  <1> QED
    BY <1>1, <1>5, <1>6, <1>7, <1>8 DEF Whole, g

-----------------------------------------------------------------------------
(* What the steps do to the lines.                                         *)

\* The line that is taken is the least of the flow, and is processed unless it
\* is blank.
LEMMA LineTaken ==
  ASSUME TypeOK, Whole(Flow), TakesLine, NEW b, b = Flow[1].line
  PROVE  /\ b \in 1..written /\ b \in 1..Len(script)
         /\ \A a \in DOMAIN Flow : IF a <= LineEnd THEN Flow[a].line = b
                                                   ELSE b < Flow[a].line
         /\ \/ script[b] = "blank" /\ UNCHANGED <<mainQueue, parsed, out>>
            \/ script[b] # "blank" /\ ProcessLine(b)
  <1>1. Complete
    BY DEF TakesLine
  <1>2. /\ LineEnd \in 1..2 /\ LineEnd <= Len(buffer)
        /\ buffer[1] = Flow[1] /\ Flow[LineEnd].newline
        /\ Flow[LineEnd].line = b /\ b \in 1..written
        /\ LineEnd = 1 <=> script[b] = "blank"
    BY <1>1, FirstLine
  <1>3. b \in 1..Len(script)
    BY <1>2 DEF TypeOK
  <1>4. DOMAIN Flow = 1..Len(Flow) /\ LineEnd \in DOMAIN Flow
    BY <1>2, Types
  <1>5. ASSUME NEW a \in DOMAIN Flow, a <= LineEnd PROVE Flow[a].line = b
    <2>1. a = 1 \/ a = LineEnd
      BY <1>2, <1>4, <1>5
    <2> QED
      BY <1>2, <2>1
  <1>6. ASSUME NEW a \in DOMAIN Flow, ~(a <= LineEnd) PROVE b < Flow[a].line
    <2>1. LineEnd < a
      BY <1>2, <1>4, <1>6
    <2> QED
      BY <1>2, <1>4, <2>1 DEF Whole
  <1> QED
    BY <1>2, <1>3, <1>5, <1>6 DEF TakesLine

\* Taking a line keeps what is processed complete and in order.
LEMMA OrderTakes ==
  ASSUME TypeOK, Whole(Flow), Reached, LinesInOrder, TakesLine
  PROVE  Reached' /\ LinesInOrder'
  <1> DEFINE f == Flow
             g == Flow'
             e == LineEnd
             b == Flow[1].line
  <1>1. /\ b \in 1..written /\ b \in Nat
        /\ \A a \in DOMAIN f : IF a <= e THEN f[a].line = b ELSE b < f[a].line
        /\ \/ script[b] = "blank" /\ UNCHANGED <<mainQueue, parsed, out>>
           \/ script[b] # "blank" /\ ProcessLine(b)
    BY LineTaken
  <1>2. script' = script /\ written' = written /\ Wanted' = Wanted
    BY DEF TakesLine, Wanted
  <1>3. /\ e \in 1..2 /\ 1 \in DOMAIN f /\ DOMAIN f = 1..Len(f) /\ Len(f) \in Nat
    BY FirstLine, Types DEF TakesLine
  <1>4. /\ DOMAIN g = 1..(Len(f) - e)
        /\ \A a \in DOMAIN g : a + e \in DOMAIN f /\ g[a] = f[a + e]
    BY LineLeaves
  <1>5. ASSUME NEW a \in DOMAIN f, ~(a <= e)
        PROVE  a - e \in DOMAIN g /\ g[a - e] = f[a]
    <2>1. a - e \in DOMAIN g /\ (a - e) + e = a
      BY <1>3, <1>4, <1>5
    <2> QED
      BY <1>4, <2>1
  <1>6. /\ \A i \in Range(parsed) : \A a \in DOMAIN f : i < f[a].line
        /\ \A i \in Wanted : i \in Range(parsed) \/ \E a \in DOMAIN f : f[a].line = i
    BY DEF Reached
  <1>7. \A a \in DOMAIN g : ~(a + e <= e)
    BY <1>3, <1>4
  <1> HIDE DEF f, g, e, b
  <1>8. CASE script[b] = "blank" /\ UNCHANGED <<mainQueue, parsed, out>>
    <2>1. b \notin Wanted /\ parsed' = parsed
      BY <1>8 DEF Wanted
    <2>2. ASSUME NEW i \in Wanted, i \notin Range(parsed)
          PROVE  \E a \in DOMAIN g : g[a].line = i
      <3>1. PICK a \in DOMAIN f : f[a].line = i
        BY <1>6, <2>2
      <3>2. ~(a <= e)
        BY <1>1, <2>1, <2>2, <3>1
      <3> QED
        BY <1>5, <3>1, <3>2
    <2>3. Reached'
      BY <1>2, <1>4, <1>6, <2>1, <2>2 DEF Reached, g
    <2>4. LinesInOrder'
      BY <1>2, <2>1 DEF LinesInOrder, StartOf
    <2> QED
      BY <2>3, <2>4
  <1>9. CASE script[b] # "blank" /\ ProcessLine(b)
    <2>1. b \in Wanted /\ parsed' = Append(parsed, b)
      BY <1>1, <1>9 DEF Wanted, ProcessLine
    <2>2. parsed \in Seq(Nat)
      <3>1. parsed \in Seq(1..Len(script)) /\ 1..Len(script) \subseteq Nat
        BY Types DEF TypeOK
      <3> QED
        BY <3>1, SeqMonotonic
    <2>3. Range(parsed') = Range(parsed) \cup {b}
      BY <1>1, <2>1, <2>2, AppendAdds
    <2>4. ASSUME NEW i \in Range(parsed'), NEW a \in DOMAIN g PROVE i < g[a].line
      <3>1. a + e \in DOMAIN f /\ g[a] = f[a + e] /\ b < f[a + e].line
        BY <1>1, <1>4, <1>7
      <3> QED
        BY <1>6, <2>3, <3>1
    <2>5. ASSUME NEW i \in Wanted, i \notin Range(parsed')
          PROVE  \E a \in DOMAIN g : g[a].line = i
      <3>1. PICK a \in DOMAIN f : f[a].line = i
        BY <1>6, <2>3, <2>5
      <3>2. ~(a <= e)
        BY <1>1, <2>3, <2>5, <3>1
      <3> QED
        BY <1>5, <3>1, <3>2
    <2>6. Reached'
      BY <1>2, <2>4, <2>5 DEF Reached, g
    <2>7. Wanted \in SUBSET Nat
      BY Types
    <2>8. ASSUME NEW i \in Wanted
          PROVE  (i \in Range(parsed) => i < b) /\ (i < b => i \in Range(parsed))
      <3>1. i \in Range(parsed) => i < b
        BY <1>3, <1>6 DEF b, f
      <3>2. ASSUME i < b PROVE i \in Range(parsed)
        <4> SUFFICES ASSUME NEW a \in DOMAIN f, f[a].line = i PROVE FALSE
          BY <1>6
        <4>1. i = b \/ b < i
          BY <1>1
        <4> QED
          BY <1>1, <2>7, <3>2, <4>1
      <3> QED
        BY <3>1, <3>2
    <2>9. StartOf(Wanted, parsed)
      BY DEF LinesInOrder
    <2>10. StartOf(Wanted, parsed')
      BY <1>1, <2>1, <2>2, <2>7, <2>8, <2>9, StartGrows
    <2>11. Range(parsed') \subseteq Wanted
      BY <2>1, <2>3 DEF LinesInOrder
    <2>12. StartOf(Wanted, parsed)' <=> StartOf(Wanted, parsed')
      BY <1>2 DEF StartOf
    <2> QED
      BY <1>2, <2>6, <2>10, <2>11, <2>12 DEF LinesInOrder
  <1> QED
    BY <1>1, <1>8, <1>9

\* A line that is written comes behind all others.
LEMMA OrderComes ==
  ASSUME TypeOK, Reached, LinesInOrder, ClientWrites
  PROVE  Reached' /\ LinesInOrder'
  <1> DEFINE n == written + 1
             g == Flow'
             k == Len(Pieces(n))
  <1>1. script' = script /\ parsed' = parsed /\ written' = n
    BY DEF ClientWrites
  <1>2. n \in Nat /\ written \in Nat /\ Len(Flow) \in Nat /\ DOMAIN Flow = 1..Len(Flow)
    BY Types
  <1>3. /\ k \in 1..2
        /\ DOMAIN g = 1..(Len(Flow) + k)
        /\ \A a \in DOMAIN Flow : g[a] = Flow[a]
        /\ \A a \in DOMAIN g : a \in DOMAIN Flow \/ g[a].line = n
    BY LineComes
  <1>4. Wanted' = {i \in 1..n : script[i] # "blank"}
    BY <1>1 DEF Wanted
  <1> HIDE DEF k, g
  <1>5. Wanted \subseteq Wanted' /\ \A i \in Wanted' : i \in Wanted \/ i = n
    BY <1>2, <1>4 DEF Wanted
  <1>6. \A i \in Range(parsed) : i \in Wanted /\ i \in Nat /\ i < n
    BY <1>2 DEF LinesInOrder, Wanted
  <1>7. \A i \in Range(parsed) : \A a \in DOMAIN g : i < g[a].line
    BY <1>3, <1>6 DEF Reached
  <1>8. DOMAIN Flow \subseteq DOMAIN g
    BY <1>2, <1>3
  <1>9. \E a \in DOMAIN g : g[a].line = n
    <2>1. Len(Flow) + k \in DOMAIN g /\ Len(Flow) + k \notin DOMAIN Flow
      BY <1>2, <1>3
    <2> QED
      BY <1>3, <2>1
  <1>10. \A i \in Wanted' : i \in Range(parsed) \/ \E a \in DOMAIN g : g[a].line = i
    BY <1>3, <1>5, <1>8, <1>9 DEF Reached
  <1>11. Reached'
    BY <1>1, <1>7, <1>10 DEF Reached, g
  <1>12. ASSUME NEW i \in Wanted', NEW j \in Wanted', i < j, j \in Range(parsed)
         PROVE  i \in Range(parsed)
    <2>1. i # n
      BY <1>2, <1>6, <1>12
    <2>2. i \in Wanted /\ j \in Wanted
      BY <1>5, <1>6, <1>12, <2>1
    <2> QED
      BY <1>12, <2>2 DEF LinesInOrder, StartOf
  <1>13. \A x, y \in DOMAIN parsed :
           x < y /\ parsed[x] \in Wanted' /\ parsed[y] \in Wanted' => parsed[x] < parsed[y]
    <2>1. \A x \in DOMAIN parsed : parsed[x] \in Wanted
      BY <1>6 DEF Range
    <2> QED
      BY <2>1 DEF LinesInOrder, StartOf
  <1>14. LinesInOrder'
    BY <1>1, <1>5, <1>6, <1>12, <1>13 DEF LinesInOrder, StartOf
  <1> QED
    BY <1>11, <1>14

\* A piece that is lost is not the only one of a line that is wanted.
LEMMA OrderLost ==
  ASSUME TypeOK, Whole(Flow), Reached, LinesInOrder, ClientLeaves
  PROVE  Reached' /\ LinesInOrder'
  <1> DEFINE f == Flow
             g == Flow'
             m == Len(Flow)
  <1>1. /\ script' = script /\ parsed' = parsed /\ written' = written /\ Wanted' = Wanted
        /\ client = "open"
    BY DEF ClientLeaves, Wanted
  <1>2. /\ Len(g) \in {m, m - 1} /\ DOMAIN g = 1..Len(g)
        /\ \A a \in DOMAIN g : a \in DOMAIN f /\ g[a] = f[a]
    BY PieceLost
  <1>3. m \in Nat /\ DOMAIN f = 1..m
    BY Types
  <1>4. \A a \in DOMAIN f : f # <<>>
    BY <1>3
  <1>5. f # <<>> => f[m].newline
    BY <1>1 DEF Whole
  <1>6. ASSUME NEW i \in Wanted, i \notin Range(parsed)
        PROVE  \E a \in DOMAIN g : g[a].line = i
    <2>1. PICK a \in DOMAIN f : f[a].line = i
      BY <1>6 DEF Reached
    <2>2. CASE a \in DOMAIN g
      BY <1>2, <2>1, <2>2
    <2>3. CASE a \notin DOMAIN g
      <3> HIDE DEF f, g, m
      <3>6. Len(g) # m
        BY <1>2, <1>3, <2>1, <2>3
      <3>7. Len(g) = m - 1
        BY <1>2, <3>6
      <3>1. a = m /\ Len(g) = m - 1
        BY <1>2, <1>3, <2>1, <2>3, <3>7
      <3> USE DEF f, g, m
      <3>2. script[i] # "blank" /\ f[m].newline
        BY <1>4, <1>5, <1>6, <2>1 DEF Wanted
      <3>3. m > 1 /\ ~f[m - 1].newline
        BY <2>1, <3>1, <3>2 DEF Whole
      <3>4. m - 1 \in DOMAIN f /\ m - 1 \in DOMAIN g /\ (m - 1) + 1 = m
        BY <1>2, <1>3, <3>1, <3>3
      <3>5. f[(m - 1) + 1].line = f[m - 1].line
        BY <2>1, <3>1, <3>3, <3>4 DEF Whole
      <3> QED
        BY <1>2, <2>1, <3>1, <3>4, <3>5
    <2> QED
      BY <2>2, <2>3
  <1> HIDE DEF g
  <1>7. Reached'
    BY <1>1, <1>2, <1>6 DEF Reached, g
  <1>8. LinesInOrder'
    BY <1>1 DEF LinesInOrder, StartOf
  <1> QED
    BY <1>7, <1>8

-----------------------------------------------------------------------------
(* What the steps do to the answers.                                       *)

\* Line numbers are numbers.
LEMMA NumberTypes ==
  ASSUME TypeOK
  PROVE  /\ parsed \in Seq(Nat) /\ mainQueue \in Seq(Nat) /\ out \in Seq(Nat)
         /\ Range(parsed) \subseteq Nat /\ Range(out) \subseteq Nat
         /\ Range(mainQueue) \subseteq Nat
  <1>1. 1..Len(script) \subseteq Nat
    BY Types
  <1>2. parsed \in Seq(Nat) /\ mainQueue \in Seq(Nat) /\ out \in Seq(Nat)
    BY <1>1, SeqMonotonic DEF TypeOK
  <1> QED
    BY <1>2, ElementOfSeq, LenProperties DEF Range

\* A line that is processed is queued, or answered by the reader at once.
LEMMA QueueTakes ==
  ASSUME TypeOK, Whole(Flow), Reached, LinesInOrder, Queued, AnswersInOrder, TakesLine
  PROVE  Queued' /\ AnswersInOrder'
  <1> DEFINE b == Flow[1].line
  <1>1. /\ b \in 1..written /\ b \in Nat
        /\ \/ script[b] = "blank" /\ UNCHANGED <<mainQueue, parsed, out>>
           \/ script[b] # "blank" /\ ProcessLine(b)
    BY LineTaken
  <1>2. /\ script' = script /\ written' = written /\ client' = client
        /\ Wanted' = Wanted /\ \A kind : OfKind(kind)' = OfKind(kind)
    BY DEF TakesLine, Wanted, OfKind
  <1>3. /\ 1 \in DOMAIN Flow
        /\ \A a \in DOMAIN Flow : IF a <= LineEnd THEN Flow[a].line = b
                                                  ELSE b < Flow[a].line
    BY LineTaken, FirstLine, Types DEF TakesLine
  <1>4. \A i \in Range(parsed) : i < b
    BY <1>3 DEF Reached
  <1>5. ASSUME NEW i \in Wanted, i < b PROVE i \in Range(parsed)
    <2> SUFFICES ASSUME NEW a \in DOMAIN Flow, Flow[a].line = i PROVE FALSE
      BY <1>5 DEF Reached
    <2>1. i \in Nat
      BY Types
    <2>2. i = b \/ b < i
      BY <1>3
    <2> QED
      BY <1>1, <1>5, <2>1, <2>2
  <1>8. /\ b \in Nat
        /\ parsed \in Seq(Nat) /\ mainQueue \in Seq(Nat) /\ out \in Seq(Nat)
    BY <1>1, NumberTypes
  <1> HIDE DEF b
  <1>6. CASE UNCHANGED <<mainQueue, parsed, out>>
    BY <1>2, <1>6 DEF Queued, AnswersInOrder, StartOf
  <1>7. CASE script[b] # "blank" /\ ProcessLine(b)
    <2>1. parsed' = Append(parsed, b) /\ Range(parsed') = Range(parsed) \cup {b}
      <3>1. Range(Append(parsed, b)) = Range(parsed) \cup {b}
        BY <1>8, AppendAdds
      <3> QED
        BY <1>7, <3>1 DEF ProcessLine
    <2>2. b \in Wanted
      BY <1>1, <1>7 DEF Wanted
    <2>3. CASE script[b] = "request"
      <3>1. mainQueue' = Append(mainQueue, b) /\ out' = out
        BY <1>7, <2>3 DEF ProcessLine
      <3>2. /\ Len(mainQueue') = Len(mainQueue) + 1 /\ Len(mainQueue) \in Nat
            /\ DOMAIN mainQueue = 1..Len(mainQueue)
            /\ DOMAIN mainQueue' = 1..(Len(mainQueue) + 1)
            /\ \A k \in DOMAIN mainQueue : mainQueue'[k] = mainQueue[k]
            /\ mainQueue'[Len(mainQueue) + 1] = b
            /\ Range(mainQueue') = Range(mainQueue) \cup {b}
        BY <1>8, <3>1, AppendAdds, LenProperties
      <3>3. ASSUME NEW k \in DOMAIN mainQueue', NEW l \in DOMAIN mainQueue', k < l
            PROVE  mainQueue'[k] < mainQueue'[l]
        <4>1. k \in DOMAIN mainQueue /\ mainQueue[k] \in Range(mainQueue)
          BY <3>2, <3>3 DEF Range
        <4>2. mainQueue[k] \in Range(parsed)
          BY <4>1 DEF Queued
        <4>3. CASE l = Len(mainQueue) + 1
          BY <1>4, <3>2, <4>1, <4>2, <4>3
        <4>4. CASE l # Len(mainQueue) + 1
          <5>1. l \in DOMAIN mainQueue
            BY <3>2, <4>4
          <5> QED
            BY <3>2, <3>3, <4>1, <5>1 DEF Queued
        <4> QED
          BY <4>3, <4>4
      <3>4. \A i \in Range(out), j \in Range(mainQueue') :
              script[i] = "request" => i < j
        BY <1>4, <3>2 DEF Queued
      <3>5. Queued'
        BY <1>2, <2>1, <2>3, <3>1, <3>2, <3>3, <3>4 DEF Queued
      <3>6. AnswersInOrder'
        BY <1>2, <3>1 DEF AnswersInOrder, StartOf
      <3> QED
        BY <3>5, <3>6
    <2>4. CASE script[b] # "request" /\ client = "open"
      <3>1. mainQueue' = mainQueue /\ out' = Append(out, b)
        BY <1>7, <2>4 DEF ProcessLine, Answer
      <3>2. Range(out') = Range(out) \cup {b}
        <4>1. Range(Append(out, b)) = Range(out) \cup {b}
          BY <1>8, NumberAdds
        <4> QED
          BY <3>1, <4>1
      <3>3. Queued'
        BY <1>2, <2>1, <2>4, <3>1, <3>2 DEF Queued
      <3>4. ASSUME NEW kind \in Kinds PROVE StartOf(OfKind(kind), out')
        <4>1. OfKind(kind) \in SUBSET Nat /\ out \in Seq(Nat)
          BY Types, NumberTypes
        <4>2. ASSUME b \in OfKind(kind), NEW i \in OfKind(kind)
              PROVE  (i \in Range(out) => i < b) /\ (i < b => i \in Range(out))
          <5>1. i \in Range(out) => i < b
            BY <1>4 DEF Queued
          <5>2. ASSUME i < b PROVE i \in Range(out)
            <6>1. script[i] = script[b] /\ i \in Nat /\ 1 <= i
              BY <4>1, <4>2 DEF OfKind
            <6>2. i \in Wanted
              BY <1>1, <1>7, <5>2, <6>1, Types DEF Wanted
            <6>3. i \in Range(parsed)
              BY <1>5, <5>2, <6>2
            <6>4. i \notin Range(mainQueue)
              BY <2>4, <6>1 DEF Queued
            <6> QED
              BY <2>4, <6>3, <6>4 DEF Queued
          <5> QED
            BY <5>1, <5>2
        <4>3. StartOf(OfKind(kind), out)
          BY DEF AnswersInOrder
        <4> QED
          BY <1>1, <3>1, <4>1, <4>2, <4>3, StartGrows
      <3>5. Range(out') \subseteq Wanted
        BY <2>2, <3>2 DEF AnswersInOrder
      <3>6. AnswersInOrder'
        BY <1>2, <3>4, <3>5 DEF AnswersInOrder, StartOf
      <3> QED
        BY <3>3, <3>6
    <2>5. CASE script[b] # "request" /\ client # "open"
      <3>1. mainQueue' = mainQueue /\ out' = out
        BY <1>7, <2>5 DEF ProcessLine, Answer
      <3> QED
        BY <1>2, <2>1, <2>5, <3>1 DEF Queued, AnswersInOrder, StartOf
    <2> QED
      BY <2>3, <2>4, <2>5
  <1> QED
    BY <1>1, <1>6, <1>7

\* The request that is handled is the next one of those that were processed.
LEMMA QueueHandles ==
  ASSUME TypeOK, LinesInOrder, Queued, AnswersInOrder, Handles
  PROVE  Queued' /\ AnswersInOrder'
  <1> DEFINE h == Head(mainQueue)
             rest == Tail(mainQueue)
  <1>1. mainQueue # <<>> /\ mainQueue' = rest /\ parsed' = parsed
    BY DEF Handles
  <1>2. /\ script' = script /\ written' = written /\ client' = client
        /\ Wanted' = Wanted /\ \A kind : OfKind(kind)' = OfKind(kind)
    BY DEF Handles, Wanted, OfKind
  <1>3. /\ h \in Nat /\ h = mainQueue[1] /\ 1 \in DOMAIN mainQueue
        /\ rest \in Seq(Nat)
        /\ \A k \in DOMAIN rest : k + 1 \in DOMAIN mainQueue /\ rest[k] = mainQueue[k + 1]
        /\ Range(mainQueue) = Range(rest) \cup {h}
    BY <1>1, NumberTypes, TailTakes
  <1>4. DOMAIN rest \subseteq Nat \ {0}
    BY <1>3, LenProperties
  <1> HIDE DEF h, rest
  <1>5. \A k \in DOMAIN rest : h < rest[k]
    <2> SUFFICES ASSUME NEW k \in DOMAIN rest PROVE h < rest[k]
      OBVIOUS
    <2>1. 1 < k + 1
      BY <1>4
    <2> QED
      BY <1>3, <2>1 DEF Queued
  <1>6. \A j \in Range(rest) : h < j
    BY <1>5 DEF Range
  <1>7. \A k, l \in DOMAIN rest : k < l => rest[k] < rest[l]
    <2> SUFFICES ASSUME NEW k \in DOMAIN rest, NEW l \in DOMAIN rest, k < l
                 PROVE  rest[k] < rest[l]
      OBVIOUS
    <2>1. k + 1 < l + 1
      BY <1>4
    <2> QED
      BY <1>3, <2>1 DEF Queued
  <1>8. h \in Range(parsed) /\ script[h] = "request"
    BY <1>3 DEF Queued
  <1>9. CASE client = "open"
    <2>1. out' = Append(out, h)
      BY <1>9 DEF Handles, Answer, h
    <2>2. Range(out') = Range(out) \cup {h}
      BY <1>3, <2>1, NumberTypes, AppendAdds
    <2>3. Queued'
      BY <1>1, <1>2, <1>3, <1>6, <1>7, <1>8, <2>2 DEF Queued
    <2>4. ASSUME NEW kind \in Kinds PROVE StartOf(OfKind(kind), out')
      <3>1. OfKind(kind) \in SUBSET Nat /\ out \in Seq(Nat)
        BY Types, NumberTypes
      <3>2. ASSUME h \in OfKind(kind), NEW i \in OfKind(kind)
            PROVE  (i \in Range(out) => i < h) /\ (i < h => i \in Range(out))
        <4>1. script[i] = "request" /\ i \in Nat /\ 1 <= i
          BY <1>8, <3>1, <3>2 DEF OfKind
        <4>2. i \in Range(out) => i < h
          BY <1>3, <4>1 DEF Queued
        <4>3. ASSUME i < h PROVE i \in Range(out)
          <5>1. h \in Wanted /\ h <= written
            BY <1>8, Types DEF LinesInOrder, Wanted
          <5>2. i \in Wanted
            BY <1>3, <4>1, <4>3, <5>1, Types DEF Wanted
          <5>3. i \in Range(parsed)
            BY <1>8, <4>3, <5>1, <5>2 DEF LinesInOrder, StartOf
          <5>4. i \notin Range(mainQueue)
            <6>1. i # h
              BY <1>3, <4>1, <4>3
            <6>2. i \notin Range(rest)
              BY <1>3, <1>6, <4>1, <4>3
            <6> QED
              BY <1>3, <6>1, <6>2
          <5> QED
            BY <1>9, <5>3, <5>4 DEF Queued
        <4> QED
          BY <4>2, <4>3
      <3>3. StartOf(OfKind(kind), out)
        BY DEF AnswersInOrder
      <3> QED
        BY <1>3, <2>1, <3>1, <3>2, <3>3, StartGrows
    <2>5. Range(out') \subseteq Wanted
      BY <1>8, <2>2 DEF AnswersInOrder, LinesInOrder
    <2>6. AnswersInOrder'
      BY <1>2, <2>4, <2>5 DEF AnswersInOrder, StartOf
    <2> QED
      BY <2>3, <2>6
  <1>10. CASE client # "open"
    <2>1. out' = out
      BY <1>10 DEF Handles, Answer
    <2>2. Queued'
      BY <1>1, <1>2, <1>3, <1>7, <1>10, <2>1 DEF Queued
    <2>3. AnswersInOrder'
      BY <1>2, <2>1 DEF AnswersInOrder, StartOf
    <2> QED
      BY <2>2, <2>3
  <1> QED
    BY <1>9, <1>10

-----------------------------------------------------------------------------
(* The invariant.                                                          *)

\* Answering keeps the type of the answers.
LEMMA AnswerTypes ==
  ASSUME TypeOK, NEW i \in 1..Len(script), Answer(i)
  PROVE  out' \in Seq(1..Len(script))
  <1>1. out \in Seq(1..Len(script))
    BY DEF TypeOK
  <1>2. Append(out, i) \in Seq(1..Len(script))
    BY <1>1, AppendAdds
  <1> QED
    BY <1>1, <1>2 DEF Answer

\* Nothing is written, read, processed, queued or answered at first.
LEMMA InitInv == ASSUME Init PROVE Inv
  <1> DEFINE none == <<>>
  <1>1. /\ script \in Scripts /\ written = 0 /\ client = "open" /\ reader = "reading"
        /\ stream = none /\ buffer = none
        /\ mainQueue = none /\ parsed = none /\ out = none
    BY DEF Init
  <1>2. none \in Seq(Piece) /\ none \in Seq(1..Len(script)) /\ DOMAIN none = {}
        /\ Range(none) = {}
    BY EmptySeq, LenProperties DEF Range
  <1>3. script \in Seq(Kinds) /\ Len(script) \in Nat
    BY <1>1, ScriptsAssumption
  <1>4. Flow = none
    BY <1>1 DEF Flow
  <1>5. Wanted = {}
    BY <1>1 DEF Wanted
  <1> HIDE DEF none
  <1>6. TypeOK
    BY <1>1, <1>2, <1>3 DEF TypeOK
  <1>7. Whole(Flow)
    <2>1. Flow = <<>>
      BY <1>4 DEF none
    <2> QED
      BY <1>2, <1>4, <2>1 DEF Whole
  <1>8. Reached
    BY <1>1, <1>2, <1>5 DEF Reached
  <1>9. Queued
    BY <1>1, <1>2 DEF Queued
  <1>10. LinesInOrder /\ AnswersInOrder
    BY <1>1, <1>2, <1>5 DEF LinesInOrder, AnswersInOrder, StartOf
  <1> QED
    BY <1>6, <1>7, <1>8, <1>9, <1>10 DEF Inv

\* Every step keeps it.
LEMMA StepInv == ASSUME Inv, [Next]_vars PROVE Inv'
  <1>0. /\ TypeOK /\ Whole(Flow) /\ Reached /\ Queued
        /\ LinesInOrder /\ AnswersInOrder
    BY DEF Inv
  <1>1. CASE ClientWrites
    <2>1. /\ written' \in 1..Len(script) /\ stream' \in Seq(Piece)
          /\ written' = written + 1 /\ written \in Nat
      BY <1>0, <1>1, LineComes, Types
    <2>2. TypeOK'
      BY <1>0, <1>1, <2>1 DEF ClientWrites, TypeOK
    <2>3. Reached' /\ LinesInOrder' /\ Whole(Flow)'
      BY <1>0, <1>1, OrderComes, WholeComes
    <2>4. Queued'
      BY <1>0, <1>1 DEF ClientWrites, Queued
    <2>5. Wanted \subseteq Wanted' /\ \A kind : OfKind(kind)' = OfKind(kind)
      BY <1>1, <2>1 DEF ClientWrites, Wanted, OfKind
    <2>6. AnswersInOrder'
      BY <1>0, <1>1, <2>5 DEF ClientWrites, AnswersInOrder, StartOf
    <2> QED
      BY <2>2, <2>3, <2>4, <2>6 DEF Inv
  <1>2. CASE ClientLeaves
    <2>1. TypeOK'
      BY <1>0, <1>2, PieceLost DEF ClientLeaves, TypeOK
    <2>2. Reached' /\ LinesInOrder' /\ Whole(Flow)'
      BY <1>0, <1>2, OrderLost, WholeLost
    <2>3. Queued'
      BY <1>0, <1>2 DEF ClientLeaves, Queued
    <2>4. AnswersInOrder'
      BY <1>0, <1>2 DEF ClientLeaves, AnswersInOrder, StartOf, Wanted, OfKind
    <2> QED
      BY <2>1, <2>2, <2>3, <2>4 DEF Inv
  <1>3. CASE Reads
    <2>1. Flow' = Flow /\ buffer' \in Seq(Piece) /\ stream' \in Seq(Piece)
      BY <1>0, <1>3, ReadsMoves
    <2>2. UNCHANGED <<script, written, client, mainQueue, parsed, out>>
      BY <1>3 DEF Reads
    <2>3. TypeOK'
      BY <1>0, <1>3, <2>1 DEF Reads, TypeOK
    <2> QED
      BY <1>0, <2>1, <2>2, <2>3
      DEF Inv, Whole, Reached, Queued, LinesInOrder, AnswersInOrder, StartOf, Wanted, OfKind
  <1>4. CASE ReadsEnd
    BY <1>0, <1>4
    DEF ReadsEnd, Inv, TypeOK, Whole, Flow, Reached, Queued, LinesInOrder,
        AnswersInOrder, StartOf, Wanted, OfKind
  <1>5. CASE TakesLine
    <2> DEFINE b == Flow[1].line
               N == 1..Len(script)
    <2>1. /\ b \in N /\ buffer' \in Seq(Piece)
          /\ \/ script[b] = "blank" /\ UNCHANGED <<mainQueue, parsed, out>>
             \/ script[b] # "blank" /\ ProcessLine(b)
      BY <1>0, <1>5, LineTaken, LineLeaves
    <2> HIDE DEF b
    <2>2. mainQueue' \in Seq(N) /\ parsed' \in Seq(N) /\ out' \in Seq(N)
      <3>1. mainQueue \in Seq(N) /\ parsed \in Seq(N) /\ out \in Seq(N)
        BY <1>0 DEF TypeOK
      <3>2. Append(mainQueue, b) \in Seq(N) /\ Append(parsed, b) \in Seq(N)
        BY <2>1, <3>1, AppendAdds
      <3>3. ASSUME Answer(b) PROVE out' \in Seq(N)
        BY <1>0, <2>1, <3>3, AnswerTypes
      <3> QED
        BY <2>1, <3>1, <3>2, <3>3 DEF ProcessLine
    <2>3. TypeOK'
      BY <1>0, <1>5, <2>1, <2>2 DEF TakesLine, TypeOK
    <2>4. Whole(Flow)' /\ Reached' /\ LinesInOrder' /\ Queued' /\ AnswersInOrder'
      BY <1>0, <1>5, WholeTakes, OrderTakes, QueueTakes
    <2> QED
      BY <2>3, <2>4 DEF Inv
  <1>6. CASE ReadsOn
    <2>1. TypeOK'
      BY <1>0, <1>6 DEF ReadsOn, Complete, TypeOK
    <2>2. UNCHANGED <<script, written, client, stream, buffer, mainQueue, parsed, out>>
      BY <1>6 DEF ReadsOn
    <2> QED
      BY <1>0, <2>1, <2>2
      DEF Inv, Whole, Flow, Reached, Queued, LinesInOrder, AnswersInOrder, StartOf,
          Wanted, OfKind
  <1>7. CASE Handles
    <2> DEFINE N == 1..Len(script)
    <2>1. /\ mainQueue \in Seq(N) /\ mainQueue # <<>>
          /\ mainQueue' = Tail(mainQueue) /\ Answer(Head(mainQueue))
      BY <1>0, <1>7 DEF Handles, TypeOK
    <2>2. Tail(mainQueue) \in Seq(N) /\ Head(mainQueue) \in N
      BY <2>1, TailTakes
    <2>3. out' \in Seq(N)
      BY <1>0, <2>1, <2>2, AnswerTypes
    <2>4. TypeOK'
      BY <1>0, <1>7, <2>1, <2>2, <2>3 DEF Handles, TypeOK
    <2>5. Queued' /\ AnswersInOrder'
      BY <1>0, <1>7, QueueHandles
    <2>6. UNCHANGED <<script, written, client, stream, buffer, parsed>>
      BY <1>7 DEF Handles
    <2> QED
      BY <1>0, <2>4, <2>5, <2>6
      DEF Inv, Whole, Flow, Reached, LinesInOrder, StartOf, Wanted
  <1>8. CASE UNCHANGED vars
    BY <1>0, <1>8
    DEF vars, Inv, TypeOK, Whole, Flow, Reached, Queued, LinesInOrder,
        AnswersInOrder, StartOf, Wanted, OfKind
  <1> QED
    BY <1>1, <1>2, <1>3, <1>4, <1>5, <1>6, <1>7, <1>8 DEF Next, ReaderStep

\* The invariant holds, for any scripts and any size of a read.
THEOREM ConnectionHolds == Spec => []Inv
  BY InitInv, StepInv, PTL DEF Spec

\* The types of the connection; and nothing that could be parsed waits while
\* the reader is in read(2).
THEOREM TypeCorrect == Spec => []TypeOK
  <1>1. Inv => TypeOK
    BY DEF Inv
  <1> QED
    BY <1>1, ConnectionHolds, PTL

\* processLine gets the lines of the client, each once, whole and in order, for
\* any client and however read(2) cuts what it sends.
THEOREM LinesInOrderHolds == Spec => []LinesInOrder
  <1>1. Inv => LinesInOrder
    BY DEF Inv
  <1> QED
    BY <1>1, ConnectionHolds, PTL

\* Requests are answered once and in order, and so are the lines that are none,
\* although two threads answer.
THEOREM AnswersInOrderHolds == Spec => []AnswersInOrder
  <1>1. Inv => AnswersInOrder
    BY DEF Inv
  <1> QED
    BY <1>1, ConnectionHolds, PTL

-----------------------------------------------------------------------------
(* The console stream.                                                     *)

\* What an arithmetic step needs to know of a state.
Places ==
  /\ setting \in Settings
  /\ logged \in Nat /\ logged <= MaxLines
  /\ main \in {"idle", "writing"} /\ command \in {"reading", "printing"}
  /\ socket \in Nat /\ socket <= setting.room
  /\ stopped \in BOOLEAN
  /\ pipe \in Nat /\ pipe <= PipeRoom
  /\ page \in Nat /\ page <= Screen
  /\ seen \in Nat
  /\ logged = InHand(main = "writing") + socket + InHand(command = "printing")
                + pipe + seen

\* No step loses, repeats or invents a line, and no buffer overflows.
LEMMA PlacesKept == ASSUME Places, [ConsoleNext]_consoleVars PROVE Places'
  <1> USE RoomAssumption DEF Places, InHand
  <1>0. setting.room \in Nat /\ PipeRoom \in Nat /\ Screen \in Nat /\ MaxLines \in Nat
    OBVIOUS
  <1>1. CASE PageLogs
    BY <1>0, <1>1 DEF PageLogs
  <1>2. CASE Sends
    BY <1>0, <1>2 DEF Sends
  <1>3. CASE CommandReads
    BY <1>0, <1>3 DEF CommandReads
  <1>4. CASE CommandPrints
    BY <1>0, <1>4 DEF CommandPrints
  <1>5. CASE PagerShows
    BY <1>0, <1>5 DEF PagerShows
  <1>6. CASE UserPages
    BY <1>0, <1>6 DEF UserPages
  <1>7. CASE UserStops \/ UserResumes
    BY <1>7 DEF UserStops, UserResumes
  <1>8. CASE UNCHANGED consoleVars
    BY <1>8 DEF consoleVars
  <1> QED
    BY <1>1, <1>2, <1>3, <1>4, <1>5, <1>6, <1>7, <1>8 DEF ConsoleNext

\* Every line that a page has logged is in the hands of the main thread or of
\* the command, in the socket, in the pipe, or seen: in one of them, whatever
\* the buffers hold.
THEOREM ConsoleTypeCorrect == ConsoleSpec => []ConsoleTypeOK
  <1>1. ASSUME ConsoleInit PROVE Places
    <2>1. setting \in Settings /\ setting.room \in Nat
      BY <1>1, RoomAssumption DEF ConsoleInit
    <2>2. 0 <= setting.room /\ 0 <= PipeRoom /\ 0 <= Screen /\ 0 <= MaxLines
      BY <2>1, RoomAssumption
    <2>3. /\ logged = 0 /\ main = "idle" /\ socket = 0 /\ command = "reading"
          /\ stopped = FALSE /\ pipe = 0 /\ page = 0 /\ seen = 0
      BY <1>1 DEF ConsoleInit
    <2>4. logged = InHand(main = "writing") + socket + InHand(command = "printing")
                     + pipe + seen
      BY <2>3 DEF InHand
    <2>5. socket <= setting.room /\ pipe <= PipeRoom /\ page <= Screen /\ logged <= MaxLines
      BY <2>2, <2>3
    <2>6. stopped \in BOOLEAN
      BY <2>3
    <2>7. main \in {"idle", "writing"} /\ command \in {"reading", "printing"}
      BY <2>3
    <2>8. logged \in Nat /\ socket \in Nat /\ pipe \in Nat /\ page \in Nat /\ seen \in Nat
      BY <2>3
    <2> QED
      BY <2>1, <2>4, <2>5, <2>6, <2>7, <2>8 DEF Places
  <1>2. Places => ConsoleTypeOK
    BY RoomAssumption DEF Places, ConsoleTypeOK
  <1> QED
    BY <1>1, <1>2, PlacesKept, PTL DEF ConsoleSpec

=============================================================================
