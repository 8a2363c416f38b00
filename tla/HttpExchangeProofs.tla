------------------------- MODULE HttpExchangeProofs -------------------------
(***************************************************************************)
(* Theorems about HttpExchange, for any lengths of bodies, any number of   *)
(* failed reads, any stream of chunks whose sizes fit an int and any size  *)
(* of the buffer: a body read by its length has its bytes exactly when no  *)
(* read failed, and a chunked one exactly when every chunk was in the      *)
(* buffer when its size line had been scanned, if no size line was cut     *)
(* before a byte with which one could begin.                               *)
(***************************************************************************)
EXTENDS HttpExchange, SequenceTheorems, TLAPS

-----------------------------------------------------------------------------
(* The inductive invariant. *)

Bodies == [length : Int, filled : Int, left : Int, taken : Int, fails : Nat,
           data : Seq(Byte), bytes : Seq(Byte), mark : Byte, content : Int,
           last : BOOLEAN, split : BOOLEAN, cut : BOOLEAN]
BodyType == body \in Bodies

\* A call returns once.
OutcomeInv == outcome # "none" => stage = "end"

\* readFixSize: what is filled and what is missing make up the length, and every failed
\* read has cost one byte of the stream.
FixInv ==
    /\ stage \in {"request_body", "response_body"} \/ outcome = "response" =>
          body.filled + body.left = body.length /\ body.taken = body.filled + body.fails
    /\ outcome = "response" => body.left = 0

\* The body holds as many bytes as the chunks before chunk i have: those bytes, or, once
\* the rest of a chunk was read by itself, with a LF among them.
Collected(b, i) ==
    /\ Len(b.bytes) = Before(i)
    /\ ~b.split => \A j \in 1 .. Before(i) : b.bytes[j].id = j
    /\ b.split => \E j \in 1 .. Before(i) : b.bytes[j].id = 0

\* The buffer holds what came of the stream, from byte p of chunk i on.
Pending(b, i, p) ==
    /\ b.taken >= ChunkStart(i) + p - 1
    /\ b.data = SubSeq(Stream, ChunkStart(i) + p, b.taken)

\* The next byte to be scanned begins no size line: the scanner will refuse it.
Lost(b) ==
    IF b.data # << >> THEN ~Begins(b.data[1])
    ELSE b.taken < Len(Stream) => ~Begins(Stream[b.taken + 1])

\* Byte p of the size line of chunk i is to be scanned in state s: the first digit is
\* marked until the size is taken from it.
Scanning(b, s, i, p) ==
    /\ Collected(b, i) /\ Pending(b, i, p)
    /\ s \in 1 .. 7
    /\ s = 1 => p = 1
    /\ s = 2 => b.mark = Stream[ChunkStart(i) + 1]
    /\ s > 2 => b.content = ChunkSize(i) /\ (b.last <=> ChunkSize(i) = 0)

ChunkInv ==
    /\ stage \in {"chunk_read", "chunk_scan", "chunk_left"} =>
          body.taken \in 0 .. Len(Stream)
    /\ ~body.cut =>
          /\ stage = "chunk_read" =>
                Lost(body) \/ \E i \in 1 .. LastChunk : Collected(body, i) /\ Pending(body, i, 1)
          /\ stage = "chunk_scan" =>
                \/ cs = 1 /\ body.data # << >> /\ Lost(body)
                \/ \E i \in 1 .. LastChunk : \E p \in 1 .. Chunks[i].line :
                      Scanning(body, cs, i, p)
          /\ stage = "chunk_left" =>
                /\ body.split /\ body.left >= 1 /\ body.data = << >>
                /\ \E i \in 1 .. LastChunk :
                      /\ i # LastChunk
                      /\ Len(body.bytes) + body.left = Before(i + 1)
                      /\ body.taken + body.left = ChunkStart(i + 1)
          /\ stage = "chunk_done" \/ outcome = "chunked response" => Collected(body, LastChunk)

IInv == BodyType /\ OutcomeInv /\ FixInv /\ ChunkInv

-----------------------------------------------------------------------------
(* The scanner of a size line: states 1 to 7 of ResponseScanner. *)

\* The edges of a table are by the state they leave.
LEMMA TableEdges ==
    ASSUME NEW s \in 1 .. 123, NEW c
    PROVE  Rsp!OnByte(Rsp!ResponseTable, s, c) =
              {e \in Rsp!ResponseEdges : e.from = s /\ e.on = c}
<1>1. Rsp!ResponseTable[s] = {e \in Rsp!ResponseEdges : e.from = s}
  <2> DEFINE T == [x \in 1 .. 123 |-> {e \in Rsp!ResponseEdges : e.from = x}]
  <2>1. T \in Seq(SUBSET Rsp!ResponseEdges) /\ T[s] = {e \in Rsp!ResponseEdges : e.from = s}
    OBVIOUS
  <2>2. Rsp!ResponseTable = << >> \o T
    BY DEF Rsp!ResponseTable, Rsp!ByState
  <2>3. << >> \o T = T
    <3> HIDE DEF T
    <3> QED
    BY <2>1, ConcatEmptySeq
  <2> QED
    BY <2>1, <2>2, <2>3
<1> QED
    BY <1>1 DEF Rsp!OnByte

\* An edge leaves one of the states it is defined for.
LEMMA EdgeFrom ==
    /\ \A S, C, t, a, e : e \in Rsp!Edge(S, C, t, a) => e.from \in S
    /\ \A S, C, a, e : e \in Rsp!Along(S, C, a) => e.from \in S
BY DEF Rsp!Edge, Rsp!Along

\* The same for what the elements of the grammar are made of.
LEMMA PartFrom ==
    /\ \A S, C, e : e \in Rsp!OtherName(S, C) => e.from \in S
    /\ \A S, C, e : e \in Rsp!OtherValue(S, C) => e.from \in S
    /\ \A s, a, e : e \in Rsp!LineStart(s, a) => e.from = s
    /\ \A s, C, v, n, m, e : e \in Rsp!KeyValue(s, C, v, n, m) => e.from = s
    /\ \A n, w, f, m, e : e \in Rsp!NextLine(n, w, f, m) => e.from = n
    /\ \A S, w, C, v, a, e : e \in Rsp!Space(S, w, C, v, a) => e.from \in S
    /\ \A S, e : e \in Rsp!LengthEnd(S) => e.from \in S
BY EdgeFrom DEF Rsp!OtherName, Rsp!OtherValue, Rsp!LineStart, Rsp!KeyValue, Rsp!NextLine,
                Rsp!Space, Rsp!LengthEnd

\* A keyword scanned from state f on uses no state before f.
LEMMA WordFrom ==
    ASSUME NEW f \in Nat, NEW w, Len(w) \in Nat, NEW e
    PROVE  /\ e \in Rsp!Word(f, w) => e.from \in Nat /\ e.from >= f
           /\ e \in Rsp!NameWord(f, w) => e.from \in Nat /\ e.from >= f
           /\ e \in Rsp!ValueWord(f, w) => e.from \in Nat /\ e.from >= f
<1>1. ASSUME e \in Rsp!Word(f, w) PROVE e.from \in Nat /\ e.from >= f
  <2>1. PICK i \in 1 .. Len(w) : e \in Rsp!Along({f + i - 1}, Rsp!Fold(w[i]), << >>)
    BY <1>1 DEF Rsp!Word
  <2> QED
    BY <2>1, EdgeFrom
<1>2. ASSUME e \in UNION {Rsp!OtherName({f + i - 1}, Rsp!Fold(w[i])) : i \in 1 .. Len(w)}
      PROVE  e.from \in Nat /\ e.from >= f
  <2>1. PICK i \in 1 .. Len(w) : e \in Rsp!OtherName({f + i - 1}, Rsp!Fold(w[i]))
    BY <1>2
  <2> QED
    BY <2>1, PartFrom
<1>3. ASSUME e \in UNION {Rsp!OtherValue({f + i - 1}, Rsp!Fold(w[i])) : i \in 1 .. Len(w)}
      PROVE  e.from \in Nat /\ e.from >= f
  <2>1. PICK i \in 1 .. Len(w) : e \in Rsp!OtherValue({f + i - 1}, Rsp!Fold(w[i]))
    BY <1>3
  <2> QED
    BY <2>1, PartFrom
<1> QED
    BY <1>1, <1>2, <1>3 DEF Rsp!NameWord, Rsp!ValueWord

\* The edges of E leave states beyond the seven that scan a size line.
Beyond(E) == \A e \in E : e.from \in Nat /\ e.from > 7

\* Every other element of the grammar is beyond those seven states.
LEMMA BeyondRest ==
    /\ Beyond(Rsp!HTTP_version) /\ Beyond(Rsp!Status_code) /\ Beyond(Rsp!Reason_phrase)
    /\ Beyond(Rsp!Field_start)
    /\ Beyond(Rsp!Field_name) /\ Beyond(Rsp!Field_value) /\ Beyond(Rsp!Field_rest)
    /\ Beyond(Rsp!Line_end) /\ Beyond(Rsp!Connection_name) /\ Beyond(Rsp!Connection_value)
    /\ Beyond(Rsp!Connection_line) /\ Beyond(Rsp!Connection_space)
    /\ Beyond(Rsp!Connection_close) /\ Beyond(Rsp!Encoding_name1)
    /\ Beyond(Rsp!Encoding_name2) /\ Beyond(Rsp!Encoding_value)
    /\ Beyond(Rsp!Encoding_rest) /\ Beyond(Rsp!Encoding_line) /\ Beyond(Rsp!Encoding_split)
    /\ Beyond(Rsp!Encoding_space) /\ Beyond(Rsp!Length_name1) /\ Beyond(Rsp!Length_name2)
    /\ Beyond(Rsp!Length_value) /\ Beyond(Rsp!Length_line) /\ Beyond(Rsp!Length_space)
<1>1. Beyond(Rsp!HTTP_version)
    BY EdgeFrom DEF Rsp!HTTP_version, Beyond
<1>2. Beyond(Rsp!Status_code)
    BY EdgeFrom DEF Rsp!Status_code, Beyond
<1>3. Beyond(Rsp!Reason_phrase)
    BY EdgeFrom DEF Rsp!Reason_phrase, Beyond
<1>4. Beyond(Rsp!Field_start)
    BY EdgeFrom, PartFrom DEF Rsp!Field_start, Beyond
<1>5. Beyond(Rsp!Field_name)
    BY EdgeFrom, PartFrom DEF Rsp!Field_name, Beyond
<1>6. Beyond(Rsp!Field_value)
    BY EdgeFrom DEF Rsp!Field_value, Beyond
<1>7. Beyond(Rsp!Field_rest)
    BY EdgeFrom, PartFrom DEF Rsp!Field_rest, Beyond
<1>8. Beyond(Rsp!Line_end)
    BY EdgeFrom DEF Rsp!Line_end, Beyond
<1>9. Beyond(Rsp!Connection_name)
  <2>1. Len(<<"o", "n">>) \in Nat /\ Len(<<"e", "c", "t", "i", "o", "n">>) \in Nat
    OBVIOUS
  <2> QED
    BY <2>1, EdgeFrom, PartFrom, WordFrom DEF Rsp!Connection_name, Beyond
<1>10. Beyond(Rsp!Connection_value)
  <2>1. Len(<<"l", "o", "s", "e">>) \in Nat
    OBVIOUS
  <2> QED
    BY <2>1, EdgeFrom, PartFrom, WordFrom DEF Rsp!Connection_value, Beyond
<1>11. Beyond(Rsp!Connection_line)
  <2>1. Len(<<"o", "s", "e">>) \in Nat
    OBVIOUS
  <2> QED
    BY <2>1, EdgeFrom, PartFrom, WordFrom DEF Rsp!Connection_line, Beyond
<1>12. Beyond(Rsp!Connection_space)
  <2>1. Len(<<"l", "o", "s", "e">>) \in Nat
    OBVIOUS
  <2> QED
    BY <2>1, EdgeFrom, PartFrom, WordFrom DEF Rsp!Connection_space, Beyond
<1>13. Beyond(Rsp!Connection_close)
    BY EdgeFrom, PartFrom DEF Rsp!Connection_close, Beyond
<1>14. Beyond(Rsp!Encoding_name1)
  <2>1. Len(<<"r", "a", "n", "s", "f", "e", "r">>) \in Nat
    OBVIOUS
  <2> QED
    BY <2>1, EdgeFrom, WordFrom DEF Rsp!Encoding_name1, Beyond
<1>15. Beyond(Rsp!Encoding_name2)
  <2>1. Len(<<"-", "e", "n", "c", "o", "d", "i", "n", "g">>) \in Nat
    OBVIOUS
  <2> QED
    BY <2>1, EdgeFrom, WordFrom DEF Rsp!Encoding_name2, Beyond
<1>16. Beyond(Rsp!Encoding_value)
    BY EdgeFrom, PartFrom DEF Rsp!Encoding_value, Beyond
<1>17. Beyond(Rsp!Encoding_rest)
  <2>1. Len(<<"h", "u", "n", "k", "e", "d">>) \in Nat
    OBVIOUS
  <2> QED
    BY <2>1, EdgeFrom, WordFrom DEF Rsp!Encoding_rest, Beyond
<1>18. Beyond(Rsp!Encoding_line)
    BY EdgeFrom, PartFrom DEF Rsp!Encoding_line, Beyond
<1>19. Beyond(Rsp!Encoding_split)
  <2>1. Len(<<"u", "n", "k", "e", "d">>) \in Nat
    OBVIOUS
  <2> QED
    BY <2>1, EdgeFrom, PartFrom, WordFrom DEF Rsp!Encoding_split, Beyond
<1>20. Beyond(Rsp!Encoding_space)
  <2>1. Len(<<"h", "u", "n", "k", "e", "d">>) \in Nat
    OBVIOUS
  <2>2. Beyond(Rsp!Word(64, <<"h", "u", "n", "k", "e", "d">>))
    BY <2>1, WordFrom DEF Beyond
  <2>3. Beyond(Rsp!Space({63, 72, 80, 121}, 63, {"c"}, 64, <<"start_value">>))
    BY PartFrom DEF Beyond
  <2>4. /\ Beyond(Rsp!Edge({63, 121}, {"LF"}, 63, << >>))
        /\ Beyond(Rsp!Edge({72}, {"LF"}, 121, <<"done">>))
        /\ Beyond(Rsp!Edge({80}, {"LF"}, 62, << >>))
        /\ Beyond(Rsp!Edge({70}, {"LF"}, 20, <<"write_value", "trans_chunked">>))
        /\ Beyond(Rsp!Edge({70}, {"CR"}, 71, <<"write_value">>))
        /\ Beyond(Rsp!Edge({71}, {"LF"}, 20, <<"trans_chunked">>))
    BY EdgeFrom DEF Beyond
  <2> QED
    BY <2>2, <2>3, <2>4 DEF Rsp!Encoding_space, Beyond
<1>21. Beyond(Rsp!Length_name1)
  <2>1. Len(<<"e", "n", "t", "-", "l">>) \in Nat
    OBVIOUS
  <2> QED
    BY <2>1, EdgeFrom, WordFrom DEF Rsp!Length_name1, Beyond
<1>22. Beyond(Rsp!Length_name2)
  <2>1. Len(<<"e", "n", "g", "t", "h">>) \in Nat
    OBVIOUS
  <2> QED
    BY <2>1, EdgeFrom, WordFrom DEF Rsp!Length_name2, Beyond
<1>23. Beyond(Rsp!Length_value)
    BY EdgeFrom, PartFrom DEF Rsp!Length_value, Beyond
<1>24. Beyond(Rsp!Length_line)
    BY EdgeFrom, PartFrom DEF Rsp!Length_line, Beyond
<1>25. Beyond(Rsp!Length_space)
    BY EdgeFrom, PartFrom DEF Rsp!Length_space, Beyond
<1> QED
    BY <1>1, <1>2, <1>3, <1>4, <1>5, <1>6, <1>7, <1>8, <1>9, <1>10, <1>11, <1>12, <1>13,
       <1>14, <1>15, <1>16, <1>17, <1>18, <1>19, <1>20, <1>21, <1>22, <1>23, <1>24, <1>25

\* The edges of the seven states: a byte that begins a size line is marked, the byte that
\* ends the digits takes the size from the mark, and LF and nothing else ends the line.
NoSize(do) == "chunk_size" \notin ToSet(do) /\ "write_content_len" \notin ToSet(do)
LEMMA LineEdges ==
    ASSUME NEW e \in Rsp!ResponseEdges, e.from \in 1 .. 7
    PROVE  \/ e.from = 1 /\ e.on = "H"
           \/ e.from = 1 /\ e.on \in Rsp!XDigit /\ e.to = 2 /\ e.do = <<"mark">>
           \/ e.from = 2 /\ e.on # "LF" /\ e.to = 2 /\ e.do = << >>
           \/ e.from = 2 /\ e.on # "LF" /\ e.to \in 3 .. 7 /\ e.do = <<"chunk_size">>
           \/ e.from = 2 /\ e.on = "LF" /\ e.to = 120 /\ e.do = <<"chunk_size", "done">>
           \/ e.from \in 3 .. 7 /\ e.on # "LF" /\ e.to \in 3 .. 7 /\ NoSize(e.do)
           \/ e.from \in 3 .. 7 /\ e.on = "LF" /\ e.to = 120 /\ NoSize(e.do)
<1>1. /\ \A S, C, t, a, x : x \in Rsp!Edge(S, C, t, a) =>
             x.from \in S /\ x.on \in C /\ x.to = t /\ x.do = a
      /\ \A S, C, a, x : x \in Rsp!Along(S, C, a) =>
             x.from \in S /\ x.on \in C /\ x.to = x.from + 1 /\ x.do = a
    BY DEF Rsp!Edge, Rsp!Along
<1>2. \/ e \in Rsp!Main_start \/ e \in Rsp!Chunk_size \/ e \in Rsp!Last_LF
      \/ e \in Rsp!Chunk_extension \/ e \in Rsp!Chunk_ext_val
  <2>1. ~(e.from \in Nat /\ e.from > 7)
    OBVIOUS
  <2> DEFINE Rest == {
            Rsp!HTTP_version, Rsp!Status_code,
            Rsp!Reason_phrase, Rsp!Field_start, Rsp!Field_name, Rsp!Field_value,
            Rsp!Field_rest, Rsp!Line_end, Rsp!Connection_name, Rsp!Connection_value,
            Rsp!Connection_line, Rsp!Connection_space, Rsp!Connection_close,
            Rsp!Encoding_name1, Rsp!Encoding_name2, Rsp!Encoding_value,
            Rsp!Encoding_rest, Rsp!Encoding_line, Rsp!Encoding_split,
            Rsp!Encoding_space, Rsp!Length_name1, Rsp!Length_name2, Rsp!Length_value,
            Rsp!Length_line, Rsp!Length_space}
  <2>2. ASSUME NEW E \in Rest PROVE e \notin E
    BY <2>1, BeyondRest DEF Beyond
  <2>3. Rsp!ResponseEdges = UNION ({Rsp!Main_start, Rsp!Chunk_size, Rsp!Last_LF,
                                    Rsp!Chunk_extension, Rsp!Chunk_ext_val} \cup Rest)
    BY DEF Rsp!ResponseEdges, Rsp!Listed
  <2> QED
    BY <2>2, <2>3
<1>3. "LF" \notin Rsp!XDigit /\ "LF" \notin Rsp!Token
    BY DEF Rsp!XDigit, Rsp!Token, Rsp!Letter
<1>4. /\ NoSize(<< >>) /\ NoSize(<<"done">>) /\ NoSize(<<"start_field">>)
      /\ NoSize(<<"start_value">>) /\ NoSize(<<"write_value">>)
      /\ NoSize(<<"write_value", "done">>) /\ NoSize(<<"write_field", "start_value">>)
      /\ NoSize(<<"write_field", "start_value", "write_value">>)
      /\ NoSize(<<"write_field", "start_value", "write_value">> \o <<"done">>)
    BY DEF NoSize, ToSet
<1>5. CASE e \in Rsp!Main_start
    BY <1>1, <1>5 DEF Rsp!Main_start
<1>6. CASE e \in Rsp!Chunk_size
  <2>1. PICK semi : /\ "LF" \notin semi
                    /\ Rsp!Chunk_size =
                          Rsp!Edge({2}, Rsp!XDigit, 2, << >>)
                            \cup Rsp!Edge({2}, semi, 4, <<"chunk_size">>)
                            \cup Rsp!Edge({2}, {"LF"}, 120, <<"chunk_size", "done">>)
                            \cup Rsp!Edge({2}, {"CR"}, 3, <<"chunk_size">>)
    <3> WITNESS {";"}
    <3> QED
    BY Zenon DEF Rsp!Chunk_size
  <2> QED
    BY <1>1, <1>3, <1>6, <2>1
<1>7. CASE e \in Rsp!Last_LF
    BY <1>1, <1>4, <1>7 DEF Rsp!Last_LF
<1>8. CASE e \in Rsp!Chunk_extension
  <2> DEFINE all == <<"write_field", "start_value", "write_value">>
  <2>1. \/ e \in Rsp!Along({4}, Rsp!Token, <<"start_field">>)
        \/ e \in Rsp!Edge({5}, Rsp!Token, 5, << >>)
        \/ e \in Rsp!Along({5}, {"="}, <<"write_field", "start_value">>)
        \/ \E semi : "LF" \notin semi /\ e \in Rsp!Edge({5}, semi, 4, all)
        \/ e \in Rsp!Edge({5}, {"CR"}, 3, all)
        \/ e \in Rsp!Edge({5}, {"LF"}, 120, all \o <<"done">>)
    <3>1. "LF" \notin {";"}
      BY Zenon
    <3> QED
    BY <1>8, <3>1, Zenon DEF Rsp!Chunk_extension
  <2> HIDE DEF all
  <2>2. CASE e \in Rsp!Along({4}, Rsp!Token, <<"start_field">>)
    BY <1>1, <1>3, <1>4, <2>2
  <2>3. CASE e \in Rsp!Edge({5}, Rsp!Token, 5, << >>)
    BY <1>1, <1>3, <1>4, <2>3
  <2>4. CASE e \in Rsp!Along({5}, {"="}, <<"write_field", "start_value">>)
    BY <1>1, <1>4, <2>4
  <2>5. NoSize(all) /\ NoSize(all \o <<"done">>)
    BY <1>4 DEF all
  <2>6. CASE \E semi : "LF" \notin semi /\ e \in Rsp!Edge({5}, semi, 4, all)
    BY <1>1, <2>5, <2>6
  <2>7. CASE e \in Rsp!Edge({5}, {"CR"}, 3, all)
    BY <1>1, <2>5, <2>7
  <2>8. CASE e \in Rsp!Edge({5}, {"LF"}, 120, all \o <<"done">>)
    BY <1>1, <2>5, <2>8
  <2> QED
    BY <2>1, <2>2, <2>3, <2>4, <2>6, <2>7, <2>8
<1>9. CASE e \in Rsp!Chunk_ext_val
  <2>1. \/ e \in Rsp!Along({6}, Rsp!Token, <<"start_value">>)
        \/ e \in Rsp!Edge({7}, Rsp!Token, 7, << >>)
        \/ \E semi : "LF" \notin semi /\ e \in Rsp!Edge({7}, semi, 4, <<"write_value">>)
        \/ e \in Rsp!Edge({7}, {"CR"}, 3, <<"write_value">>)
        \/ e \in Rsp!Edge({7}, {"LF"}, 120, <<"write_value", "done">>)
    <3>1. "LF" \notin {";"}
      BY Zenon
    <3> QED
    BY <1>9, <3>1, Zenon DEF Rsp!Chunk_ext_val
  <2>2. CASE e \in Rsp!Along({6}, Rsp!Token, <<"start_value">>)
    BY <1>1, <1>3, <1>4, <2>2
  <2>3. CASE e \in Rsp!Edge({7}, Rsp!Token, 7, << >>)
    BY <1>1, <1>3, <1>4, <2>3
  <2>4. CASE \E semi : "LF" \notin semi /\ e \in Rsp!Edge({7}, semi, 4, <<"write_value">>)
    BY <1>1, <1>4, <2>4
  <2>5. CASE e \in Rsp!Edge({7}, {"CR"}, 3, <<"write_value">>)
    BY <1>1, <1>4, <2>5
  <2>6. CASE e \in Rsp!Edge({7}, {"LF"}, 120, <<"write_value", "done">>)
    BY <1>1, <1>4, <2>6
  <2> QED
    BY <2>1, <2>2, <2>3, <2>4, <2>5, <2>6
<1> QED
    BY <1>2, <1>5, <1>6, <1>7, <1>8, <1>9

\* What the scanner does with a byte in the seven states (httpclient_parser.rl.cc, cases 1
\* to 7).
LEMMA LineScan ==
    ASSUME NEW s \in 1 .. 7, NEW c, NEW e \in Rsp!OnByte(Rsp!ResponseTable, s, c)
    PROVE  /\ s = 1 => c \in Rsp!XDigit \cup {"H"}
           /\ s = 1 /\ c \in Rsp!XDigit => e.to = 2 /\ e.do = <<"mark">>
           /\ s > 1 => (c = "LF" <=> e.to = 120)
           /\ s = 2 => \/ e.to = 2 /\ e.do = << >>
                       \/ e.to \in 3 .. 7 /\ e.do = <<"chunk_size">>
                       \/ e.to = 120 /\ e.do = <<"chunk_size", "done">>
           /\ s > 2 => e.to \in (3 .. 7) \cup {120} /\ NoSize(e.do)
<1>1. e \in Rsp!ResponseEdges /\ e.from = s /\ e.on = c
    BY TableEdges
<1>2. "H" \notin Rsp!XDigit
    BY DEF Rsp!XDigit
<1> QED
    BY <1>1, <1>2, LineEdges

-----------------------------------------------------------------------------
(* The stream of chunks. *)

\* The numbers of a chunk, and those of the next one.
LEMMA ChunkFacts ==
    ASSUME NEW i \in 1 .. LastChunk
    PROVE  /\ LastChunk \in Nat /\ Stream \in Seq(Byte) /\ Len(Stream) \in Nat
           /\ Chunks[i].line \in Nat /\ Chunks[i].line > 1
           /\ ChunkStart(i) \in Nat /\ Before(i) \in Nat /\ ChunkSize(i) \in Nat
           /\ LineEnd(i) = ChunkStart(i) + Chunks[i].line
           /\ ChunkEnd(i) = LineEnd(i) + ChunkSize(i) + 2 /\ ChunkEnd(i) <= Len(Stream)
           /\ ChunkSize(i) = 0 <=> i = LastChunk
           /\ i # LastChunk => /\ i + 1 \in 1 .. LastChunk
                               /\ Before(i + 1) = Before(i) + ChunkSize(i)
                               /\ ChunkStart(i + 1) = ChunkEnd(i)
<1>1. Stream \in Seq(Byte) /\ Len(Stream) \in Nat /\ LastChunk \in Nat
    BY StreamAssumption DEF LastChunk
<1>2. Chunks[i] \in [start : Nat, line : Nat, before : Nat]
  <2>1. PICK C : C = [start : Nat, line : Nat, before : Nat]
    OBVIOUS
  <2>2. Chunks \in Seq(C)
    BY <2>1, StreamAssumption
  <2>3. i \in 1 .. Len(Chunks)
    BY DEF LastChunk
  <2>4. Chunks[i] \in C
    BY <2>2, <2>3
  <2> QED
    BY <2>1, <2>4
<1>3. SizeLine(i) /\ ChunkData(i)
    BY StreamAssumption
<1>4. ChunkStart(i) \in Nat /\ Before(i) \in Nat /\ Chunks[i].line \in Nat
    BY <1>2 DEF ChunkStart, Before
<1>5. LineEnd(i) = ChunkStart(i) + Chunks[i].line
    BY DEF LineEnd, ChunkStart
<1>6. Chunks[i].line > 1 /\ LineEnd(i) <= Len(Stream)
    BY <1>3 DEF SizeLine
<1>7. ChunkStart(i) + 1 \in 1 .. Len(Stream)
    BY <1>1, <1>4, <1>5, <1>6
<1>8. Stream[ChunkStart(i) + 1] \in Byte
    BY <1>1, <1>7
<1>9. ChunkSize(i) \in Nat
    BY <1>8 DEF ChunkSize, Byte
<1>10. /\ ChunkEnd(i) <= Len(Stream)
       /\ ChunkSize(i) = 0 <=> i = LastChunk
       /\ i # LastChunk => /\ ChunkStart(i + 1) = ChunkEnd(i)
                           /\ Before(i + 1) = Before(i) + ChunkSize(i)
    BY <1>3 DEF ChunkData
<1>11. i # LastChunk => i + 1 \in 1 .. LastChunk
    BY <1>1
<1>12. ChunkEnd(i) = LineEnd(i) + ChunkSize(i) + 2
    BY DEF ChunkEnd
<1>13. /\ LastChunk \in Nat /\ Stream \in Seq(Byte) /\ Len(Stream) \in Nat
       /\ Chunks[i].line \in Nat /\ Chunks[i].line > 1
       /\ ChunkStart(i) \in Nat /\ Before(i) \in Nat /\ ChunkSize(i) \in Nat
    BY <1>1, <1>4, <1>6, <1>9
<1>14. /\ LineEnd(i) = ChunkStart(i) + Chunks[i].line
       /\ ChunkEnd(i) = LineEnd(i) + ChunkSize(i) + 2 /\ ChunkEnd(i) <= Len(Stream)
       /\ ChunkSize(i) = 0 <=> i = LastChunk
    BY <1>5, <1>10, <1>12
<1> QED
    BY <1>10, <1>11, <1>13, <1>14

\* What the bytes of a chunk are.
LEMMA ChunkBytes ==
    ASSUME NEW i \in 1 .. LastChunk
    PROVE  /\ Stream[ChunkStart(i) + 1].on \in Rsp!XDigit
           /\ Stream[ChunkStart(i) + 1].hex = ChunkSize(i)
           /\ \A p \in 1 .. Chunks[i].line :
                 Stream[ChunkStart(i) + p].on = "LF" <=> p = Chunks[i].line
           /\ \A k \in 1 .. ChunkSize(i) : Stream[LineEnd(i) + k].id = Before(i) + k
           /\ i # LastChunk => /\ Stream[ChunkEnd(i) - 1].on = "CR"
                               /\ Stream[ChunkEnd(i)].id = 0
<1>1. SizeLine(i) /\ ChunkData(i)
    BY StreamAssumption
<1> QED
    BY <1>1 DEF SizeLine, ChunkData, ChunkSize

\* The stream, and its first chunk.
LEMMA StreamType ==
    /\ Stream \in Seq(Byte) /\ Len(Stream) \in Nat
    /\ LastChunk \in Nat /\ 1 \in 1 .. LastChunk /\ LastChunk \in 1 .. LastChunk
    /\ ChunkStart(1) = 0 /\ Before(1) = 0
<1>1. Len(Chunks) \in Nat /\ Len(Chunks) # 0
    BY StreamAssumption
<1> QED
    BY <1>1, StreamAssumption DEF LastChunk

-----------------------------------------------------------------------------
(* What each step must establish. *)

\* The stages without a body, and the results of a call that fails.
Heads == {"uri", "uri_done", "request", "response", "end"}
Failures == {"nullptr", "threw", "invalid url", "abort"}
Fixing == {"request_body", "response_body"}
Chunking == {"chunk_read", "chunk_scan", "chunk_left"}

\* The body before anything is received.
LEMMA NoBodyType == NoBody \in Bodies
<1>1. "x00" \in Rsp!Response_alphabet
    BY Zenon DEF Rsp!Response_alphabet
<1>2. INT_MAX \in Nat
    BY SMT DEF INT_MAX
<1>3. NoByte \in Byte
    BY <1>1, <1>2 DEF NoByte, Byte
<1>4. << >> \in Seq(Byte)
    OBVIOUS
<1> QED
    BY <1>3, <1>4 DEF NoBody, Bodies

\* The first state satisfies the invariant.
LEMMA FirstState == Init => IInv
<1> SUFFICES ASSUME Init PROVE IInv
    OBVIOUS
<1>1. stage = "uri" /\ outcome = "none" /\ body = NoBody
    BY DEF Init
<1>2. BodyType
    BY <1>1, NoBodyType DEF BodyType
<1> QED
    BY <1>1, <1>2 DEF IInv, OutcomeInv, FixInv, ChunkInv

\* A step to a stage without a body.
LEMMA HeadThen ==
    ASSUME BodyType', stage' \in Heads, outcome' \in Failures \cup {"none"},
           outcome' # "none" => stage' = "end"
    PROVE  IInv'
BY DEF IInv, OutcomeInv, FixInv, ChunkInv, Heads, Failures

\* A call that fails leaves the body as it is.
LEMMA FailThen ==
    ASSUME IInv, NEW r \in Failures, Finish(r), body' = body
    PROVE  IInv'
<1>1. BodyType'
    BY DEF IInv, BodyType
<1>2. stage' = "end" /\ outcome' = r
    BY DEF Finish
<1> QED
    BY <1>1, <1>2, HeadThen DEF Heads

\* A step inside a body of known length.
LEMMA FixThen ==
    ASSUME BodyType', stage' \in Fixing, outcome' = "none",
           body'.filled + body'.left = body'.length,
           body'.taken = body'.filled + body'.fails
    PROVE  IInv'
BY DEF IInv, OutcomeInv, FixInv, ChunkInv, Fixing

\* A step in the chunks after a size line was cut.
LEMMA CutThen ==
    ASSUME BodyType', body'.cut, body'.taken \in 0 .. Len(Stream),
           \/ stage' \in Chunking \cup {"chunk_done"} /\ outcome' = "none"
           \/ stage' = "end" /\ outcome' = "chunked response"
    PROVE  IInv'
BY DEF IInv, OutcomeInv, FixInv, ChunkInv, Chunking

\* A step to the next read of a chunk.
LEMMA ReadThen ==
    ASSUME BodyType', stage' = "chunk_read", outcome' = "none",
           body'.taken \in 0 .. Len(Stream),
           Lost(body') \/ \E i \in 1 .. LastChunk : Collected(body', i) /\ Pending(body', i, 1)
    PROVE  IInv'
BY DEF IInv, OutcomeInv, FixInv, ChunkInv

\* A step inside the scan of a size line.
LEMMA ScanThen ==
    ASSUME BodyType', stage' = "chunk_scan", outcome' = "none",
           body'.taken \in 0 .. Len(Stream),
           \/ cs' = 1 /\ body'.data # << >> /\ Lost(body')
           \/ \E i \in 1 .. LastChunk : \E p \in 1 .. Chunks[i].line :
                 Scanning(body', cs', i, p)
    PROVE  IInv'
BY DEF IInv, OutcomeInv, FixInv, ChunkInv

\* A step inside the rest of chunk i.
LEMMA LeftThen ==
    ASSUME BodyType', stage' = "chunk_left", outcome' = "none",
           body'.taken \in 0 .. Len(Stream), body'.split, body'.left >= 1,
           body'.data = << >>,
           NEW i \in 1 .. LastChunk, i # LastChunk,
           Len(body'.bytes) + body'.left = Before(i + 1),
           body'.taken + body'.left = ChunkStart(i + 1)
    PROVE  IInv'
BY DEF IInv, OutcomeInv, FixInv, ChunkInv

\* A step to the end of the chunks, or of the call.
LEMMA DoneThen ==
    ASSUME BodyType',
           \/ stage' = "chunk_done" /\ outcome' = "none"
           \/ stage' = "end" /\ outcome' = "chunked response",
           Collected(body', LastChunk)
    PROVE  IInv'
BY DEF IInv, OutcomeInv, FixInv, ChunkInv

-----------------------------------------------------------------------------
(* The head and a body of known length. *)

\* The steps of Uri::Create and the start of recvRequest.
LEMMA UriSteps ==
    ASSUME IInv,
           (\E c \in Uri!Uri_alphabet : UriByte(c)) \/ UriEnd \/ NewRequest
    PROVE  IInv'
<1>1. BodyType' /\ body' = body
    BY DEF UriByte, UriEnd, NewRequest, IInv, BodyType
<1>2. CASE \E c \in Uri!Uri_alphabet : UriByte(c)
  <2>1. PICK c \in Uri!Uri_alphabet : UriByte(c)
    BY <1>2
  <2>2. outcome = "none"
    BY <2>1 DEF UriByte, IInv, OutcomeInv
  <2>3. \/ Finish("invalid url") \/ Finish("threw")
        \/ stage' = "uri" /\ outcome' = "none"
    BY <2>1, <2>2 DEF UriByte
  <2> QED
    BY <1>1, <2>3, HeadThen DEF Finish, Heads, Failures
<1>3. CASE UriEnd
  <2>1. outcome = "none"
    BY <1>3 DEF UriEnd, IInv, OutcomeInv
  <2>2. /\ stage' = IF parts'.threw \/ cs < 451 THEN "end" ELSE "uri_done"
        /\ outcome' = CASE parts'.threw                -> "threw"
                        [] ~parts'.threw /\ cs < 451 -> "invalid url"
                        [] OTHER                      -> outcome
    BY <1>3 DEF UriEnd
  <2>3. \/ stage' = "end" /\ outcome' \in Failures
        \/ stage' = "uri_done" /\ outcome' = "none"
    <3>1. CASE parts'.threw
      BY <2>2, <3>1 DEF Failures
    <3>2. CASE ~parts'.threw /\ cs < 451
      BY <2>2, <3>2 DEF Failures
    <3>3. CASE ~parts'.threw /\ ~(cs < 451)
      BY <2>1, <2>2, <3>3 DEF Failures
    <3> QED
      BY <3>1, <3>2, <3>3
  <2> QED
    BY <1>1, <2>3, HeadThen DEF Heads, Failures
<1>4. CASE NewRequest
  <2>1. stage' = "request" /\ outcome' = "none"
    BY <1>4 DEF NewRequest, IInv, OutcomeInv
  <2> QED
    BY <1>1, <2>1, HeadThen DEF Heads
<1> QED
    BY <1>2, <1>3, <1>4

\* The reads of a head.
LEMMA ReadSteps ==
    ASSUME IInv, Read \/ ReadNothing \/ BufferEnd
    PROVE  IInv'
<1>1. /\ BodyType' /\ outcome = "none" /\ stage \in {"request", "response"}
      /\ body' = body
    BY DEF Read, ReadNothing, BufferEnd, IInv, BodyType, OutcomeInv
<1>2. \/ Finish("nullptr") \/ Finish("abort")
      \/ stage' = stage /\ outcome' = outcome
    BY DEF Read, ReadNothing, BufferEnd, BodyStartAsserts
<1> QED
    BY <1>1, <1>2, HeadThen DEF Finish, Heads, Failures

\* A body whose length is known begins with what the buffer holds of it.
LEMMA StartBodyThen ==
    ASSUME NEW next \in Fixing, NEW length \in 0 .. MaxBody, NEW offset \in 0 .. MaxBody + 1,
           StartBody(next, length, offset), outcome' = "none"
    PROVE  IInv'
<1>1. MaxBody \in Nat
    BY ExchangeAssumption
<1>2. PICK b : b = IF length >= offset THEN offset ELSE length
    OBVIOUS
<1>3. b \in Int /\ (IF length >= offset THEN length - offset ELSE 0) = length - b
    BY <1>1, <1>2
<1>4. body' = [NoBody EXCEPT !.length = length, !.filled = b, !.left = length - b,
                             !.taken = b]
    BY <1>2, <1>3 DEF StartBody
<1>5. NoBody \in Bodies /\ NoBody.fails = 0
    BY NoBodyType DEF NoBody
<1>6. BodyType'
  <2>1. PICK l \in Int : l = length - b
    BY <1>1, <1>3
  <2>2. length \in Int
    BY <1>1
  <2>3. body' = [NoBody EXCEPT !.length = length, !.filled = b, !.left = l, !.taken = b]
    BY <1>4, <2>1
  <2> QED
    BY <1>3, <1>5, <2>2, <2>3 DEF BodyType, Bodies
<1>7. stage' = next
    BY DEF StartBody
<1>8. /\ body'.filled = b /\ body'.left = length - b /\ body'.length = length
      /\ body'.taken = b /\ body'.fails = 0
    BY <1>4, <1>5 DEF Bodies
<1>9. body'.filled + body'.left = body'.length /\ body'.taken = body'.filled + body'.fails
    BY <1>1, <1>3, <1>8
<1> QED
    BY <1>6, <1>7, <1>9, FixThen

\* A byte of a request's head.
LEMMA RequestByteStep ==
    ASSUME IInv, NEW c, NEW known, RequestByte(c, known)
    PROVE  IInv'
<1>1. stage = "request" /\ outcome = "none"
    BY DEF RequestByte, IInv, OutcomeInv
<1>2. \/ Finish("nullptr") /\ body' = body
      \/ Finish("threw") /\ body' = body
      \/ stage' = stage /\ outcome' = outcome /\ body' = body
      \/ \E length \in 0 .. MaxBody, offset \in 0 .. MaxBody + 1 :
            StartBody("request_body", length, offset) /\ outcome' = outcome
    BY DEF RequestByte
<1>3. CASE Finish("nullptr") /\ body' = body
    BY <1>3, FailThen DEF Failures
<1>4. CASE Finish("threw") /\ body' = body
    BY <1>4, FailThen DEF Failures
<1>5. CASE stage' = stage /\ outcome' = outcome /\ body' = body
  <2>1. BodyType'
    BY <1>5 DEF IInv, BodyType
  <2> QED
    BY <1>1, <1>5, <2>1, HeadThen DEF Heads
<1>6. CASE \E length \in 0 .. MaxBody, offset \in 0 .. MaxBody + 1 :
              StartBody("request_body", length, offset) /\ outcome' = outcome
    BY <1>1, <1>6, StartBodyThen DEF Fixing
<1> QED
    BY <1>2, <1>3, <1>4, <1>5, <1>6

\* readFixSize.
LEMMA FixSteps ==
    ASSUME IInv, (\E k \in 1 .. MaxBody + MaxFail : ReadFix(k)) \/ ReadFixEof \/ ReadFixError
    PROVE  IInv'
<1>1. stage \in Fixing /\ outcome = "none"
    BY DEF ReadFix, ReadFixEof, ReadFixError, IInv, OutcomeInv, Fixing
<1>2. /\ BodyType /\ body.filled + body.left = body.length
      /\ body.taken = body.filled + body.fails
    BY <1>1 DEF IInv, FixInv, Fixing
<1>3. CASE \E k \in 1 .. MaxBody + MaxFail : ReadFix(k)
  <2>1. PICK k \in 1 .. body.left : ReadFix(k)
    BY <1>3 DEF ReadFix
  <2>2. /\ stage' = stage /\ outcome' = outcome
        /\ body' = [body EXCEPT !.filled = @ + k, !.left = @ - k, !.taken = @ + k]
    BY <2>1 DEF ReadFix
  <2>3. BodyType'
    <3>1. body.filled + k \in Int /\ body.left - k \in Int /\ body.taken + k \in Int
      <4>1. body.filled \in Int /\ body.left \in Int /\ body.taken \in Int
        BY <1>2 DEF BodyType, Bodies
      <4> QED
        BY <4>1
    <3>2. PICK f \in Int : f = body.filled + k
      BY <3>1
    <3>3. PICK l \in Int : l = body.left - k
      BY <3>1
    <3>4. PICK t \in Int : t = body.taken + k
      BY <3>1
    <3>5. body' = [body EXCEPT !.filled = f, !.left = l, !.taken = t]
      BY <2>2, <3>2, <3>3, <3>4
    <3> QED
      BY <1>2, <3>5 DEF BodyType, Bodies
  <2>4. /\ body'.filled = body.filled + k /\ body'.left = body.left - k
        /\ body'.taken = body.taken + k /\ body'.length = body.length
        /\ body'.fails = body.fails
    BY <1>2, <2>2 DEF BodyType, Bodies
  <2>5. /\ body.filled \in Int /\ body.left \in Int /\ body.taken \in Int /\ k \in Int
        /\ body.fails \in Int /\ body.length \in Int
    BY <1>2 DEF BodyType, Bodies
  <2>6. /\ body'.filled + body'.left = body'.length
        /\ body'.taken = body'.filled + body'.fails
    BY <1>2, <2>4, <2>5
  <2> QED
    BY <1>1, <2>2, <2>3, <2>6, FixThen
<1>4. CASE ReadFixEof
    BY <1>4, FailThen DEF ReadFixEof, Failures
<1>5. CASE ReadFixError
  <2>2. /\ stage' = stage /\ outcome' = outcome
        /\ body' = [body EXCEPT !.filled = @ - 1, !.left = @ + 1, !.fails = @ + 1]
    BY <1>5 DEF ReadFixError
  <2>3. BodyType'
    <3>1. body.filled \in Int /\ body.left \in Int /\ body.fails \in Nat
      BY <1>2 DEF BodyType, Bodies
    <3>2. body.filled - 1 \in Int /\ body.left + 1 \in Int /\ body.fails + 1 \in Nat
      BY <3>1
    <3>3. PICK f \in Int : f = body.filled - 1
      BY <3>2
    <3>4. PICK l \in Int : l = body.left + 1
      BY <3>2
    <3>5. PICK m \in Nat : m = body.fails + 1
      BY <3>2
    <3>6. body' = [body EXCEPT !.filled = f, !.left = l, !.fails = m]
      BY <2>2, <3>3, <3>4, <3>5
    <3> QED
      BY <1>2, <3>6 DEF BodyType, Bodies
  <2>4. /\ body'.filled = body.filled - 1 /\ body'.left = body.left + 1
        /\ body'.taken = body.taken /\ body'.length = body.length
        /\ body'.fails = body.fails + 1
    BY <1>2, <2>2 DEF BodyType, Bodies
  <2>5. /\ body.filled \in Int /\ body.left \in Int /\ body.taken \in Int
        /\ body.fails \in Int /\ body.length \in Int
    BY <1>2 DEF BodyType, Bodies
  <2>6. /\ body'.filled + body'.left = body'.length
        /\ body'.taken = body'.filled + body'.fails
    BY <1>2, <2>4, <2>5
  <2> QED
    BY <1>1, <2>2, <2>3, <2>6, FixThen
<1> QED
    BY <1>3, <1>4, <1>5

\* recvRequest and recvResponse return.
LEMMA DeliverSteps ==
    ASSUME IInv, RequestDelivered \/ ResponseDelivered
    PROVE  IInv'
<1>1. CASE RequestDelivered
  <2>1. stage' = "response" /\ outcome' = outcome /\ outcome = "none" /\ body' = NoBody
    BY <1>1 DEF RequestDelivered, IInv, OutcomeInv
  <2>2. BodyType'
    BY <2>1, NoBodyType DEF BodyType
  <2> QED
    BY <2>1, <2>2, HeadThen DEF Heads
<1>2. CASE ResponseDelivered
  <2>1. /\ stage = "response_body" /\ stage' = "end" /\ outcome' = "response"
        /\ body' = body /\ body.left = 0
    BY <1>2 DEF ResponseDelivered, Finish
  <2>2. BodyType' /\ OutcomeInv'
    BY <2>1 DEF IInv, BodyType, OutcomeInv
  <2>3. FixInv'
    BY <2>1 DEF IInv, FixInv
  <2>4. ChunkInv'
    BY <2>1 DEF ChunkInv
  <2> QED
    BY <2>2, <2>3, <2>4 DEF IInv
<1> QED
    BY <1>1, <1>2

-----------------------------------------------------------------------------
(* The chunk loop. *)

\* A piece of the stream.
LEMMA Slice ==
    ASSUME NEW a \in 1 .. Len(Stream) + 1, NEW n \in a - 1 .. Len(Stream)
    PROVE  /\ SubSeq(Stream, a, n) \in Seq(Byte) /\ Len(SubSeq(Stream, a, n)) = n - a + 1
           /\ \A j \in 1 .. n - a + 1 : SubSeq(Stream, a, n)[j] = Stream[a + j - 1]
<1>1. Stream \in Seq(Byte) /\ Len(Stream) \in Nat
    BY StreamType
<1>2. \A j \in a .. n : Stream[j] \in Byte
    BY <1>1
<1>3. a \in Int /\ n \in Int /\ n >= a - 1
    BY <1>1
<1>4. /\ SubSeq(Stream, a, n) \in Seq(Byte)
      /\ Len(SubSeq(Stream, a, n)) = IF a <= n THEN n - a + 1 ELSE 0
      /\ \A j \in 1 .. n - a + 1 : SubSeq(Stream, a, n)[j] = Stream[a + j - 1]
    BY <1>2, <1>3, SubSeqProperties
<1> QED
    BY <1>3, <1>4

\* The body before any chunk is taken out of the buffer.
LEMMA FirstPiece ==
    ASSUME NEW n \in 0 .. Len(Stream)
    PROVE  [NoBody EXCEPT !.taken = n, !.data = SubSeq(Stream, 1, n)] \in Bodies
<1>1. Len(Stream) \in Nat
    BY StreamType
<1>2. 1 \in 1 .. Len(Stream) + 1 /\ n \in 1 - 1 .. Len(Stream) /\ n \in Int
    BY <1>1
<1>3. PICK d \in Seq(Byte) : d = SubSeq(Stream, 1, n)
    BY <1>2, Slice
<1>4. NoBody \in Bodies
    BY NoBodyType
<1>5. [NoBody EXCEPT !.taken = n, !.data = d] \in Bodies
    BY <1>2, <1>4 DEF Bodies
<1> QED
    BY <1>3, <1>5

\* The head of a response: the first of its chunks may be in the buffer already.
LEMMA ChunksThen ==
    ASSUME NEW n \in 0 .. Len(Stream), stage' = "chunk_read", outcome' = "none",
           body' = [NoBody EXCEPT !.taken = n, !.data = SubSeq(Stream, 1, n)]
    PROVE  IInv'
<1>1. Len(Stream) \in Nat /\ 1 \in 1 .. LastChunk /\ ChunkStart(1) = 0 /\ Before(1) = 0
    BY StreamType
<1>2. BodyType'
    BY FirstPiece DEF BodyType
<1>3. /\ body'.taken = n /\ body'.data = SubSeq(Stream, 1, n)
      /\ body'.bytes = << >> /\ body'.split = FALSE
    BY DEF NoBody
<1>4. Collected(body', 1)
  <2>1. Len(<< >>) = 0 /\ \A j \in 1 .. 0 : FALSE
    OBVIOUS
  <2> QED
    BY <1>1, <1>3, <2>1 DEF Collected
<1>5. Pending(body', 1, 1)
    BY <1>1, <1>3 DEF Pending
<1> QED
    BY <1>1, <1>2, <1>3, <1>4, <1>5, ReadThen

\* A byte of a response's head.
LEMMA ResponseByteStep ==
    ASSUME IInv, NEW c, NEW known, ResponseByte(c, known)
    PROVE  IInv'
<1>1. stage = "response" /\ outcome = "none"
    BY DEF ResponseByte, IInv, OutcomeInv
<1>2. \/ (Finish("nullptr") \/ Finish("abort")) /\ body' = body
      \/ stage' = stage /\ outcome' = outcome /\ body' = body
      \/ /\ outcome' = outcome
         /\ \E n \in 0 .. Len(Stream) :
               /\ stage' = "chunk_read"
               /\ body' = [NoBody EXCEPT !.taken = n, !.data = SubSeq(Stream, 1, n)]
      \/ /\ outcome' = outcome
         /\ \E length \in 0 .. MaxBody, offset \in 0 .. MaxBody + 1 :
               StartBody("response_body", length, offset)
    BY DEF ResponseByte, BodyStartAsserts
<1>3. CASE (Finish("nullptr") \/ Finish("abort")) /\ body' = body
    BY <1>3, FailThen DEF Failures
<1>4. CASE stage' = stage /\ outcome' = outcome /\ body' = body
  <2>1. BodyType'
    BY <1>4 DEF IInv, BodyType
  <2> QED
    BY <1>1, <1>4, <2>1, HeadThen DEF Heads
<1>5. CASE /\ outcome' = outcome
           /\ \E n \in 0 .. Len(Stream) :
                 /\ stage' = "chunk_read"
                 /\ body' = [NoBody EXCEPT !.taken = n, !.data = SubSeq(Stream, 1, n)]
    BY <1>1, <1>5, ChunksThen
<1>6. CASE /\ outcome' = outcome
           /\ \E length \in 0 .. MaxBody, offset \in 0 .. MaxBody + 1 :
                 StartBody("response_body", length, offset)
    BY <1>1, <1>6, StartBodyThen DEF Fixing
<1> QED
    BY <1>2, <1>3, <1>4, <1>5, <1>6

\* What is read is scanned after what was in the buffer.
LEMMA ChunkReadStep ==
    ASSUME IInv, NEW k, ChunkRead(k)
    PROVE  IInv'
<1>1. /\ stage = "chunk_read" /\ k \in 1 .. Len(Stream) - body.taken
      /\ body' = [body EXCEPT !.taken = @ + k, !.content = -1, !.last = FALSE,
                     !.data = @ \o SubSeq(Stream, body.taken + 1, body.taken + k)]
      /\ stage' = "chunk_scan" /\ cs' = 1 /\ outcome' = outcome
    BY DEF ChunkRead
<1>2. /\ BodyType /\ outcome = "none" /\ body.taken \in 0 .. Len(Stream)
      /\ ~body.cut => Lost(body) \/ \E i \in 1 .. LastChunk : Collected(body, i) /\ Pending(body, i, 1)
    BY <1>1 DEF IInv, OutcomeInv, ChunkInv
<1>3. PICK t \in 0 .. Len(Stream) : t = body.taken
    BY <1>2
<1>4. Len(Stream) \in Nat /\ k \in 1 .. Len(Stream) - t
    BY <1>1, <1>3, StreamType
<1>5. PICK n \in 1 .. Len(Stream) : n = t + k
    BY <1>4
<1>6. PICK new : new = SubSeq(Stream, t + 1, n)
    OBVIOUS
<1>7. new \in Seq(Byte) /\ Len(new) = k /\ new[1] = Stream[t + 1] /\ t < Len(Stream)
  <2>1. t + 1 \in 1 .. Len(Stream) + 1 /\ n \in (t + 1) - 1 .. Len(Stream)
    BY <1>4, <1>5
  <2>2. n - (t + 1) + 1 = k /\ 1 \in 1 .. k /\ (t + 1) + 1 - 1 = t + 1 /\ t < Len(Stream)
    BY <1>4, <1>5
  <2> QED
    BY <1>6, <2>1, <2>2, Slice
<1>8. PICK d \in Seq(Byte) : d = body.data
    BY <1>2 DEF BodyType, Bodies
<1>9. PICK d2 : d2 = d \o new
    OBVIOUS
<1>10. /\ d2 \in Seq(Byte) /\ Len(d2) = Len(d) + k
       /\ d2[1] = IF d # << >> THEN d[1] ELSE Stream[t + 1]
  <2>1. k \in Nat /\ k >= 1 /\ Len(d) \in Nat
    BY <1>4
  <2>2. /\ d2 \in Seq(Byte) /\ Len(d2) = Len(d) + k
        /\ \A j \in 1 .. Len(d) + k : d2[j] = IF j <= Len(d) THEN d[j] ELSE new[j - Len(d)]
    BY <1>7, <1>9, ConcatProperties
  <2>3. CASE d = << >>
    BY <1>7, <1>9, <2>3
  <2>4. CASE d # << >>
    <3>1. Len(d) >= 1
      BY <2>4
    <3>2. 1 \in 1 .. Len(d) + k
      BY <2>1, <3>1
    <3> QED
      BY <2>2, <2>4, <3>1, <3>2
  <2> QED
    BY <2>2, <2>3, <2>4
<1>11. body' = [body EXCEPT !.taken = n, !.content = -1, !.last = FALSE, !.data = d2]
    BY <1>1, <1>3, <1>5, <1>6, <1>8, <1>9
<1>12. BodyType'
  <2>1. n \in Int /\ d2 \in Seq(Byte) /\ body \in Bodies
    BY <1>2, <1>4, <1>10 DEF BodyType
  <2>2. PICK m \in Int : m = -1
    OBVIOUS
  <2>3. PICK f \in BOOLEAN : f = FALSE
    OBVIOUS
  <2>4. body' = [body EXCEPT !.taken = n, !.content = m, !.last = f, !.data = d2]
    BY <1>11, <2>2, <2>3
  <2> QED
    BY <2>1, <2>4 DEF BodyType, Bodies
<1>13. /\ body'.taken = n /\ body'.data = d2 /\ body'.bytes = body.bytes
       /\ body'.split = body.split /\ body'.cut = body.cut
    BY <1>2, <1>11 DEF BodyType, Bodies
<1>14. d2 # << >>
    BY <1>4, <1>10
<1>15. outcome' = "none" /\ body'.taken \in 0 .. Len(Stream)
    BY <1>1, <1>2, <1>4, <1>5, <1>13
<1>16. CASE Lost(body)
  <2>1. ~Begins(d2[1])
    BY <1>3, <1>7, <1>8, <1>10, <1>16 DEF Lost
  <2>2. Lost(body')
    BY <1>13, <1>14, <2>1 DEF Lost
  <2>3. cs' = 1 /\ body'.data # << >> /\ Lost(body')
    BY <1>1, <1>13, <1>14, <2>2
  <2> QED
    BY <1>1, <1>12, <1>15, <2>3, ScanThen
<1>17. ASSUME NEW i \in 1 .. LastChunk, Collected(body, i), Pending(body, i, 1) PROVE IInv'
  <2>1. Collected(body', i)
    BY <1>13, <1>17 DEF Collected
  <2>2. PICK a \in Nat : a = ChunkStart(i)
    BY ChunkFacts
  <2>3. t >= a /\ d = SubSeq(Stream, a + 1, t)
    BY <1>3, <1>8, <1>17, <2>2 DEF Pending
  <2>4. /\ Stream \in Seq(Byte) /\ a + 1 \in 1 .. Len(Stream) + 1
        /\ t \in (a + 1) - 1 .. Len(Stream) /\ n \in t .. Len(Stream)
    <3>1. t >= a /\ Len(Stream) \in Nat /\ a \in Nat
      BY <1>4, <2>2, <2>3
    <3>2. a + 1 \in 1 .. Len(Stream) + 1 /\ t \in (a + 1) - 1 .. Len(Stream)
      BY <3>1
    <3>3. n \in t .. Len(Stream)
      BY <1>4, <1>5, <3>1
    <3> QED
      BY <3>2, <3>3, StreamType
  <2>5. d2 = SubSeq(Stream, a + 1, n)
    BY <1>6, <1>9, <2>3, <2>4, ConcatAdjacentSubSeq
  <2>6. n >= a + 1 - 1
    BY <1>4, <1>5, <2>3
  <2>7. Pending(body', i, 1)
    BY <1>13, <2>2, <2>5, <2>6 DEF Pending
  <2>8. Scanning(body', cs', i, 1)
    BY <1>1, <2>1, <2>7 DEF Scanning
  <2>9. 1 \in 1 .. Chunks[i].line
    BY ChunkFacts
  <2> QED
    BY <1>1, <1>12, <1>15, <2>8, <2>9, ScanThen
<1>18. CASE body.cut
    BY <1>1, <1>12, <1>13, <1>15, <1>18, CutThen DEF Chunking
<1> QED
    BY <1>2, <1>16, <1>17, <1>18

\* The bytes of chunk i are appended to those of the chunks before it.
LEMMA AppendChunk ==
    ASSUME BodyType, NEW i \in 1 .. LastChunk, Collected(body, i),
           NEW mid \in Seq(Byte), Len(mid) = ChunkSize(i),
           \A j \in 1 .. ChunkSize(i) : mid[j].id = Before(i) + j,
           body'.bytes = body.bytes \o mid, body'.split = body.split
    PROVE  /\ i = LastChunk => Collected(body', i)
           /\ i # LastChunk => Collected(body', i + 1)
<1>1. PICK m \in Nat : m = Before(i)
    BY ChunkFacts
<1>2. PICK z \in Nat : z = ChunkSize(i)
    BY ChunkFacts
<1>3. PICK b \in Seq(Byte) : b = body.bytes
    BY DEF BodyType, Bodies
<1>4. PICK c : c = b \o mid
    OBVIOUS
<1>5. /\ Len(b) = m /\ Len(mid) = z /\ body'.bytes = c
      /\ ~body.split => \A j \in 1 .. m : b[j].id = j
      /\ body.split => \E j \in 1 .. m : b[j].id = 0
    BY <1>1, <1>2, <1>3, <1>4 DEF Collected
<1>6. /\ c \in Seq(Byte) /\ Len(c) = m + z
      /\ \A j \in 1 .. m + z : c[j] = IF j <= m THEN b[j] ELSE mid[j - m]
  <2>1. /\ c \in Seq(Byte) /\ Len(c) = Len(b) + Len(mid)
        /\ \A j \in 1 .. Len(b) + Len(mid) : c[j] = IF j <= Len(b) THEN b[j]
                                                   ELSE mid[j - Len(b)]
    BY <1>4, ConcatProperties
  <2>2. Len(b) = m /\ Len(mid) = z
    BY <1>5
  <2> QED
    BY <2>1, <2>2
<1>7. ~body.split => \A j \in 1 .. m + z : c[j].id = j
  <2> SUFFICES ASSUME ~body.split, NEW j \in 1 .. m + z PROVE c[j].id = j
    OBVIOUS
  <2>1. CASE j <= m
    <3>1. j \in 1 .. m
      BY <2>1
    <3> QED
      BY <1>5, <1>6, <2>1, <3>1
  <2>2. CASE j > m
    <3>1. j - m \in 1 .. z /\ m + (j - m) = j /\ ~(j <= m)
      BY <2>2
    <3>2. mid[j - m].id = m + (j - m)
      BY <1>1, <1>2, <3>1
    <3> QED
      BY <1>6, <3>1, <3>2
  <2> QED
    BY <2>1, <2>2
<1>8. body.split => \E j \in 1 .. m + z : c[j].id = 0
  <2> SUFFICES ASSUME body.split PROVE \E j \in 1 .. m + z : c[j].id = 0
    OBVIOUS
  <2>1. PICK j \in 1 .. m : b[j].id = 0
    BY <1>5
  <2>2. j \in 1 .. m + z /\ j <= m
    OBVIOUS
  <2> QED
    BY <1>6, <2>1, <2>2
<1>9. ASSUME NEW k, Before(k) = m + z PROVE Collected(body', k)
    BY <1>5, <1>6, <1>7, <1>8, <1>9 DEF Collected
<1>10. i = LastChunk => m + z = m
    BY <1>2, ChunkFacts
<1>11. i # LastChunk => Before(i + 1) = m + z
    BY <1>1, <1>2, ChunkFacts
<1> QED
    BY <1>1, <1>9, <1>10, <1>11

\* What a chunk header does to the body, whatever the size was made of.
LEMMA HeaderType ==
    ASSUME NEW b \in Bodies, ChunkHeader(b)
    PROVE  /\ BodyType' /\ body'.taken = b.taken /\ body'.cut = b.cut
           /\ \/ Finish("threw")
              \/ stage' \in Chunking \cup {"chunk_done"} /\ outcome' = outcome
<1>1. PICK rest \in Seq(Byte) : rest = b.data
    BY DEF Bodies
<1>2. PICK len \in Int : len = Len(rest) - 2
    OBVIOUS
<1>3. PICK z \in Int : z = b.content
    BY DEF Bodies
<1>4. \A j \in 1 .. len : rest[j] \in Byte
    BY <1>2
<1>5. b.bytes \in Seq(Byte) /\ b.data \in Seq(Byte)
    BY DEF Bodies
<1>6. CASE z < 0 \/ len < 0
  <2>1. Finish("threw") /\ body' = b
    BY <1>1, <1>2, <1>3, <1>6 DEF ChunkHeader
  <2> QED
    BY <2>1 DEF BodyType
<1>7. CASE ~(z < 0 \/ len < 0) /\ z <= len
  <2>1. PICK d : d = SubSeq(rest, z + 1, len)
    OBVIOUS
  <2>2. PICK c : c = b.bytes \o SubSeq(rest, 1, z)
    OBVIOUS
  <2>3. /\ stage' = IF b.last THEN "chunk_done" ELSE "chunk_read"
        /\ body' = [b EXCEPT !.data = d, !.bytes = c] /\ outcome' = outcome
    BY <1>1, <1>2, <1>3, <1>7, <2>1, <2>2 DEF ChunkHeader
  <2>4. d \in Seq(Byte)
    <3>1. \A j \in z + 1 .. len : rest[j] \in Byte
      BY <1>4, <1>7
    <3>2. z + 1 \in Int
      OBVIOUS
    <3> QED
      BY <2>1, <3>1, <3>2, SubSeqProperties
  <2>5. SubSeq(rest, 1, z) \in Seq(Byte)
    <3>1. \A j \in 1 .. z : rest[j] \in Byte
      BY <1>4, <1>7
    <3> QED
      BY <3>1, SubSeqProperties
  <2>6. c \in Seq(Byte)
    BY <1>5, <2>2, <2>5, ConcatProperties
  <2>7. body' \in Bodies /\ body'.taken = b.taken /\ body'.cut = b.cut
    BY <2>3, <2>4, <2>6 DEF Bodies
  <2> QED
    BY <2>3, <2>7 DEF BodyType, Chunking
<1>8. CASE ~(z < 0 \/ len < 0) /\ ~(z <= len)
  <2>1. PICK c : c = b.bytes \o SubSeq(rest, 1, len)
    OBVIOUS
  <2>2. PICK l \in Int : l = z - len
    OBVIOUS
  <2>3. /\ stage' = "chunk_left" /\ outcome' = outcome
        /\ body' = [b EXCEPT !.data = << >>, !.bytes = c, !.left = l, !.split = TRUE]
    BY <1>1, <1>2, <1>3, <1>8, <2>1, <2>2 DEF ChunkHeader
  <2>4. SubSeq(rest, 1, len) \in Seq(Byte)
    BY <1>4, SubSeqProperties
  <2>5. c \in Seq(Byte) /\ << >> \in Seq(Byte) /\ TRUE \in BOOLEAN
    BY <1>5, <2>1, <2>4, ConcatProperties
  <2>6. body' \in Bodies /\ body'.taken = b.taken /\ body'.cut = b.cut
    BY <2>2, <2>3, <2>5 DEF Bodies
  <2> QED
    BY <2>3, <2>6 DEF BodyType, Chunking
<1> QED
    BY <1>6, <1>7, <1>8

\* A chunk's data begins after its size line (http_connection.cpp, len -= 2 and what
\* follows).
LEMMA ChunkHeaderStep ==
    ASSUME BodyType, outcome = "none", NEW i \in 1 .. LastChunk, Collected(body, i),
           NEW b \in Bodies, b.bytes = body.bytes, b.split = body.split,
           b.taken \in 0 .. Len(Stream), b.taken >= LineEnd(i),
           b.data = SubSeq(Stream, LineEnd(i) + 1, b.taken),
           b.content = ChunkSize(i), b.last <=> ChunkSize(i) = 0, ChunkHeader(b)
    PROVE  IInv'
<1>1. PICK a \in Nat : a = LineEnd(i)
  <2>1. PICK s \in Nat : s = ChunkStart(i)
    BY ChunkFacts
  <2>2. PICK n \in Nat : n = Chunks[i].line
    BY ChunkFacts
  <2>3. LineEnd(i) = s + n
    BY <2>1, <2>2, ChunkFacts
  <2> QED
    BY <2>3
<1>2. PICK z \in Nat : z = ChunkSize(i)
    BY ChunkFacts
<1>3. Len(Stream) \in Nat /\ a + z + 2 <= Len(Stream) /\ ChunkEnd(i) = a + z + 2
    BY <1>1, <1>2, ChunkFacts
<1>4. PICK t \in Nat : t = b.taken /\ t <= Len(Stream) /\ t >= a
  <2>1. b.taken \in Nat /\ b.taken <= Len(Stream)
    BY <1>3
  <2> QED
    BY <1>1, <2>1
<1>5. PICK rest : rest = SubSeq(Stream, a + 1, t)
    OBVIOUS
<1>6. PICK len \in Int : len = t - a - 2
    OBVIOUS
<1>7. /\ rest \in Seq(Byte) /\ Len(rest) = len + 2
      /\ \A j \in 1 .. len + 2 : rest[j] = Stream[a + j]
  <2>1. a + 1 \in 1 .. Len(Stream) + 1 /\ t \in (a + 1) - 1 .. Len(Stream)
    BY <1>3, <1>4
  <2>2. t - (a + 1) + 1 = len + 2
    BY <1>6
  <2>3. /\ rest \in Seq(Byte) /\ Len(rest) = len + 2
        /\ \A j \in 1 .. len + 2 : rest[j] = Stream[(a + 1) + j - 1]
    BY <1>5, <2>1, <2>2, Slice
  <2>4. ASSUME NEW j \in 1 .. len + 2 PROVE rest[j] = Stream[a + j]
    <3>1. (a + 1) + j - 1 = a + j
      OBVIOUS
    <3>2. rest[j] = Stream[(a + 1) + j - 1]
      BY <2>3
    <3> QED
      BY <3>1, <3>2
  <2> QED
    BY <2>3, <2>4
<1>8. b.data = rest /\ b.content = z /\ ~(z < 0) /\ Len(rest) - 2 = len
    BY <1>1, <1>2, <1>4, <1>5, <1>7
<1>9. BodyType' /\ body'.taken = t
    BY <1>4, HeaderType
<1>10. CASE len < 0
  <2>1. Finish("threw")
    BY <1>8, <1>10 DEF ChunkHeader
  <2> QED
    BY <1>9, <2>1, HeadThen DEF Finish, Heads, Failures
<1>11. CASE ~(len < 0) /\ z <= len
  <2>1. PICK d : d = SubSeq(rest, z + 1, len)
    OBVIOUS
  <2>2. PICK mid : mid = SubSeq(rest, 1, z)
    OBVIOUS
  <2>3. /\ stage' = IF b.last THEN "chunk_done" ELSE "chunk_read"
        /\ body' = [b EXCEPT !.data = d, !.bytes = b.bytes \o mid]
        /\ outcome' = outcome
    BY <1>8, <1>11, <2>1, <2>2 DEF ChunkHeader
  <2>4. /\ body'.bytes = body.bytes \o mid /\ body'.split = body.split /\ body'.data = d
    BY <2>3 DEF Bodies
  <2>5. \A j \in 1 .. len : rest[j] \in Byte
    BY <1>7
  <2>6. /\ Len(d) = len - z /\ d \in Seq(Byte)
        /\ len > z => d[1] = rest[z + 1]
    <3>1. \A j \in z + 1 .. len : rest[j] \in Byte
      BY <2>5
    <3>2. z + 1 \in Int /\ len \in Int
      OBVIOUS
    <3>3. /\ d \in Seq(Byte) /\ Len(d) = IF z + 1 <= len THEN len - (z + 1) + 1 ELSE 0
          /\ \A j \in 1 .. len - (z + 1) + 1 : d[j] = rest[(z + 1) + j - 1]
      BY <2>1, <3>1, <3>2, SubSeqProperties
    <3>4. Len(d) = len - z
      BY <1>11, <3>3
    <3>5. ASSUME len > z PROVE 1 \in 1 .. len - (z + 1) + 1 /\ (z + 1) + 1 - 1 = z + 1
      BY <3>5
    <3>6. ASSUME len > z PROVE d[1] = rest[z + 1]
      <4>1. d[1] = rest[(z + 1) + 1 - 1]
        BY <3>3, <3>5, <3>6
      <4> QED
        BY <3>5, <3>6, <4>1
    <3> QED
      BY <3>3, <3>4, <3>6
  <2>7. /\ mid \in Seq(Byte) /\ Len(mid) = z
        /\ \A j \in 1 .. z : mid[j] = rest[j]
    <3>1. \A j \in 1 .. z : rest[j] \in Byte
      BY <1>11, <2>5
    <3>2. /\ mid \in Seq(Byte) /\ Len(mid) = IF 1 <= z THEN z - 1 + 1 ELSE 0
          /\ \A j \in 1 .. z - 1 + 1 : mid[j] = rest[1 + j - 1]
      BY <2>2, <3>1, SubSeqProperties
    <3>3. Len(mid) = z /\ z - 1 + 1 = z /\ \A j \in 1 .. z : 1 + j - 1 = j
      BY <3>2
    <3> QED
      BY <3>2, <3>3
  <2>8. \A j \in 1 .. z : mid[j].id = Before(i) + j
    <3> SUFFICES ASSUME NEW j \in 1 .. z PROVE mid[j].id = Before(i) + j
      OBVIOUS
    <3>1. j \in 1 .. len + 2
      BY <1>11
    <3>2. mid[j] = Stream[a + j]
      BY <1>7, <2>7, <3>1
    <3> QED
      BY <1>1, <1>2, <3>2, ChunkBytes
  <2>9. /\ i = LastChunk => Collected(body', i)
        /\ i # LastChunk => Collected(body', i + 1)
    BY <1>2, <2>4, <2>7, <2>8, AppendChunk
  <2>10. CASE i = LastChunk
    <3>1. stage' = "chunk_done"
      BY <2>3, <2>10, ChunkFacts
    <3> QED
      BY <1>9, <2>3, <2>9, <2>10, <3>1, DoneThen
  <2>11. CASE i # LastChunk
    <3>1. i + 1 \in 1 .. LastChunk /\ ChunkStart(i + 1) = a + z + 2 /\ ~b.last
      BY <1>3, <2>11, ChunkFacts
    <3>2. stage' = "chunk_read" /\ outcome' = "none" /\ body'.taken \in 0 .. Len(Stream)
      BY <1>3, <1>4, <1>9, <2>3, <3>1
    <3>3. CASE len = z
      <4>1. d = << >> /\ t = a + z + 2
        BY <1>6, <2>6, <3>3
      <4>2. SubSeq(Stream, t + 1, t) = << >>
        BY SubSeqEmpty
      <4>3. t >= t + 1 - 1
        OBVIOUS
      <4>4. Pending(body', i + 1, 1)
        BY <1>9, <2>4, <3>1, <4>1, <4>2, <4>3 DEF Pending
      <4> QED
        BY <1>9, <2>9, <2>11, <3>1, <3>2, <4>4, ReadThen
    <3>4. CASE len > z
      <4>1. d # << >>
        BY <2>6, <3>4
      <4>2. z + 1 \in 1 .. len + 2 /\ a + (z + 1) = a + z + 2 - 1
        BY <3>4
      <4>3. d[1] = Stream[ChunkEnd(i) - 1]
        <5>1. d[1] = rest[z + 1]
          BY <2>6, <3>4
        <5>2. rest[z + 1] = Stream[a + (z + 1)]
          BY <1>7, <4>2
        <5> QED
          BY <1>3, <4>2, <5>1, <5>2
      <4>4. d[1].on = "CR"
        BY <2>11, <4>3, ChunkBytes
      <4>5. ~Begins(d[1])
        BY <4>4 DEF Begins, Rsp!XDigit
      <4>6. Lost(body')
        BY <2>4, <4>1, <4>5 DEF Lost
      <4> QED
        BY <1>9, <3>2, <4>6, ReadThen
    <3> QED
      BY <1>11, <3>3, <3>4
  <2> QED
    BY <2>10, <2>11
<1>12. CASE ~(z <= len) /\ ~(len < 0)
  <2>1. PICK mid : mid = SubSeq(rest, 1, len)
    OBVIOUS
  <2>2. PICK l \in Int : l = z - len
    OBVIOUS
  <2>3. /\ stage' = "chunk_left" /\ outcome' = outcome
        /\ body' = [b EXCEPT !.data = << >>, !.bytes = b.bytes \o mid, !.left = l,
                             !.split = TRUE]
    BY <1>8, <1>12, <2>1, <2>2 DEF ChunkHeader
  <2>4. mid \in Seq(Byte) /\ Len(mid) = len
    <3>1. \A j \in 1 .. len : rest[j] \in Byte
      BY <1>7
    <3>2. mid \in Seq(Byte) /\ Len(mid) = IF 1 <= len THEN len - 1 + 1 ELSE 0
      BY <2>1, <3>1, SubSeqProperties
    <3> QED
      BY <1>12, <3>2
  <2>5. body.bytes \in Seq(Byte) /\ Len(body.bytes) = Before(i)
    BY DEF BodyType, Bodies, Collected
  <2>6. Len(body.bytes \o mid) = Before(i) + len
    <3>1. PICK old \in Seq(Byte) : old = body.bytes
      BY <2>5
    <3>2. Len(old \o mid) = Len(old) + Len(mid)
      BY <2>4, ConcatProperties
    <3> QED
      BY <2>4, <2>5, <3>1, <3>2
  <2>7. /\ body'.bytes = body.bytes \o mid /\ body'.split = TRUE /\ body'.left = l
        /\ body'.data = << >>
    BY <2>3 DEF Bodies
  <2>8. z # 0 /\ l >= 1
    BY <1>12, <2>2
  <2>9. /\ i # LastChunk /\ Before(i + 1) = Before(i) + z
        /\ ChunkStart(i + 1) = a + z + 2 /\ Before(i) \in Nat
    BY <1>2, <1>3, <2>8, ChunkFacts
  <2>10. Len(body'.bytes) + l = Before(i + 1)
    BY <2>2, <2>6, <2>7, <2>9
  <2>11. t + l = ChunkStart(i + 1)
    BY <1>6, <2>2, <2>9
  <2>12. body'.taken \in 0 .. Len(Stream) /\ outcome' = "none"
    BY <1>3, <1>4, <1>9, <2>3
  <2> QED
    BY <1>9, <2>3, <2>7, <2>8, <2>9, <2>10, <2>11, <2>12, LeftThen
<1> QED
    BY <1>10, <1>11, <1>12

\* What the actions of a scanner step make of the body.
LEMMA ScannedFacts ==
    ASSUME BodyType, body.data # << >>, NEW do
    PROVE  /\ Scanned(do) \in Bodies /\ Scanned(do).data = Tail(body.data)
           /\ Scanned(do).taken = body.taken /\ Scanned(do).bytes = body.bytes
           /\ Scanned(do).split = body.split /\ Scanned(do).cut = body.cut
           /\ do = <<"mark">> => Scanned(do).mark = Head(body.data)
           /\ do = << >> => Scanned(do).mark = body.mark
           /\ do = <<"chunk_size">> \/ do = <<"chunk_size", "done">> =>
                 /\ Scanned(do).content = body.mark.hex
                 /\ Scanned(do).last <=> body.mark.hex = 0
           /\ NoSize(do) => Scanned(do).content = body.content /\ Scanned(do).last = body.last
<1>1. PICK m : m = IF {"mark", "start_value"} \cap ToSet(do) # {} THEN Head(body.data)
                   ELSE body.mark
    OBVIOUS
<1>2. PICK z : z = IF "chunk_size" \in ToSet(do) THEN body.mark.hex
                   ELSE IF "write_content_len" \in ToSet(do) THEN body.mark.dec
                   ELSE body.content
    OBVIOUS
<1>3. PICK f : f = IF "chunk_size" \in ToSet(do) THEN body.mark.hex = 0 ELSE body.last
    OBVIOUS
<1>4. PICK d : d = Tail(body.data)
    OBVIOUS
<1>5. body \in Bodies
    BY DEF BodyType
<1>6. Scanned(do) = [body EXCEPT !.data = d, !.mark = m, !.content = z, !.last = f]
    BY <1>1, <1>2, <1>3, <1>4, <1>5 DEF Scanned, Bodies
<1>7. d \in Seq(Byte) /\ Head(body.data) \in Byte
  <2>1. body.data \in Seq(Byte)
    BY <1>5 DEF Bodies
  <2> QED
    BY <1>4, <2>1
<1>8. body.mark \in Byte /\ body.content \in Int /\ body.last \in BOOLEAN
    BY <1>5 DEF Bodies
<1>9. body.mark.hex \in Int /\ body.mark.dec \in Int
    BY <1>8 DEF Byte
<1>10. m \in Byte
    BY <1>1, <1>7, <1>8
<1>11. z \in Int
    BY <1>2, <1>8, <1>9
<1>12. f \in BOOLEAN
    BY <1>3, <1>8
<1>13. Scanned(do) \in Bodies
    BY <1>5, <1>6, <1>7, <1>10, <1>11, <1>12 DEF Bodies
<1>14. /\ Scanned(do).data = d /\ Scanned(do).mark = m /\ Scanned(do).content = z
       /\ Scanned(do).last = f /\ Scanned(do).taken = body.taken
       /\ Scanned(do).bytes = body.bytes /\ Scanned(do).split = body.split
       /\ Scanned(do).cut = body.cut
    BY <1>5, <1>6 DEF Bodies
<1>15. do = <<"mark">> => m = Head(body.data)
  <2>1. "mark" \in ToSet(<<"mark">>)
    BY DEF ToSet
  <2> QED
    BY <1>1, <2>1
<1>16. do = << >> => m = body.mark
  <2>1. ToSet(<< >>) = {}
    BY DEF ToSet
  <2> QED
    BY <1>1, <2>1
<1>17. do = <<"chunk_size">> \/ do = <<"chunk_size", "done">> =>
          z = body.mark.hex /\ (f <=> body.mark.hex = 0)
  <2>1. "chunk_size" \in ToSet(<<"chunk_size">>)
    BY DEF ToSet
  <2>2. "chunk_size" \in ToSet(<<"chunk_size", "done">>)
    BY DEF ToSet
  <2> QED
    BY <1>2, <1>3, <2>1, <2>2
<1>18. NoSize(do) => z = body.content /\ f = body.last
    BY <1>2, <1>3 DEF NoSize
<1>19. /\ Scanned(do).data = Tail(body.data)
       /\ Scanned(do).taken = body.taken /\ Scanned(do).bytes = body.bytes
       /\ Scanned(do).split = body.split /\ Scanned(do).cut = body.cut
    BY <1>4, <1>14
<1>20. /\ do = <<"mark">> => Scanned(do).mark = Head(body.data)
       /\ do = << >> => Scanned(do).mark = body.mark
    BY <1>14, <1>15, <1>16
<1>21. do = <<"chunk_size">> \/ do = <<"chunk_size", "done">> =>
          /\ Scanned(do).content = body.mark.hex
          /\ Scanned(do).last <=> body.mark.hex = 0
    BY <1>14, <1>17
<1>22. NoSize(do) => Scanned(do).content = body.content /\ Scanned(do).last = body.last
    BY <1>14, <1>18
<1> QED
    BY <1>13, <1>19, <1>20, <1>21, <1>22

\* The first byte of the buffer is taken out of it.
LEMMA NextByte ==
    ASSUME BodyType, NEW i \in 1 .. LastChunk, NEW p \in 1 .. Chunks[i].line,
           body.taken \in 0 .. Len(Stream), Pending(body, i, p), body.data # << >>,
           NEW b, b.taken = body.taken, b.data = Tail(body.data)
    PROVE  /\ Head(body.data) = Stream[ChunkStart(i) + p]
           /\ Pending(b, i, p + 1)
<1>1. PICK a \in Nat : a = ChunkStart(i)
    BY ChunkFacts
<1>2. Len(Stream) \in Nat /\ Stream \in Seq(Byte) /\ p \in Nat /\ p >= 1
    BY ChunkFacts
<1>3. PICK t \in Nat : t = body.taken /\ t <= Len(Stream)
    BY <1>2
<1>4. PICK d \in Seq(Byte) : d = body.data
    BY DEF BodyType, Bodies
<1>5. t >= a + p - 1 /\ d = SubSeq(Stream, a + p, t) /\ d # << >>
    BY <1>1, <1>3, <1>4 DEF Pending
<1>6. PICK n \in Nat : n = a + p /\ n >= 1
    BY <1>2
<1>7. n \in 1 .. Len(Stream) /\ t \in n .. Len(Stream)
  <2>1. n \in 1 .. Len(Stream) + 1 /\ t \in n - 1 .. Len(Stream)
    BY <1>2, <1>3, <1>5, <1>6
  <2>2. Len(d) = t - n + 1
    BY <1>5, <1>6, <2>1, Slice
  <2>3. Len(d) # 0
    BY <1>5
  <2> QED
    BY <1>2, <1>3, <1>6, <2>1, <2>2, <2>3
<1>8. Head(d) = Stream[n] /\ Tail(d) = SubSeq(Stream, n + 1, t)
    BY <1>2, <1>5, <1>6, <1>7, HeadTailOfSubSeq
<1>9. a + (p + 1) = n + 1 /\ t >= a + (p + 1) - 1
    BY <1>2, <1>6, <1>7
<1>10. b.taken = t /\ b.data = SubSeq(Stream, a + (p + 1), t)
    BY <1>3, <1>4, <1>8, <1>9
<1>11. Pending(b, i, p + 1)
    BY <1>1, <1>9, <1>10 DEF Pending
<1> QED
    BY <1>1, <1>4, <1>6, <1>8, <1>11

\* The buffer ends inside a header: the scanner starts again, where a size line may begin
\* or not.
LEMMA HeaderCutStep ==
    ASSUME IInv, HeaderCut
    PROVE  IInv'
<1>1. /\ stage = "chunk_scan" /\ body.data = << >> /\ BodyType /\ outcome = "none"
      /\ body.taken \in 0 .. Len(Stream)
    BY DEF HeaderCut, IInv, OutcomeInv, ChunkInv
<1>2. CASE ps.error
    BY <1>2, FailThen DEF HeaderCut, Failures
<1>3. CASE ~ps.error
  <2>1. PICK k : k = (body.cut \/ (body.taken < Len(Stream) /\ Begins(Stream[body.taken + 1])))
    OBVIOUS
  <2>2. k \in BOOLEAN
    BY <1>1, <2>1 DEF BodyType, Bodies
  <2>3. stage' = "chunk_read" /\ outcome' = "none" /\ body' = [body EXCEPT !.cut = k]
    BY <1>1, <1>3, <2>1 DEF HeaderCut, BodyType, Bodies
  <2>4. BodyType'
    BY <1>1, <2>2, <2>3 DEF BodyType, Bodies
  <2>5. /\ body'.cut = k /\ body'.taken = body.taken /\ body'.data = << >>
    BY <1>1, <2>3 DEF BodyType, Bodies
  <2>6. CASE k
    BY <1>1, <2>3, <2>4, <2>5, <2>6, CutThen DEF Chunking
  <2>7. CASE ~k
    <3>1. Lost(body')
      BY <2>1, <2>5, <2>7 DEF Lost
    <3> QED
      BY <1>1, <2>3, <2>4, <2>5, <3>1, ReadThen
  <2> QED
    BY <2>6, <2>7
<1> QED
    BY <1>2, <1>3

\* A byte of a size line.
LEMMA LineByteStep ==
    ASSUME IInv, stage = "chunk_scan", body.data # << >>,
           NEW i \in 1 .. LastChunk, NEW p \in 1 .. Chunks[i].line,
           Scanning(body, cs, i, p),
           NEW e \in Rsp!OnByte(Rsp!ResponseTable, cs, Head(body.data).on), cs' = e.to,
           IF e.to < 120 THEN body' = Scanned(e.do) /\ stage' = stage /\ outcome' = outcome
           ELSE ChunkHeader(Scanned(e.do))
    PROVE  IInv'
<1>1. /\ BodyType /\ outcome = "none" /\ body.taken \in 0 .. Len(Stream)
      /\ Collected(body, i) /\ Pending(body, i, p) /\ cs \in 1 .. 7
    BY DEF IInv, OutcomeInv, ChunkInv, Scanning
<1>2. PICK b : b = Scanned(e.do)
    OBVIOUS
<1>3. /\ b \in Bodies /\ b.data = Tail(body.data) /\ b.taken = body.taken
      /\ b.bytes = body.bytes /\ b.split = body.split /\ b.cut = body.cut
    BY <1>1, <1>2, ScannedFacts
<1>4. Head(body.data) = Stream[ChunkStart(i) + p] /\ Pending(b, i, p + 1)
    BY <1>1, <1>3, NextByte
<1>5. Collected(b, i)
    BY <1>1, <1>3 DEF Collected
<1>6. Chunks[i].line \in Nat /\ Chunks[i].line > 1 /\ p \in Nat /\ p >= 1
    BY ChunkFacts
<1>7. Head(body.data).on = "LF" <=> p = Chunks[i].line
    BY <1>4, ChunkBytes
<1>8. CASE cs = 1
  <2>1. p = 1 /\ Head(body.data).on \in Rsp!XDigit
    BY <1>4, <1>8, ChunkBytes DEF Scanning
  <2>2. e.to = 2 /\ e.do = <<"mark">>
    BY <1>1, <1>8, <2>1, LineScan
  <2>3. b.mark = Stream[ChunkStart(i) + 1]
    BY <1>1, <1>2, <1>4, <2>1, <2>2, ScannedFacts
  <2>4. Scanning(b, 2, i, 2)
    BY <1>4, <1>5, <2>1, <2>3 DEF Scanning
  <2>5. 2 \in 1 .. Chunks[i].line
    BY <1>6
  <2>6. body' = b /\ stage' = "chunk_scan" /\ outcome' = "none" /\ cs' = 2
    BY <1>1, <1>2, <2>2
  <2>7. BodyType' /\ body'.taken \in 0 .. Len(Stream)
    BY <1>1, <1>3, <2>6 DEF BodyType
  <2> QED
    BY <2>4, <2>5, <2>6, <2>7, ScanThen
<1>9. CASE cs \in 2 .. 7
  <2>1. /\ Head(body.data).on = "LF" <=> e.to = 120
        /\ cs = 2 => \/ e.to = 2 /\ e.do = << >>
                     \/ e.to \in 3 .. 7 /\ e.do = <<"chunk_size">>
                     \/ e.to = 120 /\ e.do = <<"chunk_size", "done">>
        /\ cs > 2 => e.to \in (3 .. 7) \cup {120} /\ NoSize(e.do)
    BY <1>1, <1>9, LineScan
  <2>2. e.to # 2 => b.content = ChunkSize(i) /\ (b.last <=> ChunkSize(i) = 0)
    <3>1. CASE cs = 2 /\ e.to # 2
      <4>1. e.do = <<"chunk_size">> \/ e.do = <<"chunk_size", "done">>
        BY <2>1, <3>1
      <4>2. body.mark.hex = ChunkSize(i)
        BY <3>1, ChunkBytes DEF Scanning
      <4>3. b.content = body.mark.hex /\ (b.last <=> body.mark.hex = 0)
        BY <1>1, <1>2, <4>1, ScannedFacts
      <4> QED
        BY <4>2, <4>3
    <3>2. CASE cs > 2
      <4>1. b.content = body.content /\ b.last = body.last
        BY <1>1, <1>2, <2>1, <3>2, ScannedFacts
      <4> QED
        BY <3>2, <4>1 DEF Scanning
    <3> QED
      BY <1>9, <3>1, <3>2
  <2>3. CASE e.to = 120
    <3>1. p = Chunks[i].line /\ ChunkHeader(b)
      BY <1>2, <1>7, <2>1, <2>3
    <3>2. LineEnd(i) + 1 = ChunkStart(i) + (p + 1)
      BY <1>6, <3>1, ChunkFacts
    <3>3. b.taken >= LineEnd(i) /\ b.data = SubSeq(Stream, LineEnd(i) + 1, b.taken)
      <4>1. b.taken >= ChunkStart(i) + (p + 1) - 1
        BY <1>4 DEF Pending
      <4>2. LineEnd(i) = ChunkStart(i) + (p + 1) - 1
        BY <1>6, <3>1, ChunkFacts
      <4>3. b.data = SubSeq(Stream, ChunkStart(i) + (p + 1), b.taken)
        BY <1>4 DEF Pending
      <4> QED
        BY <3>2, <4>1, <4>2, <4>3
    <3>4. b.content = ChunkSize(i) /\ (b.last <=> ChunkSize(i) = 0)
      BY <2>2, <2>3
    <3>5. b.taken \in 0 .. Len(Stream)
      BY <1>1, <1>3
    <3> QED
      BY <1>1, <1>3, <3>1, <3>3, <3>4, <3>5, ChunkHeaderStep
  <2>4. CASE e.to # 120
    <3>1. e.to \in 2 .. 7
      BY <1>9, <2>1, <2>4
    <3>2. p + 1 \in 1 .. Chunks[i].line
      BY <1>6, <1>7, <2>1, <2>4
    <3>3. e.to = 2 => b.mark = Stream[ChunkStart(i) + 1]
      <4> SUFFICES ASSUME e.to = 2 PROVE b.mark = Stream[ChunkStart(i) + 1]
        OBVIOUS
      <4>1. cs = 2 /\ e.do = << >>
        BY <1>9, <2>1
      <4>2. b.mark = body.mark
        BY <1>1, <1>2, <4>1, ScannedFacts
      <4> QED
        BY <4>1, <4>2 DEF Scanning
    <3>4. Scanning(b, e.to, i, p + 1)
      BY <1>4, <1>5, <2>2, <3>1, <3>3 DEF Scanning
    <3>5. body' = b /\ stage' = "chunk_scan" /\ outcome' = "none" /\ cs' = e.to
      BY <1>1, <1>2, <3>1
    <3>6. BodyType' /\ body'.taken \in 0 .. Len(Stream)
      BY <1>1, <1>3, <3>5 DEF BodyType
    <3> QED
      BY <3>2, <3>4, <3>5, <3>6, ScanThen
  <2> QED
    BY <2>3, <2>4
<1> QED
    BY <1>1, <1>8, <1>9

\* Any byte the scanner is given in the chunk loop.
LEMMA ChunkByteStep ==
    ASSUME IInv, NEW known, ChunkByte(known)
    PROVE  IInv'
<1>1. /\ stage = "chunk_scan" /\ body.data # << >> /\ BodyType /\ outcome = "none"
      /\ body.taken \in 0 .. Len(Stream)
      /\ ~body.cut => \/ cs = 1 /\ Lost(body)
                      \/ \E i \in 1 .. LastChunk : \E p \in 1 .. Chunks[i].line :
                            Scanning(body, cs, i, p)
    BY DEF ChunkByte, IInv, OutcomeInv, ChunkInv
<1>2. PICK edges : edges = Rsp!OnByte(Rsp!ResponseTable, cs, Head(body.data).on)
    OBVIOUS
<1>3. \/ Finish("nullptr") /\ body' = body
      \/ \E e \in edges :
            /\ cs' = e.to
            /\ IF e.to < 120 THEN body' = Scanned(e.do) /\ stage' = stage /\ outcome' = outcome
               ELSE IF ps'.error THEN Finish("nullptr") /\ body' = Scanned(e.do)
               ELSE IF e.to = 120 THEN ChunkHeader(Scanned(e.do))
               ELSE stage' = "chunk_read" /\ body' = Scanned(e.do) /\ outcome' = outcome
    BY <1>2 DEF ChunkByte
<1>4. CASE Finish("nullptr") /\ body' = body
    BY <1>4, FailThen DEF Failures
<1>5. ASSUME NEW e \in edges, cs' = e.to,
             IF e.to < 120 THEN body' = Scanned(e.do) /\ stage' = stage /\ outcome' = outcome
             ELSE IF ps'.error THEN Finish("nullptr") /\ body' = Scanned(e.do)
             ELSE IF e.to = 120 THEN ChunkHeader(Scanned(e.do))
             ELSE stage' = "chunk_read" /\ body' = Scanned(e.do) /\ outcome' = outcome
      PROVE  IInv'
  <2>1. /\ Scanned(e.do) \in Bodies /\ Scanned(e.do).taken = body.taken
        /\ Scanned(e.do).cut = body.cut
    BY <1>1, ScannedFacts
  <2>2. CASE Finish("nullptr") /\ body' = Scanned(e.do)
    <3>1. BodyType' /\ stage' = "end" /\ outcome' = "nullptr"
      BY <2>1, <2>2 DEF BodyType, Finish
    <3> QED
      BY <3>1, HeadThen DEF Heads, Failures
  <2>3. CASE body.cut /\ ~(Finish("nullptr") /\ body' = Scanned(e.do))
    <3>1. CASE body' = Scanned(e.do) /\ stage' \in Chunking /\ outcome' = outcome
      <4>1. BodyType' /\ body'.cut /\ body'.taken \in 0 .. Len(Stream)
        BY <1>1, <2>1, <2>3, <3>1 DEF BodyType
      <4> QED
        BY <1>1, <3>1, <4>1, CutThen
    <3>2. CASE ChunkHeader(Scanned(e.do))
      <4>1. /\ BodyType' /\ body'.cut /\ body'.taken \in 0 .. Len(Stream)
            /\ \/ Finish("threw")
               \/ stage' \in Chunking \cup {"chunk_done"} /\ outcome' = outcome
        BY <1>1, <2>1, <2>3, <3>2, HeaderType
      <4>2. CASE Finish("threw")
        BY <4>1, <4>2, HeadThen DEF Finish, Heads, Failures
      <4>3. CASE stage' \in Chunking \cup {"chunk_done"} /\ outcome' = outcome
        BY <1>1, <4>1, <4>3, CutThen
      <4> QED
        BY <4>1, <4>2, <4>3
    <3>3. stage \in Chunking /\ "chunk_read" \in Chunking
      BY <1>1 DEF Chunking
    <3> QED
      BY <1>5, <2>3, <3>1, <3>2, <3>3
  <2>4. CASE ~body.cut /\ ~(Finish("nullptr") /\ body' = Scanned(e.do))
    <3>1. ~(cs = 1 /\ Lost(body))
      <4> SUFFICES ASSUME cs = 1, Lost(body) PROVE FALSE
        OBVIOUS
      <4>1. Head(body.data).on \in Rsp!XDigit \cup {"H"}
        BY <1>2, <1>5, LineScan
      <4>2. Head(body.data) = body.data[1]
        BY <1>1 DEF BodyType, Bodies
      <4> QED
        BY <1>1, <4>1, <4>2 DEF Lost, Begins
    <3>2. PICK i \in 1 .. LastChunk : \E p \in 1 .. Chunks[i].line :
             Scanning(body, cs, i, p)
      BY <1>1, <2>4, <3>1
    <3>3. PICK p \in 1 .. Chunks[i].line : Scanning(body, cs, i, p)
      BY <3>2
    <3>4. cs \in 1 .. 7 /\ (cs = 1 => Head(body.data).on \in Rsp!XDigit)
      <4>1. cs \in 1 .. 7 /\ (cs = 1 => p = 1) /\ Pending(body, i, p)
        BY <3>3 DEF Scanning
      <4>2. PICK b : b.taken = body.taken /\ b.data = Tail(body.data)
        BY <1>1, ScannedFacts
      <4>3. Head(body.data) = Stream[ChunkStart(i) + p]
        BY <1>1, <4>1, <4>2, NextByte
      <4> QED
        BY <4>1, <4>3, ChunkBytes
    <3>5. e.to \in (2 .. 7) \cup {120}
      <4>1. CASE cs = 1
        BY <1>2, <1>5, <3>4, <4>1, LineScan
      <4>2. CASE cs = 2
        BY <1>2, <1>5, <4>2, LineScan
      <4>3. CASE cs \in 3 .. 7
        BY <1>2, <1>5, <4>3, LineScan
      <4> QED
        BY <3>4, <4>1, <4>2, <4>3
    <3>6. IF e.to < 120 THEN body' = Scanned(e.do) /\ stage' = stage /\ outcome' = outcome
          ELSE ChunkHeader(Scanned(e.do))
      BY <1>5, <2>4, <3>5
    <3> QED
      BY <1>1, <1>2, <1>5, <3>3, <3>6, LineByteStep
  <2> QED
    BY <2>2, <2>3, <2>4
<1> QED
    BY <1>3, <1>4, <1>5

\* The rest of a chunk, read by itself, ends with the CR LF behind the chunk.
LEMMA ChunkLeftStep ==
    ASSUME IInv, NEW k, ChunkLeft(k)
    PROVE  IInv'
<1>1. /\ stage = "chunk_left" /\ k \in 1 .. body.left /\ body.taken + k <= Len(Stream)
      /\ body' = [body EXCEPT !.taken = @ + k, !.left = @ - k,
                     !.bytes = @ \o SubSeq(Stream, body.taken + 1, body.taken + k)]
      /\ stage' = IF body.left = k THEN "chunk_read" ELSE "chunk_left"
      /\ outcome' = outcome
    BY DEF ChunkLeft
<1>2. body \in Bodies /\ outcome = "none" /\ body.taken \in 0 .. Len(Stream)
    BY <1>1 DEF IInv, OutcomeInv, ChunkInv, BodyType
<1>3. ~body.cut =>
         /\ body.split /\ body.left >= 1 /\ body.data = << >>
         /\ \E i \in 1 .. LastChunk :
               /\ i # LastChunk
               /\ Len(body.bytes) + body.left = Before(i + 1)
               /\ body.taken + body.left = ChunkStart(i + 1)
    BY <1>1 DEF IInv, ChunkInv
<1>4. Stream \in Seq(Byte) /\ Len(Stream) \in Nat
    BY StreamType
<1>5. PICK t \in Nat : t = body.taken
    BY <1>2, <1>4
<1>6. PICK l \in Nat : l = body.left /\ l >= 1
    BY <1>1, <1>2 DEF Bodies
<1>7. PICK b \in Seq(Byte) : b = body.bytes
    BY <1>2 DEF Bodies
<1>8. k \in 1 .. l /\ t + k <= Len(Stream)
    BY <1>1, <1>5, <1>6
<1>9. PICK new : new = SubSeq(Stream, t + 1, t + k)
    OBVIOUS
<1>10. new \in Seq(Byte) /\ Len(new) = k /\ new[k] = Stream[t + k]
  <2>1. PICK n \in Nat : n = t + k
    BY <1>8
  <2>2. t + 1 \in 1 .. Len(Stream) + 1 /\ n \in (t + 1) - 1 .. Len(Stream)
    BY <1>4, <1>8, <2>1
  <2>3. n - (t + 1) + 1 = k /\ k \in 1 .. k /\ (t + 1) + k - 1 = n
    BY <1>8, <2>1
  <2>4. new = SubSeq(Stream, t + 1, n)
    BY <1>9, <2>1
  <2>5. /\ new \in Seq(Byte) /\ Len(new) = n - (t + 1) + 1
        /\ \A j \in 1 .. n - (t + 1) + 1 : new[j] = Stream[(t + 1) + j - 1]
    BY <2>2, <2>4, Slice
  <2> QED
    BY <2>1, <2>3, <2>5
<1>11. PICK c : c = b \o new
    OBVIOUS
<1>12. /\ c \in Seq(Byte) /\ Len(c) = Len(b) + k /\ Len(b) \in Nat
       /\ c[Len(b) + k] = Stream[t + k]
  <2>1. /\ c \in Seq(Byte) /\ Len(c) = Len(b) + Len(new)
        /\ \A j \in 1 .. Len(b) + Len(new) : c[j] = IF j <= Len(b) THEN b[j]
                                                    ELSE new[j - Len(b)]
    BY <1>10, <1>11, ConcatProperties
  <2>2. /\ Len(b) \in Nat /\ Len(b) + k \in 1 .. Len(b) + Len(new)
        /\ ~(Len(b) + k <= Len(b)) /\ (Len(b) + k) - Len(b) = k
    BY <1>8, <1>10
  <2> QED
    BY <1>10, <2>1, <2>2
<1>13. PICK u \in Nat : u = t + k
    BY <1>8
<1>14. PICK l2 \in Nat : l2 = l - k
    BY <1>8
<1>15. body' = [body EXCEPT !.taken = u, !.left = l2, !.bytes = c]
  <2>1. body' = [body EXCEPT !.taken = body.taken + k, !.left = body.left - k,
                    !.bytes = body.bytes \o SubSeq(Stream, body.taken + 1, body.taken + k)]
    BY <1>1, <1>2 DEF Bodies
  <2> QED
    BY <1>5, <1>6, <1>7, <1>9, <1>11, <1>13, <1>14, <2>1
<1>16. BodyType'
  <2>1. u \in Int /\ l2 \in Int /\ c \in Seq(Byte)
    BY <1>12
  <2> QED
    BY <1>2, <1>15, <2>1 DEF BodyType, Bodies
<1>17. /\ body'.taken = u /\ body'.left = l2 /\ body'.bytes = c
       /\ body'.split = body.split /\ body'.data = body.data /\ body'.cut = body.cut
    BY <1>2, <1>15 DEF Bodies
<1>18. body'.taken \in 0 .. Len(Stream)
    BY <1>4, <1>8, <1>13, <1>17
<1>19. CASE body.cut
    BY <1>1, <1>2, <1>16, <1>17, <1>18, <1>19, CutThen DEF Chunking
<1>20. ASSUME ~body.cut, NEW i \in 1 .. LastChunk, i # LastChunk,
              Len(body.bytes) + body.left = Before(i + 1),
              body.taken + body.left = ChunkStart(i + 1)
       PROVE  IInv'
  <2>1. PICK s \in Nat : s = ChunkStart(i + 1) /\ t + l = s
    BY <1>5, <1>6, <1>20
  <2>2. Len(b) + l = Before(i + 1)
    BY <1>6, <1>7, <1>20
  <2>3. CASE l # k
    <3>1. stage' = "chunk_left" /\ l2 >= 1
      BY <1>1, <1>6, <1>8, <1>14, <2>3
    <3>2. Len(c) + l2 = Before(i + 1)
      BY <1>8, <1>12, <1>14, <2>2
    <3>3. u + l2 = ChunkStart(i + 1)
      BY <1>8, <1>13, <1>14, <2>1
    <3>4. body'.split /\ body'.data = << >>
      BY <1>3, <1>17, <1>20
    <3> QED
      BY <1>1, <1>2, <1>16, <1>17, <1>18, <1>20, <3>1, <3>2, <3>3, <3>4, LeftThen
  <2>4. CASE l = k
    <3>1. stage' = "chunk_read" /\ u = s /\ Len(c) = Before(i + 1)
      BY <1>1, <1>6, <1>8, <1>12, <1>13, <2>1, <2>2, <2>4
    <3>2. i + 1 \in 1 .. LastChunk /\ s = ChunkEnd(i)
      BY <1>20, <2>1, ChunkFacts
    <3>3. Stream[s].id = 0
      BY <1>20, <3>2, ChunkBytes
    <3>4. c[Len(c)].id = 0 /\ Len(c) \in 1 .. Len(c)
      <4>1. t + k = s
        BY <2>1, <2>4
      <4>2. Len(c) \in Nat /\ Len(c) >= 1
        BY <1>8, <1>12
      <4> QED
        BY <1>12, <3>3, <4>1, <4>2
    <3>5. body'.split /\ body'.data = << >>
      BY <1>3, <1>17, <1>20
    <3>6. Collected(body', i + 1)
      BY <1>17, <3>1, <3>4, <3>5 DEF Collected
    <3>7. SubSeq(Stream, s + 1, s) = << >> /\ s >= s + 1 - 1
      BY SubSeqEmpty
    <3>8. Pending(body', i + 1, 1)
      BY <1>17, <2>1, <3>1, <3>5, <3>7 DEF Pending
    <3> QED
      BY <1>1, <1>2, <1>16, <1>18, <3>1, <3>2, <3>6, <3>8, ReadThen
  <2> QED
    BY <2>3, <2>4
<1> QED
    BY <1>3, <1>19, <1>20

\* A read that brings nothing, and the end of the chunk loop.
LEMMA ChunkEndSteps ==
    ASSUME IInv, ChunkReadNothing \/ ChunksDone
    PROVE  IInv'
<1>1. CASE ChunkReadNothing
    BY <1>1, FailThen DEF ChunkReadNothing, Failures
<1>2. CASE ChunksDone
  <2>1. /\ stage = "chunk_done" /\ stage' = "end" /\ outcome' = "chunked response"
        /\ body' = body
    BY <1>2 DEF ChunksDone, Finish
  <2>2. BodyType' /\ (~body.cut => Collected(body', LastChunk))
    BY <2>1 DEF IInv, BodyType, ChunkInv
  <2> QED
    BY <2>1, <2>2 DEF IInv, OutcomeInv, FixInv, ChunkInv
<1> QED
    BY <1>1, <1>2

-----------------------------------------------------------------------------
(* The theorems. *)

\* Every step keeps the invariant.
LEMMA AnyStep == IInv /\ [Next]_vars => IInv'
<1> SUFFICES ASSUME IInv, [Next]_vars PROVE IInv'
    OBVIOUS
<1>1. CASE UNCHANGED vars
  <2>1. stage' = stage /\ cs' = cs /\ body' = body /\ outcome' = outcome
    BY <1>1 DEF vars
  <2>2. BodyType' /\ OutcomeInv' /\ FixInv'
    BY <2>1 DEF IInv, BodyType, OutcomeInv, FixInv
  <2>3. ChunkInv'
    BY <2>1, Zenon DEF IInv, ChunkInv
  <2> QED
    BY <2>2, <2>3 DEF IInv
<1>2. CASE (\E c \in Uri!Uri_alphabet : UriByte(c)) \/ UriEnd \/ NewRequest
    BY <1>2, UriSteps
<1>3. CASE Read \/ ReadNothing \/ BufferEnd
    BY <1>3, ReadSteps
<1>4. CASE \E c \in Req!Request_alphabet, known \in BOOLEAN : RequestByte(c, known)
    BY <1>4, RequestByteStep
<1>5. CASE (\E k \in 1 .. MaxBody + MaxFail : ReadFix(k)) \/ ReadFixEof \/ ReadFixError
    BY <1>5, FixSteps
<1>6. CASE RequestDelivered \/ ResponseDelivered
    BY <1>6, DeliverSteps
<1>7. CASE \E c \in Rsp!Response_alphabet, known \in BOOLEAN : ResponseByte(c, known)
    BY <1>7, ResponseByteStep
<1>8. CASE \E k \in 1 .. Len(Stream) : ChunkRead(k)
    BY <1>8, ChunkReadStep
<1>9. CASE ChunkReadNothing \/ ChunksDone
    BY <1>9, ChunkEndSteps
<1>10. CASE \E known \in BOOLEAN : ChunkByte(known)
    BY <1>10, ChunkByteStep
<1>11. CASE \E k \in 1 .. Len(Stream) : ChunkLeft(k)
    BY <1>11, ChunkLeftStep
<1>12. CASE HeaderCut
    BY <1>12, HeaderCutStep
<1> QED
    BY <1>1, <1>2, <1>3, <1>4, <1>5, <1>6, <1>7, <1>8, <1>9, <1>10, <1>11, <1>12 DEF Next

\* The invariant holds in every state.
LEMMA Invariance == Spec => []IInv
<1>1. Init => IInv
    BY FirstState
<1>2. IInv /\ [Next]_vars => IInv'
    BY AnyStep
<1> QED
    BY <1>1, <1>2, PTL DEF Spec

\* A body read by its length has that length, and its bytes are the ones behind the head
\* exactly when no read failed on the way: for every Content-Length and any number of
\* failed reads (stream.cpp, readFixSize).
THEOREM BodyCorrect == Spec => []BodyExact
<1>1. IInv => BodyExact
  <2> SUFFICES ASSUME IInv, outcome = "response" \/ (stage = "request_body" /\ body.left = 0)
               PROVE  /\ body.filled = body.length
                      /\ body.taken = body.length <=> body.fails = 0
    BY DEF BodyExact
  <2>1. /\ body.filled + body.left = body.length /\ body.taken = body.filled + body.fails
        /\ body.left = 0
    BY DEF IInv, FixInv
  <2>2. body.filled \in Int /\ body.length \in Int /\ body.taken \in Int /\ body.fails \in Nat
    BY DEF IInv, BodyType, Bodies
  <2> QED
    BY <2>1, <2>2
<1> QED
    BY <1>1, Invariance, PTL

\* All chunks are in: the number of the bytes and when they are the ones sent.
LEMMA AllCollected ==
    ASSUME BodyType, Collected(body, LastChunk)
    PROVE  /\ Len(body.bytes) = Len(SentBody)
           /\ [i \in 1 .. Len(body.bytes) |-> body.bytes[i].id] = SentBody <=> ~body.split
<1>1. PICK m \in Nat : m = Before(LastChunk)
    BY StreamType, ChunkFacts
<1>2. SentBody = [i \in 1 .. m |-> i] /\ Len(body.bytes) = m
    BY <1>1 DEF SentBody, Collected
<1>3. Len([i \in 1 .. m |-> i]) = m
  <2>1. [i \in 1 .. m |-> i] \in Seq(Nat) /\ DOMAIN [i \in 1 .. m |-> i] = 1 .. m
    OBVIOUS
  <2>2. \A s : s \in Seq(Nat) /\ DOMAIN s = 1 .. m => Len(s) = m
    BY LenProperties
  <2> QED
    BY <2>1, <2>2
<1>4. Len(body.bytes) = Len(SentBody)
    BY <1>2, <1>3
<1>5. CASE ~body.split
  <2>1. \A i \in 1 .. m : body.bytes[i].id = i
    BY <1>1, <1>5 DEF Collected
  <2>2. [i \in 1 .. m |-> body.bytes[i].id] = [i \in 1 .. m |-> i]
    BY <2>1
  <2> QED
    BY <1>2, <1>4, <1>5, <2>2
<1>6. CASE body.split
  <2>1. PICK j \in 1 .. m : body.bytes[j].id = 0
    BY <1>1, <1>6 DEF Collected
  <2>2. /\ [i \in 1 .. m |-> body.bytes[i].id][j] = body.bytes[j].id
        /\ [i \in 1 .. m |-> i][j] = j /\ j # 0
    OBVIOUS
  <2>3. [i \in 1 .. m |-> body.bytes[i].id] # [i \in 1 .. m |-> i]
    BY <2>1, <2>2
  <2> QED
    BY <1>2, <1>4, <1>6, <2>3
<1> QED
    BY <1>5, <1>6

\* A chunked body that is returned has as many bytes as were sent, and they are the bytes
\* sent exactly when for every chunk the data and its CR LF were in the buffer when its size
\* line had been scanned, unless a read ended inside a size line before a byte with which
\* one could begin: for any chunks whose sizes fit an int, with sizes of any number of
\* digits and any extensions, any buffer and any way the network cuts the stream
\* (http_connection.cpp, the loop from line 79).
THEOREM ChunkedCorrect == Spec => []ChunkedBody
<1>1. IInv => ChunkedBody
  <2>1. IInv /\ outcome = "chunked response" /\ ~body.cut =>
            BodyType /\ Collected(body, LastChunk)
    BY Zenon DEF IInv, ChunkInv
  <2> QED
    BY <2>1, AllCollected, Zenon DEF ChunkedBody
<1> QED
    BY <1>1, Invariance, PTL

=============================================================================
