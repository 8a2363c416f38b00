---------------------------- MODULE HttpExchange ----------------------------
(***************************************************************************)
(* One HTTP exchange, byte by byte: the client splits the URL              *)
(* (Uri::Create), the server receives the request                          *)
(* (HttpSession::recvRequest) and the client receives the response         *)
(* (HttpConnection::recvResponse).  The bytes are any bytes, and a read    *)
(* returns as many of them as the network has brought: a buffer may end    *)
(* anywhere.  The scanners are those of the three Ragel modules.  What     *)
(* the callbacks are given is abstracted to whether it is the whole        *)
(* element: an offset that http_parser_execute resets at the start of a    *)
(* buffer points at the buffer's first byte, not at the element's.         *)
(***************************************************************************)
EXTENDS Integers, SequencesExt

Uri == INSTANCE UriScanner
Req == INSTANCE RequestScanner
Rsp == INSTANCE ResponseScanner

CONSTANTS
    MaxBody,    \* the largest content-length
    MaxFail,    \* bound: failed reads inside one readFixSize
    BuffSize,   \* http.response.buffer_size, in the chunk loop
    Stream,     \* a chunked body as the other end sends it, byte by byte
    Chunks      \* where its chunks are: the bytes sent before each, the length of its
                \* size line, and the bytes of the body before it

\* A byte: its class, what strtol makes of the digits from it on, to the bases 16 and 10,
\* and its number in the body, or 0.
INT_MAX == 2147483647
Byte == [on : Rsp!Response_alphabet, hex : 0 .. INT_MAX, dec : 0 .. INT_MAX, id : Nat]

LastChunk == Len(Chunks)
ChunkStart(i) == Chunks[i].start
LineEnd(i) == Chunks[i].start + Chunks[i].line
Before(i) == Chunks[i].before
ChunkSize(i) == Stream[ChunkStart(i) + 1].hex
ChunkEnd(i) == LineEnd(i) + ChunkSize(i) + 2
SentBody == [j \in 1 .. Before(LastChunk) |-> j]

\* A size line begins with a digit and ends with its only LF; extensions may be between.
SizeLine(i) ==
    /\ Chunks[i].line > 1 /\ LineEnd(i) <= Len(Stream)
    /\ Stream[ChunkStart(i) + 1].on \in Rsp!XDigit
    /\ \A p \in 1 .. Chunks[i].line :
          Stream[ChunkStart(i) + p].on = "LF" <=> p = Chunks[i].line
\* The data, and CR LF; trailers may follow the last chunk, which is the empty one.
ChunkData(i) ==
    /\ ChunkEnd(i) <= Len(Stream)
    /\ \A k \in 1 .. ChunkSize(i) : Stream[LineEnd(i) + k].id = Before(i) + k
    /\ ChunkSize(i) = 0 <=> i = LastChunk
    /\ i # LastChunk =>
          /\ Stream[ChunkEnd(i) - 1].on = "CR" /\ Stream[ChunkEnd(i) - 1].id = 0
          /\ Stream[ChunkEnd(i)].on = "LF" /\ Stream[ChunkEnd(i)].id = 0
          /\ ChunkStart(i + 1) = ChunkEnd(i) /\ Before(i + 1) = Before(i) + ChunkSize(i)

ASSUME ExchangeAssumption ==
    MaxBody \in Nat /\ MaxFail \in Nat /\ BuffSize \in Nat
ASSUME StreamAssumption ==
    /\ Stream \in Seq(Byte)
    /\ Chunks \in Seq([start : Nat, line : Nat, before : Nat]) /\ Chunks # << >>
    /\ ChunkStart(1) = 0 /\ Before(1) = 0
    /\ \A i \in 1 .. LastChunk : SizeLine(i) /\ ChunkData(i)

VARIABLES
    stage,   \* where the exchange is
    cs,      \* the scanner's state
    relaxed, \* parser->uri_relaxed, which no code initialises
    reading, \* the fiber is in read(), between two buffers
    first,   \* the next byte is the buffer's first
    ps,      \* the parser's offsets and what its callbacks were given
    parts,   \* the parts of the URI
    body,    \* the body being received
    outcome  \* what the call that ended the exchange returned

vars == <<stage, cs, relaxed, reading, first, ps, parts, body, outcome>>

(***************************************************************************)
(* Uri::Create.  mark is NULL, the current byte ("here") or an earlier     *)
(* one.  A host saved before an "@" was a guess.                           *)
(***************************************************************************)
NoParts == [mark |-> "null", scheme |-> "no", userinfo |-> "no", host |-> "no",
            port |-> "no", path |-> "no", query |-> "no", fragment |-> "no",
            threw |-> FALSE]

\* std::string(NULL, n) throws.
Save(u, part) == IF u.mark = "null" THEN [u EXCEPT !.threw = TRUE]
                 ELSE [u EXCEPT ![part] = "saved", !.mark = "null"]
save_port(u) == IF u.mark = "here" THEN [u EXCEPT !.port = "empty", !.mark = "null"]
                ELSE Save(u, "port")
save_userinfo(u) ==
    IF u.mark = "null" THEN u
    ELSE [u EXCEPT !.userinfo = "saved", !.mark = "null",
                   !.host = IF u.host = "saved" THEN "guess" ELSE @]
\* Mutant: only the first host is kept.
save_host_once(u) == IF u.mark = "null" \/ u.host # "no" THEN u
                     ELSE [u EXCEPT !.host = "saved"]
save_host(u) == IF u.mark = "null" THEN u ELSE [u EXCEPT !.host = "saved"]

UriAction(u, a) ==
    IF u.threw THEN u
    ELSE CASE a \in {"marku", "markh"}  -> [u EXCEPT !.mark = "here"]
           [] a = "save_scheme"         -> Save(u, "scheme")
           [] a = "save_port"           -> save_port(u)
           [] a = "save_userinfo"       -> save_userinfo(u)
           [] a = "save_host"           -> save_host(u)
           [] a = "save_path"           -> Save(u, "path")
           [] a = "save_query"          -> Save(u, "query")
           [] OTHER                     -> Save(u, "fragment")
UriActions(e) ==
    LET u == FoldLeft(UriAction, parts, e.do)
    IN  [u EXCEPT !.mark = IF @ = "here" THEN "set" ELSE @]

(***************************************************************************)
(* The request and the response parser.  An offset is "set" when it was    *)
(* set in this buffer and "reset" when it is the 0 of the last reset; flen *)
(* is the length of the field's name; seen are the callbacks made, in      *)
(* order, but for the fields; cut are the elements given incomplete; over  *)
(* says that body_start is set, split that the head came in more than one  *)
(* buffer.                                                                 *)
(***************************************************************************)
NewParser == [mark |-> "reset", field_start |-> "reset", flen |-> "zero",
              query_start |-> "reset", error |-> FALSE, threw |-> FALSE,
              chunked |-> FALSE, over |-> FALSE, split |-> FALSE, seen |-> << >>,
              cut |-> {}]
\* Mutant: the length of the field's name is not reset.
ResetOffsetsNotFlen(q) == [q EXCEPT !.mark = "reset", !.field_start = "reset",
                                    !.query_start = "reset"]
\* What http_parser_execute resets; query_start is not among it, but an offset into
\* the buffer before is as useless.
ResetOffsets(q) == [q EXCEPT !.mark = "reset", !.field_start = "reset", !.flen = "zero",
                             !.query_start = "reset"]

Give(q, element, offset) ==
    [q EXCEPT !.seen = Append(@, element),
              !.cut = IF offset = "set" THEN @ ELSE @ \cup {element}]

\* CharsToHttpMethod knows the method or not; nothing at all is no method.
on_request_method(q, known) ==
    IF known /\ (q.mark = "set" \/ ~first) THEN Give(q, "method", q.mark)
    ELSE [q EXCEPT !.error = TRUE]
\* strncmp over the length of what is left of "HTTP/1.x": over no byte at all it
\* agrees.  known: the version is 1.1 or 1.0, which the request scanner ensures.
on_version(q, known) ==
    IF known /\ (q.mark = "set" \/ first) THEN Give(q, "version", q.mark)
    ELSE [q EXCEPT !.error = TRUE]
\* With an offset of the buffer before, the length is wrong or negative: then the
\* std::string throws.
on_request_query(q, short) ==
    IF q.query_start = "set" \/ short THEN Give(q, "query", q.query_start)
    ELSE [q EXCEPT !.threw = TRUE]
on_http_field(q) ==
    IF q.flen = "zero" THEN [q EXCEPT !.error = TRUE]
    ELSE [q EXCEPT !.cut = @ \cup (IF q.flen = "cut" THEN {"name"} ELSE {})
                             \cup (IF q.mark = "set" THEN {} ELSE {"value"})]
write_field(q) ==
    [q EXCEPT !.flen = IF q.field_start = "set" THEN "whole"
                       ELSE IF first THEN "zero" ELSE "cut"]

\* What both scanners do alike.
FieldAction(q, a) ==
    CASE a \in {"mark", "start_value"} -> [q EXCEPT !.mark = "set"]
      [] a = "start_field"             -> [q EXCEPT !.field_start = "set"]
      [] a = "write_field"             -> write_field(q)
      [] a = "write_value"             -> on_http_field(q)
      [] OTHER                         -> q
RequestAction(q, a, known) ==
    CASE a = "request_method"        -> on_request_method(q, known)
      [] a = "request_path"          -> Give(q, "path", q.mark)
      [] a = "request_uri"           -> Give(q, "uri", "set")
      [] a = "fragment"              -> Give(q, "fragment", q.mark)
      [] a = "start_query"           -> [q EXCEPT !.query_start = "set"]
      [] a = "query_string"          -> on_request_query(q, known)
      [] a = "http_version"          -> on_version(q, TRUE)
      [] a \in {"xml", "json"}       -> Give(q, a, "set")
      [] OTHER                       -> FieldAction(q, a)
ResponseAction(q, a, known) ==
    CASE a = "http_version"          -> on_version(q, known)
      [] a = "status_code"           -> Give(q, "status", q.mark)
      [] a = "reason_phrase"         -> Give(q, "reason", q.mark)
      [] a = "chunk_size"            -> [Give(q, "chunk", q.mark) EXCEPT !.chunked = TRUE]
      [] a = "trans_chunked"         -> [q EXCEPT !.chunked = TRUE]
      [] a = "done"                  -> [q EXCEPT !.over = TRUE]
      [] OTHER                       -> FieldAction(q, a)

NoByte == [on |-> "x00", hex |-> 0, dec |-> 0, id |-> 0]
NoBody == [length |-> 0, filled |-> 0, left |-> 0, taken |-> 0, fails |-> 0,
           data |-> << >>, bytes |-> << >>, mark |-> NoByte, content |-> -1,
           last |-> FALSE, split |-> FALSE, cut |-> FALSE]

Init ==
    /\ stage = "uri" /\ cs = 451 /\ relaxed = FALSE /\ reading = FALSE /\ first = TRUE
    /\ ps = NewParser /\ parts = NoParts /\ body = NoBody /\ outcome = "none"

Finish(result) == stage' = "end" /\ outcome' = result

(***************************************************************************)
(* Stage "uri".                                                            *)
(***************************************************************************)
UriByte(c) ==
    /\ stage = "uri"
    /\ \/ /\ Uri!OnByte(Uri!UriTable, cs, c) = {}
          /\ Finish("invalid url") /\ UNCHANGED <<cs, parts>>
       \/ \E e \in Uri!OnByte(Uri!UriTable, cs, c) :
             /\ cs' = e.to /\ parts' = UriActions(e)
             /\ IF parts'.threw THEN Finish("threw") ELSE UNCHANGED <<stage, outcome>>
    /\ UNCHANGED <<relaxed, reading, first, ps, body>>

\* The end of the string: the actions of the state, then the test of cs.
UriEnd ==
    LET eof == Uri!OnByte(Uri!UriTable, cs, "EOF")
    IN  /\ stage = "uri"
        /\ parts' = IF eof = {} THEN parts ELSE UriActions(CHOOSE e \in eof : TRUE)
        /\ stage' = IF parts'.threw \/ cs < 451 THEN "end" ELSE "uri_done"
        /\ outcome' = CASE parts'.threw                -> "threw"
                        [] ~parts'.threw /\ cs < 451 -> "invalid url"
                        [] OTHER                      -> outcome
        /\ UNCHANGED <<cs, relaxed, reading, first, ps, body>>

\* The request is sent, and the server has a session for it.
NewRequest ==
    /\ stage = "uri_done" /\ stage' = "request" /\ cs' = 1 /\ relaxed' \in BOOLEAN
    /\ reading' = TRUE /\ parts' = NoParts /\ ps' = NewParser
    /\ UNCHANGED <<first, body, outcome>>

(***************************************************************************)
(* The loop that receives a head, in recvRequest and in recvResponse.      *)
(***************************************************************************)
Read ==
    /\ stage \in {"request", "response"} /\ reading
    /\ reading' = FALSE /\ first' = TRUE /\ ps' = ResetOffsets(ps)
    /\ UNCHANGED <<stage, cs, relaxed, parts, body, outcome>>
ReadNothing ==
    /\ stage \in {"request", "response"} /\ reading
    /\ Finish("nullptr") /\ UNCHANGED <<cs, relaxed, reading, first, ps, parts, body>>
\* assert(parser->body_start <= len), in a buffer after the one in which a head ended.
BodyStartAsserts == ps.over /\ Finish("abort") /\ UNCHANGED <<reading, ps>>
BufferEnd ==
    /\ stage \in {"request", "response"} /\ ~reading /\ ~first
    /\ \/ BodyStartAsserts
       \/ ps.error /\ Finish("nullptr") /\ UNCHANGED <<reading, ps>>
       \/ /\ ~ps.error /\ reading' = TRUE /\ ps' = [ps EXCEPT !.split = TRUE]
          /\ UNCHANGED <<stage, outcome>>
    /\ UNCHANGED <<cs, relaxed, first, parts, body>>

\* Mutant: the bytes in the buffer are asked for again.
StartBodyAgain(next, length, offset) ==
    /\ body' = [NoBody EXCEPT !.length = length, !.filled = IF length >= offset THEN offset
                                                           ELSE length,
                              !.left = length,
                              !.taken = IF length >= offset THEN offset ELSE length]
    /\ stage' = next
\* A body of the given length, of which the buffer already holds some bytes.
StartBody(next, length, offset) ==
    /\ body' = [NoBody EXCEPT !.length = length, !.filled = IF length >= offset THEN offset
                                                           ELSE length,
                              !.left = IF length >= offset THEN length - offset ELSE 0,
                              !.taken = IF length >= offset THEN offset ELSE length]
    /\ stage' = next

RequestByte(c, known) ==
    LET Table == IF relaxed THEN Req!RelaxedTable ELSE Req!StrictTable
        Step(q, a) == RequestAction(q, a, known)
    IN  /\ stage = "request" /\ ~reading
        /\ \/ /\ Req!OnByte(Table, cs, c) = {}
              /\ Finish("nullptr") /\ UNCHANGED <<cs, first, ps, body>>
           \/ \E e \in Req!OnByte(Table, cs, c) :
                 /\ cs' = e.to /\ first' = FALSE /\ ps' = FoldLeft(Step, ps, e.do)
                 /\ IF ps'.threw THEN Finish("threw") /\ UNCHANGED body
                    ELSE IF e.to < 348 THEN UNCHANGED <<stage, body, outcome>>
                    ELSE IF ps'.error THEN Finish("nullptr") /\ UNCHANGED body
                    ELSE \E length \in 0 .. MaxBody, offset \in 0 .. MaxBody + 1 :
                            StartBody("request_body", length, offset) /\ UNCHANGED outcome
        /\ UNCHANGED <<relaxed, reading, parts>>

(***************************************************************************)
(* readFixSize: its length is a size_t, so that the -1 of a failed read is *)
(* not <= 0: the offset goes back by one and one byte more is missing.     *)
(***************************************************************************)
ReadFix(k) ==
    /\ stage \in {"request_body", "response_body"} /\ k \in 1 .. body.left
    /\ body' = [body EXCEPT !.filled = @ + k, !.left = @ - k, !.taken = @ + k]
    /\ UNCHANGED <<stage, cs, relaxed, reading, first, ps, parts, outcome>>
ReadFixEof ==
    /\ stage \in {"request_body", "response_body"} /\ body.left > 0
    /\ Finish("nullptr") /\ UNCHANGED <<cs, relaxed, reading, first, ps, parts, body>>
ReadFixError ==
    /\ stage \in {"request_body", "response_body"} /\ body.left > 0 /\ body.fails < MaxFail
    /\ body' = [body EXCEPT !.filled = @ - 1, !.left = @ + 1, !.fails = @ + 1]
    /\ UNCHANGED <<stage, cs, relaxed, reading, first, ps, parts, outcome>>

\* recvRequest returns the request; the response is on its way.
RequestDelivered ==
    /\ stage = "request_body" /\ body.left = 0
    /\ stage' = "response" /\ cs' = 1 /\ reading' = TRUE /\ ps' = NewParser
    /\ body' = NoBody /\ relaxed' = FALSE
    /\ UNCHANGED <<first, parts, outcome>>
ResponseDelivered ==
    /\ stage = "response_body" /\ body.left = 0 /\ Finish("response")
    /\ UNCHANGED <<cs, relaxed, reading, first, ps, parts, body>>

(***************************************************************************)
(* The head of the response.  After "done" the scanner may be in a final   *)
(* state that is not the first one, which is_finished does not accept: the *)
(* loop then reads on behind what is left in the buffer.                   *)
(***************************************************************************)
ResponseByte(c, known) ==
    LET Step(q, a) == ResponseAction(q, a, known)
    IN  /\ stage = "response" /\ ~reading
        /\ \/ /\ Rsp!OnByte(Rsp!ResponseTable, cs, c) = {}
              /\ \/ BodyStartAsserts
                 \/ Finish("nullptr") /\ UNCHANGED <<reading, ps>>
              /\ UNCHANGED <<cs, first, body>>
           \/ \E e \in Rsp!OnByte(Rsp!ResponseTable, cs, c) :
                 /\ cs' = e.to /\ first' = FALSE /\ ps' = FoldLeft(Step, ps, e.do)
                 /\ CASE e.to < 120 -> UNCHANGED <<stage, body, outcome, reading>>
                      [] e.to >= 120 /\ ps'.error ->
                             Finish("nullptr") /\ UNCHANGED <<body, reading>>
                      [] e.to > 120 /\ ~ps'.error ->
                             \/ reading' = TRUE /\ UNCHANGED <<stage, body, outcome>>
                             \/ Finish("nullptr") /\ UNCHANGED <<body, reading>>
                      [] OTHER ->
                             /\ UNCHANGED <<outcome, reading>>
                             /\ IF ps'.chunked
                                THEN \E n \in 0 .. Len(Stream) :
                                        /\ n <= BuffSize /\ stage' = "chunk_read"
                                        /\ body' = [NoBody EXCEPT !.taken = n,
                                                       !.data = SubSeq(Stream, 1, n)]
                                ELSE \E length \in 0 .. MaxBody, offset \in 0 .. MaxBody + 1 :
                                        StartBody("response_body", length, offset)
        /\ UNCHANGED <<relaxed, parts>>

(***************************************************************************)
(* The chunk loop.  Every pass reads first; execute(data, len, true)       *)
(* starts the scanner anew.                                                *)
(***************************************************************************)
ChunkRead(k) ==
    /\ stage = "chunk_read" /\ k \in 1 .. Len(Stream) - body.taken
    /\ Len(body.data) + k <= BuffSize
    /\ body' = [body EXCEPT !.taken = @ + k, !.content = -1, !.last = FALSE,
                            !.data = @ \o SubSeq(Stream, body.taken + 1, body.taken + k)]
    /\ stage' = "chunk_scan" /\ cs' = 1 /\ ps' = NewParser
    /\ UNCHANGED <<relaxed, reading, first, parts, outcome>>
\* The peer closed or a timer cancelled the read; or the buffer is full.
ChunkReadNothing ==
    /\ stage \in {"chunk_read", "chunk_left"}
    /\ Finish("nullptr") /\ UNCHANGED <<cs, relaxed, reading, first, ps, parts, body>>

\* Mutant: the CR LF is not taken off before the data is appended.
ChunkHeaderCRLF(b) ==
    /\ stage' = IF b.last THEN "chunk_done" ELSE "chunk_read"
    /\ body' = [b EXCEPT !.data = << >>, !.bytes = @ \o b.data]
    /\ UNCHANGED outcome
\* The header is complete: len -= 2 for the CR LF after the data, whether or not
\* it has come.  A negative length makes body.append throw.
ChunkHeader(b) ==
    LET len == Len(b.data) - 2
    IN  IF b.content < 0 \/ len < 0 THEN Finish("threw") /\ body' = b
        ELSE IF b.content <= len
        THEN /\ stage' = IF b.last THEN "chunk_done" ELSE "chunk_read"
             /\ body' = [b EXCEPT !.data = SubSeq(b.data, b.content + 1, len),
                                  !.bytes = @ \o SubSeq(b.data, 1, b.content)]
             /\ UNCHANGED outcome
        ELSE /\ stage' = "chunk_left"
             /\ body' = [b EXCEPT !.data = << >>, !.bytes = @ \o SubSeq(b.data, 1, len),
                                  !.left = b.content - len, !.split = TRUE]
             /\ UNCHANGED outcome

\* The scanner begins a size line, or a status line, with such a byte.
Begins(byte) == byte.on \in Rsp!XDigit \cup {"H"}
\* The buffer ends before the header does: what was scanned of it is lost, and the
\* scanner will start with the next byte.  cut: it will take that one for a beginning.
HeaderCut ==
    /\ stage = "chunk_scan" /\ body.data = << >>
    /\ IF ps.error THEN Finish("nullptr") /\ UNCHANGED body
       ELSE /\ stage' = "chunk_read" /\ UNCHANGED outcome
            /\ body' = [body EXCEPT !.cut =
                           @ \/ (body.taken < Len(Stream) /\ Begins(Stream[body.taken + 1]))]
    /\ UNCHANGED <<cs, relaxed, reading, first, ps, parts>>

\* What the actions do of the parser make of the first byte in the buffer.
Scanned(do) ==
    [body EXCEPT !.data = Tail(@),
                 !.mark = IF {"mark", "start_value"} \cap ToSet(do) # {} THEN Head(body.data)
                          ELSE @,
                 !.content = IF "chunk_size" \in ToSet(do) THEN body.mark.hex
                             ELSE IF "write_content_len" \in ToSet(do) THEN body.mark.dec
                             ELSE @,
                 !.last = IF "chunk_size" \in ToSet(do) THEN body.mark.hex = 0 ELSE @]
ChunkByte(known) ==
    LET edges == Rsp!OnByte(Rsp!ResponseTable, cs, Head(body.data).on)
        Step(q, a) == ResponseAction(q, a, known)
    IN  /\ stage = "chunk_scan" /\ body.data # << >>
        /\ \/ edges = {} /\ Finish("nullptr") /\ UNCHANGED <<cs, ps, body>>
           \/ \E e \in edges :
                 /\ cs' = e.to /\ ps' = FoldLeft(Step, ps, e.do)
                 /\ IF e.to < 120 THEN body' = Scanned(e.do) /\ UNCHANGED <<stage, outcome>>
                    ELSE IF ps'.error THEN Finish("nullptr") /\ body' = Scanned(e.do)
                    ELSE IF e.to = 120 THEN ChunkHeader(Scanned(e.do))
                    ELSE stage' = "chunk_read" /\ body' = Scanned(e.do) /\ UNCHANGED outcome
        /\ UNCHANGED <<relaxed, reading, first, parts>>

\* The rest of the chunk, read by itself.
ChunkLeft(k) ==
    /\ stage = "chunk_left" /\ k \in 1 .. body.left /\ k <= BuffSize
    /\ body.taken + k <= Len(Stream)
    /\ body' = [body EXCEPT !.taken = @ + k, !.left = @ - k,
                    !.bytes = @ \o SubSeq(Stream, body.taken + 1, body.taken + k)]
    /\ stage' = IF body.left = k THEN "chunk_read" ELSE "chunk_left"
    /\ UNCHANGED <<cs, relaxed, reading, first, ps, parts, outcome>>
ChunksDone ==
    /\ stage = "chunk_done" /\ Finish("chunked response")
    /\ UNCHANGED <<cs, relaxed, reading, first, ps, parts, body>>

Next ==
    \/ \E c \in Uri!Uri_alphabet : UriByte(c)
    \/ UriEnd
    \/ NewRequest
    \/ Read
    \/ ReadNothing
    \/ BufferEnd
    \/ \E c \in Req!Request_alphabet, known \in BOOLEAN : RequestByte(c, known)
    \/ \E k \in 1 .. MaxBody + MaxFail : ReadFix(k)
    \/ ReadFixEof
    \/ ReadFixError
    \/ RequestDelivered
    \/ ResponseDelivered
    \/ \E c \in Rsp!Response_alphabet, known \in BOOLEAN : ResponseByte(c, known)
    \/ \E k \in 1 .. Len(Stream) : ChunkRead(k)
    \/ ChunkReadNothing
    \/ HeaderCut
    \/ \E known \in BOOLEAN : ChunkByte(known)
    \/ \E k \in 1 .. Len(Stream) : ChunkLeft(k)
    \/ ChunksDone

Spec == Init /\ [][Next]_vars

-----------------------------------------------------------------------------
\* What Uri::Create returns has the host that follows the "@" and not the name
\* before it, a port only beside a host, and a path exactly when it has both a
\* scheme and a host.  Create throws instead of returning only when a colon with no
\* port follows the host (uri.rl.cc, save_port and save_path).
UriParts ==
    /\ parts.threw => parts.port = "empty"
    /\ stage = "uri_done" =>
          /\ parts.host # "guess"
          /\ parts.port # "no" => parts.host = "saved"
          /\ parts.path = "saved" <=> parts.scheme = "saved" /\ parts.host = "saved"

\* A head that came in one buffer is handed over whole, element by element.  One that
\* was split may have lost the beginning of an element, but never of a header's value:
\* the reset of field_len turns a value that began in an earlier buffer into error
\* 1002 (http_parser.cpp, on_request_http_field and on_response_http_field).
HeadWhole ==
    stage \in {"request_body", "response_body", "chunk_read"} =>
        /\ ~ps.split => ps.cut = {}
        /\ "value" \notin ps.cut

\* Whatever bytes come and wherever the buffers end, the callbacks of a head that is
\* accepted come in one order, each once.  A request has a method, a path, perhaps a
\* query, a URI, perhaps a fragment and a version, or it is XML or JSON without HTTP
\* (http11_parser.rl.cc, the ways to states 348 and 349); a response has a version, a
\* status and a reason, or it is a chunk header, and then the chunk loop and no
\* Content-Length decides its body (httpclient_parser.rl.cc, states 120 .. 123).
CallbackOrder ==
    /\ stage = "request_body" =>
          \/ \E query \in {<< >>, <<"query">>}, fragment \in {<< >>, <<"fragment">>} :
                ps.seen = <<"method", "path">> \o query \o <<"uri">> \o fragment
                            \o <<"version">>
          \/ ps.seen \in {<<"path", "xml">>, <<"path", "json">>}
    /\ stage = "response_body" => ps.seen = <<"version", "status", "reason">>
    /\ stage = "chunk_read" =>
          ps.seen \in {<< >>, <<"chunk">>, <<"version", "status", "reason">>}

\* A body read by its length has that length, and its bytes are the ones that
\* follow the head exactly when no read failed on the way: a failed read is not
\* reported but moves the rest of the body by a byte (stream.cpp, readFixSize).
BodyExact ==
    \/ outcome = "response"
    \/ stage = "request_body" /\ body.left = 0
    => body.filled = body.length /\ (body.taken = body.length <=> body.fails = 0)

\* A chunked body that is returned has as many bytes as were sent, and they are the
\* bytes sent exactly when for every chunk the data and its CR LF were in the buffer when
\* its size line had been scanned: unless a read ended inside a size line, before a byte
\* with which a size line could begin (http_connection.cpp, the loop from line 79; a line
\* that is cut elsewhere is refused).
ChunkedBody ==
    outcome = "chunked response" /\ ~body.cut =>
        /\ Len(body.bytes) = Len(SentBody)
        /\ [j \in 1 .. Len(body.bytes) |-> body.bytes[j].id] = SentBody <=> ~body.split
=============================================================================
