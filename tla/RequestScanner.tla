--------------------------- MODULE RequestScanner ---------------------------
(***************************************************************************)
(* The scanner of HTTP requests, http/http11_parser.rl.cc: one definition  *)
(* for each element of the grammar of http11_parser.rl.  Byte classes, by  *)
(* their member:  "!" ! $ & ' * _ ~;  "(" ( ) , ; =;  "3" 3 4 6 7 8 9;     *)
(* "A" A-F; "a" a-f; "G" and "g" the letters that have no class of their   *)
(* own; "|" | and `; "\\" the double quote, the backslash and 128..255;    *)
(* "x01" the control characters that have no class of their own, "VT" 11   *)
(* and 12; "x02" .. "x06" the bytes with these values.                     *)
(***************************************************************************)
EXTENDS Scanner

Digit  == {"0", "1", "2", "3", "5"}
XDigit == Digit \cup {"A", "a"}
Upper  == {"A", "G", "H", "P", "T"}
Alpha  == Upper \cup {"a", "g", "v"}
Ctl    == {"x01", "x02", "x03", "x04", "x05", "x06"}

\* unreserved and sub_delims; more_delims only when uri_relaxed is set.
NameChar(r) == Digit \cup Alpha \cup {"!", "(", "+", "-", "."}
                 \cup (IF r THEN {"{", "}", "^"} ELSE {})
PChar(r) == NameChar(r) \cup {":", "@"}

\* token: the generated difference of 0 and 31 is the byte 0 alone, so every
\* other control character may stand in a field name.
NameStart == Digit \cup Alpha \cup Ctl
               \cup {"!", "VT", "+", "-", ".", "^", "|", "#", "%"}
Request_alphabet == Digit \cup Alpha \cup Ctl \cup
    {"NUL", "TAB", "LF", "VT", "CR", "SP", "DEL", "!", "\\", "#", "%", "(", "+", "-",
     ".", "/", ":", "<", ">", "?", "@", "[", "]", "^", "|", "{", "}"}

(***************************************************************************)
(* The request line.                                                       *)
(***************************************************************************)

\* "%" and two hexadecimal digits, after which the scan is back in state t.
Pct(S, f, t, a) == Edge(S, {"%"}, f, a) \cup Along({f}, XDigit, << >>)
                     \cup Edge({f + 1}, XDigit, t, << >>)

\* Mutant: a path that a fragment follows is not the end of the URI.
PathEndNoUri(S, a) ==
    Edge(S, {"SP"}, 4, a \o <<"request_path", "request_uri">>)
      \cup Edge(S, {"#"}, 20, a \o <<"request_path">>)
      \cup Edge(S, {"?"}, 29, a \o <<"request_path">>)
\* A byte that ends the path: a blank, a fragment or a query.
PathEnd(S, a) ==
    Edge(S, {"SP"}, 4, a \o <<"request_path", "request_uri">>)
      \cup Edge(S, {"#"}, 20, a \o <<"request_path", "request_uri">>)
      \cup Edge(S, {"?"}, 29, a \o <<"request_path">>)

MainStart == Edge({1}, Digit \cup Upper, 2, <<"mark">>)
               \cup Edge({1}, {"<"}, 194, <<"mark">>) \cup Edge({1}, {"@"}, 198, <<"mark">>)

\* Method: at most twenty capitals and digits.
Method == Edge({2}, Digit \cup Upper, 175, << >>)
            \cup Along(175 .. 192, Digit \cup Upper, << >>)
            \cup Edge({2} \cup 175 .. 193, {"SP"}, 3, <<"request_method">>)

URI_reference(r) ==
    PathEnd({3}, <<"mark">>) \cup Edge({3}, {"/"}, 33, <<"mark">>)
      \cup Edge({3}, Alpha, 173, <<"mark">>)
      \cup Edge({3}, (NameChar(r) \ Alpha) \cup {"@"}, 19, <<"mark">>)
      \cup Edge({3}, {"%"}, 24, <<"mark">>)

\* What begins like a scheme is one only if a colon follows.
Scheme(r) ==
    Along({173}, {":"}, << >>)
      \cup Edge({173}, Digit \cup Alpha \cup {"+", "-", "."}, 173, << >>)
      \cup Edge({173}, (NameChar(r) \ (Digit \cup Alpha \cup {"+", "-", "."}))
                         \cup {"@"}, 19, << >>)
      \cup Edge({173}, {"%"}, 24, << >>) \cup Edge({173}, {"/"}, 26, << >>)
      \cup PathEnd({173}, << >>)
Hier_part(r) ==
    PathEnd({174}, <<"mark">>) \cup Edge({174}, {"/"}, 33, <<"mark">>)
      \cup Edge({174}, PChar(r), 26, <<"mark">>) \cup Edge({174}, {"%"}, 27, <<"mark">>)

Path_noscheme(r) ==
    Edge({19}, NameChar(r) \cup {"@"}, 19, << >>) \cup Pct({19}, 24, 19, << >>)
      \cup Edge({19}, {"/"}, 26, << >>) \cup PathEnd({19}, << >>)
Path_segments(r) ==
    Edge({26}, PChar(r) \cup {"/"}, 26, << >>) \cup Pct({26}, 27, 26, << >>)
      \cup PathEnd({26}, << >>)
Path_absolute(r) ==
    Edge({33}, PChar(r), 26, << >>) \cup Edge({33}, {"%"}, 27, << >>)
      \cup Along({33}, {"/"}, << >>) \cup PathEnd({33}, << >>)

Query(r) ==
    LET inside == PChar(r) \cup {"/", "?"}
        End(s, a) == Edge({s}, {"SP"}, 4, a \o <<"query_string", "request_uri">>)
                       \cup Edge({s}, {"#"}, 20, a \o <<"query_string", "request_uri">>)
    IN  Along({29}, inside, <<"start_query">>) \cup Edge({30}, inside, 30, << >>)
          \cup Pct({29}, 31, 30, <<"start_query">>) \cup Pct({30}, 31, 30, << >>)
          \cup End(29, <<"start_query">>) \cup End(30, << >>)

Fragment(r) ==
    LET inside == PChar(r) \cup {"/", "?"}
    IN  Along({20}, inside, <<"mark">>) \cup Edge({21}, inside, 21, << >>)
          \cup Pct({20}, 22, 21, <<"mark">>) \cup Pct({21}, 22, 21, << >>)
          \cup Edge({20}, {"SP"}, 4, <<"mark", "fragment">>)
          \cup Edge({21}, {"SP"}, 4, <<"fragment">>)

HTTP_Version ==
    Along({4}, {"H"}, <<"mark">>) \cup Along({5, 6}, {"T"}, << >>)
      \cup Along({7}, {"P"}, << >>) \cup Along({8}, {"/"}, << >>)
      \cup Along({9}, {"1"}, << >>) \cup Along({10}, {"."}, << >>)
      \cup Along({11}, {"0", "1"}, << >>)
      \cup Edge({12}, {"LF"}, 13, <<"http_version">>)
      \cup Edge({12}, {"CR"}, 17, <<"http_version">>)

(***************************************************************************)
(* The header fields and the empty line that ends them.                    *)
(***************************************************************************)
Field_start ==
    Along({13}, NameStart, <<"start_field">>)
      \cup Edge({13}, {"LF"}, 348, <<"start_field", "done">>)
      \cup Edge({13}, {"CR"}, 18, <<"start_field">>)
Field_name == Edge({14}, NameStart \cup {"LF", "CR"}, 14, << >>)
                \cup Edge({14}, {":"}, 15, <<"write_field">>)
Field_value ==
    LET inside == Request_alphabet \ {"NUL", "DEL", "LF", "CR"}
    IN  Along({15}, inside \ {"TAB", "SP"}, <<"start_value">>)
          \cup Edge({15}, {"TAB", "SP"}, 15, <<"start_value">>)
          \cup Edge({15}, {"LF"}, 13, <<"start_value", "write_value">>)
          \cup Edge({15}, {"CR"}, 17, <<"start_value", "write_value">>)
          \cup Edge({16}, inside, 16, << >>)
          \cup Edge({16}, {"LF"}, 13, <<"write_value">>)
          \cup Edge({16}, {"CR"}, 17, <<"write_value">>)
Line_end == Edge({17}, {"LF"}, 13, << >>)
\* After the first byte of the empty line's CRLF, or of a name that begins with CR.
Empty_line == Edge({18}, {"LF"}, 348, <<"done">>)
                \cup Edge({18}, NameStart \cup {"CR"}, 14, << >>)
                \cup Edge({18}, {":"}, 15, <<"write_field">>)
\* The final state is also inside a name that begins with LF.
Resumed_name == Edge({348}, NameStart \cup {"LF", "CR"}, 14, << >>)
                  \cup Edge({348}, {":"}, 15, <<"write_field">>)

(***************************************************************************)
(* The authority of a request target, states 34 .. 46.                     *)
(***************************************************************************)
Host_or_userinfo(r) ==
    Edge({34, 35}, NameChar(r), 35, << >>) \cup Pct({34, 35}, 36, 35, << >>)
      \cup Edge({34, 35}, {":"}, 38, << >>) \cup Edge({34, 35}, {"@"}, 42, << >>)
      \cup Edge({34}, {"["}, 47, << >>)
Port_or_userinfo(r) ==
    Edge({38}, Digit, 38, << >>) \cup Edge({38}, (NameChar(r) \ Digit) \cup {":"}, 39, << >>)
      \cup Edge({39}, NameChar(r) \cup {":"}, 39, << >>) \cup Pct({38, 39}, 40, 39, << >>)
      \cup Edge({38, 39}, {"@"}, 42, << >>)
Host(r) ==
    Edge({42, 43}, NameChar(r), 43, << >>) \cup Pct({42, 43}, 44, 43, << >>)
      \cup Edge({42, 43}, {":"}, 46, << >>) \cup Edge({42}, {"["}, 47, << >>)
Port == Edge({46}, Digit, 46, << >>)
AuthorityEnd == {34, 35, 38, 42, 43, 46, 61}

(***************************************************************************)
(* The IP literal, states 47 .. 172.  A count before a parenthesis is, to  *)
(* Ragel, the byte with that value followed by one group.                  *)
(***************************************************************************)
Literal_start ==
    Edge({47}, {"x06"}, 48, << >>) \cup Edge({47}, XDigit, 91, << >>)
      \cup Edge({47}, {":"}, 167, << >>) \cup Edge({47}, {"v"}, 169, << >>)
      \cup Along({48}, XDigit, << >>) \cup H16(49, XDigit, {":"}, 53)

\* One decimal octet from state s, complete in state e: a digit, 1 and one or
\* two digits, 20 and a digit, or 250 (a range of characters is written as a
\* difference of two).
Octet(s, e, o, C, t) ==
    Edge({s}, {"0", "3", "5"}, e, << >>) \cup Edge({s}, {"1"}, o, << >>)
      \cup Edge({s}, {"2"}, o + 2, << >>) \cup Along({o}, Digit, << >>)
      \cup Edge({o + 1, o + 3}, Digit, e, << >>) \cup Along({o + 2}, {"0"}, << >>)
      \cup Edge({o + 2}, {"5"}, o + 4, << >>) \cup Edge({o + 4}, {"0"}, e, << >>)
      \cup Edge({e, o, o + 1, o + 2}, C, t, << >>)
Octet2 == Octet(55, 56, 72, {"."}, 57)
Octet3 == Octet(57, 58, 67, {"."}, 59)
Octet4 == Octet(59, 60, 62, {"]"}, 61)

\* A group of hexadecimal digits that may also be the first octet of an IPv4
\* address: decimal digits in the states o .. o + 6, others in d and h .. h + 2.
GroupStart(S, d, o) ==
    Edge(S, {"0", "3", "5"}, d, << >>) \cup Edge(S, {"1"}, o, << >>)
      \cup Edge(S, {"2"}, o + 3, << >>) \cup Edge(S, {"A", "a"}, o + 6, << >>)
GroupHex(d, h) == Edge({d}, XDigit, h, << >>) \cup Along({h, h + 1}, XDigit, << >>)
GroupOctet(d, h, o) ==
    LET hex == {"A", "a"}
    IN  Along({o, o + 1}, Digit, << >>)
          \cup Edge({o + 4}, Digit, o + 2, << >>) \cup Edge({o + 2}, XDigit, h + 2, << >>)
          \cup Along({o + 3}, {"0"}, << >>) \cup Edge({o + 3}, {"5"}, o + 5, << >>)
          \cup Edge({o + 5}, {"0"}, o + 2, << >>)
          \cup Edge({o, o + 6}, hex, h, << >>) \cup Edge({o + 6}, Digit, h, << >>)
          \cup Edge({o + 3}, XDigit \ {"0", "5"}, h, << >>)
          \cup Edge({o + 1, o + 4}, hex, h + 1, << >>)
          \cup Edge({o + 5}, XDigit \ {"0"}, h + 1, << >>)
          \cup Edge({d} \cup o .. o + 3, {"."}, 55, << >>)
GroupStates(d, h, o) == {d} \cup h .. h + 2 \cup o .. o + 6

\* ls32 after the byte 6, 5, 4, 3 or 2 and one group.
Ls32 == GroupStart({53}, 54, 84) \cup GroupHex(54, 77)
          \cup Edge(GroupStates(54, 77, 84), {":"}, 80, << >>)
Ls32_octet == GroupOctet(54, 77, 84)
Ls32_second == Along(80 .. 82, XDigit, << >>) \cup Edge({83}, XDigit, 60, << >>)
                 \cup Edge(81 .. 83, {"]"}, 61, << >>)

\* The groups before "::": up to three, then up to seven and any number more.
Groups1to4 == H16(91, XDigit, {":"}, 95) \cup H16(96, XDigit, {":"}, 100)
                \cup H16(101, XDigit, {":"}, 105) \cup H16(106, XDigit, {":"}, 110)
                \cup Along({95, 100, 105}, XDigit, << >>)
Groups5to7 == H16(111, XDigit, {":"}, 115) \cup H16(116, XDigit, {":"}, 120)
                \cup H16(121, XDigit, {":"}, 125)
                \cup Along({110, 115, 120}, XDigit, << >>) \cup Edge({125}, XDigit, 121, << >>)
\* "::" after so many groups, and the bytes 2 .. 5 that may follow it.
Compressed ==
    Edge({95}, {":"}, 166, << >>) \cup Edge({100}, {":"}, 165, << >>)
      \cup Edge({105}, {":"}, 164, << >>) \cup Edge({110}, {":"}, 163, << >>)
      \cup Edge({115}, {":"}, 151, << >>) \cup Edge({120}, {":"}, 150, << >>)
      \cup Edge({166}, {"x04"}, 48, << >>) \cup Edge({165}, {"x03"}, 48, << >>)
      \cup Edge({126, 150, 151, 163, 164}, {"x02", "x03"}, 48, << >>)
      \cup Edge({163}, XDigit, 49, << >>) \cup Along({125, 167}, {":"}, << >>)
      \cup Edge({168}, {"x02", "x03", "x04", "x05"}, 48, << >>)
      \cup Edge({126, 168}, {"]"}, 61, << >>)
\* The one or two groups after "::".
After_first ==
    GroupStart({126, 150, 168}, 127, 143) \cup GroupHex(127, 128)
      \cup Edge(GroupStates(127, 128, 143), {":"}, 131, << >>)
      \cup Edge(GroupStates(127, 128, 143), {"]"}, 61, << >>)
After_first_octet == GroupOctet(127, 128, 143)
After_second ==
    GroupStart({131}, 132, 136) \cup GroupHex(132, 133) \cup GroupOctet(132, 133, 136)
      \cup Edge(GroupStates(132, 133, 136), {":"}, 80, << >>)
      \cup Edge(GroupStates(132, 133, 136), {"]"}, 61, << >>)
After_five ==
    GroupStart({151}, 152, 156) \cup GroupHex(152, 153) \cup GroupOctet(152, 153, 156)
      \cup Edge(GroupStates(152, 153, 156), {":"}, 131, << >>)

IPvFuture(r) ==
    LET inside == NameChar(r) \cup {":"}
    IN  Along({169}, XDigit, << >>) \cup Edge({170}, XDigit, 170, << >>)
          \cup Along({170}, {"."}, << >>) \cup Along({171}, inside, << >>)
          \cup Edge({172}, inside, 172, << >>) \cup Edge({172}, {"]"}, 61, << >>)

Authority(r) == Host_or_userinfo(r) \cup Port_or_userinfo(r) \cup Host(r) \cup Port
IP_literal(r) ==
    UNION {Literal_start, Octet2, Octet3, Octet4, Ls32, Ls32_octet, Ls32_second, Groups1to4,
           Groups5to7, Compressed, After_first, After_first_octet, After_second, After_five,
           IPvFuture(r)}

(***************************************************************************)
(* XML and JSON sent without HTTP: data up to a NUL.                       *)
(***************************************************************************)
SocketXML ==
    LET tag == Digit \cup Alpha \cup {"-", "."}
    IN  Along({194}, tag, << >>) \cup Edge({195}, tag, 195, << >>)
          \cup Edge({195}, {"TAB", "LF", "VT", "CR", "SP", "/", ">"}, 196, <<"request_path">>)
          \cup Edge({196}, Request_alphabet \ {">"}, 196, << >>)
          \cup Edge({196, 197}, {">"}, 197, << >>)
          \cup Edge({197}, Request_alphabet \ {">", "NUL"}, 196, << >>)
          \cup Edge({197}, {"NUL"}, 349, <<"xml", "done">>)
SocketJSONData ==
    Along({199}, {"{"}, <<"mark">>) \cup Edge({200}, Request_alphabet \ {"}"}, 200, << >>)
      \cup Edge({200, 201}, {"}"}, 201, << >>)
      \cup Edge({201}, Request_alphabet \ {"}", "NUL"}, 200, << >>)
      \cup Edge({201}, {"NUL"}, 349, <<"json", "done">>)
SocketPathEnd(S) == Edge(S, {"SP"}, 199, <<"request_path">>)
SocketJSONStart(r) ==
    Edge({198}, NameChar(r) \cup {"@"}, 202, << >>) \cup Edge({198}, {"%"}, 203, << >>)
      \cup Edge({198}, {"/"}, 208, << >>) \cup SocketPathEnd({198})
Socket_noscheme(r) ==
    Edge({202}, NameChar(r) \cup {"@"}, 202, << >>) \cup Pct({202}, 203, 202, << >>)
      \cup Edge({202}, {"/"}, 205, << >>) \cup SocketPathEnd({202})
Socket_segments(r) ==
    Edge({205}, PChar(r) \cup {"/"}, 205, << >>) \cup Pct({205}, 206, 205, << >>)
      \cup SocketPathEnd({205})
Socket_absolute(r) ==
    Edge({208}, PChar(r), 205, << >>) \cup Edge({208}, {"%"}, 206, << >>)
      \cup Along({208}, {"/"}, << >>) \cup SocketPathEnd({208})
\* The authority and the literal again, 175 states further on.
Socket_userinfo(r) == Shift(Host_or_userinfo(r) \cup Port_or_userinfo(r), 175)
Socket_host(r) == Shift(Host(r) \cup Port, 175)
Socket_octets == Shift(UNION {Literal_start, Octet2, Octet3, Octet4}, 175)
Socket_ls32 == Shift(UNION {Ls32, Ls32_octet, Ls32_second}, 175)
Socket_groups1to4 == Shift(Groups1to4, 175)
Socket_groups5to7 == Shift(Groups5to7, 175)
Socket_after_first == Shift(After_first \cup After_first_octet, 175)
Socket_after_second == Shift(After_second, 175)
Socket_after_five == Shift(After_five, 175)
Socket_future(r) == Shift(Compressed \cup IPvFuture(r), 175)
SocketAuthorityEnd == {s + 175 : s \in AuthorityEnd}

Request_line(r) ==
    UNION {MainStart, Method, URI_reference(r), Scheme(r), Hier_part(r), Path_noscheme(r),
           Path_segments(r), Path_absolute(r), Query(r), Fragment(r), HTTP_Version,
           Authority(r), IP_literal(r), PathEnd(AuthorityEnd, << >>),
           Edge(AuthorityEnd, {"/"}, 26, << >>), Edge({61}, {":"}, 46, << >>)}
Message_header == UNION {Field_start, Field_name, Field_value, Line_end, Empty_line,
                         Resumed_name}
SocketRequest(r) ==
    UNION {SocketXML, SocketJSONData, SocketJSONStart(r), Socket_noscheme(r),
           Socket_segments(r), Socket_absolute(r), Socket_userinfo(r), Socket_host(r),
           Socket_octets, Socket_ls32, Socket_groups1to4, Socket_groups5to7,
           Socket_after_first, Socket_after_second, Socket_after_five, Socket_future(r),
           SocketPathEnd(SocketAuthorityEnd), Edge(SocketAuthorityEnd, {"/"}, 205, << >>),
           Edge({236}, {":"}, 221, << >>)}

\* The whole scanner, for an unset and a set uri_relaxed.
RequestEdges(r) == Listed(UNION {Request_line(r), Message_header, SocketRequest(r)})
StrictEdges == RequestEdges(FALSE)
RelaxedEdges == RequestEdges(TRUE)
StrictTable == ByState(1 .. 349, StrictEdges)
RelaxedTable == ByState(1 .. 349, RelaxedEdges)
=============================================================================
