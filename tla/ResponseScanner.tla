-------------------------- MODULE ResponseScanner --------------------------
(***************************************************************************)
(* The scanner of HTTP responses and chunk headers,                        *)
(* http/httpclient_parser.rl.cc: one definition for each element of the    *)
(* grammar of httpclient_parser.rl.  Byte classes, by their member: a      *)
(* small letter stands for itself and its capital, except that h H and t T *)
(* are told apart and P stands alone (of "HTTP/"); "!" the other bytes of  *)
(* a token; "TAB" 9, 11 and 12; "x00" the bytes that no token may have and *)
(* that have no class of their own.                                        *)
(***************************************************************************)
EXTENDS Scanner

Letter == {"a", "b", "c", "d", "e", "f", "g", "H", "h", "i", "k", "l", "n", "o", "P",
           "r", "s", "T", "t", "u"}
XDigit == {"0", "a", "b", "c", "d", "e", "f"}
Token  == Letter \cup {"!", "-", ".", "0"}
Blank  == {"TAB", "SP"}
Response_alphabet == Token \cup Blank \cup {"x00", "LF", "CR", "/", ":", ";", "="}
ValueByte == Response_alphabet \ {"LF", "CR"}

\* Both cases of a letter of a keyword.
Fold(c) == CASE c = "t" -> {"t", "T"} [] c = "h" -> {"h", "H"} [] OTHER -> {c}

\* From state f on, the letters of the word w, one state each.
Word(f, w) == UNION {Along({f + i - 1}, Fold(w[i]), << >>) : i \in 1 .. Len(w)}

\* A byte of a field name that is not in C: an ordinary field after all.
OtherName(S, C) == Edge(S, Token \ C, 21, << >>) \cup Edge(S, {":"}, 22, <<"write_field">>)
NameWord(f, w) ==
    Word(f, w) \cup UNION {OtherName({f + i - 1}, Fold(w[i])) : i \in 1 .. Len(w)}
\* The same for a field value; the end of the line ends the value.
OtherValue(S, C) ==
    Edge(S, ValueByte \ C, 23, << >>) \cup Edge(S, {"LF"}, 20, <<"write_value">>)
      \cup Edge(S, {"CR"}, 24, <<"write_value">>)
ValueWord(f, w) ==
    Word(f, w) \cup UNION {OtherValue({f + i - 1}, Fold(w[i])) : i \in 1 .. Len(w)}

(***************************************************************************)
(* The status line, and a chunk header.                                    *)
(***************************************************************************)
Main_start == Edge({1}, XDigit, 2, <<"mark">>) \cup Edge({1}, {"H"}, 8, <<"mark">>)

Chunk_size == Edge({2}, XDigit, 2, << >>) \cup Edge({2}, {";"}, 4, <<"chunk_size">>)
                \cup Edge({2}, {"LF"}, 120, <<"chunk_size", "done">>)
                \cup Edge({2}, {"CR"}, 3, <<"chunk_size">>)
Last_LF == Edge({3}, {"LF"}, 120, <<"done">>)
Chunk_extension ==
    LET End(s, a) == Edge({s}, {";"}, 4, a) \cup Edge({s}, {"CR"}, 3, a)
                       \cup Edge({s}, {"LF"}, 120, a \o <<"done">>)
    IN  Along({4}, Token, <<"start_field">>) \cup Edge({5}, Token, 5, << >>)
          \cup Along({5}, {"="}, <<"write_field", "start_value">>)
          \cup End(5, <<"write_field", "start_value", "write_value">>)
Chunk_ext_val ==
    Along({6}, Token, <<"start_value">>) \cup Edge({7}, Token, 7, << >>)
      \cup Edge({7}, {";"}, 4, <<"write_value">>) \cup Edge({7}, {"CR"}, 3, <<"write_value">>)
      \cup Edge({7}, {"LF"}, 120, <<"write_value", "done">>)

HTTP_version ==
    Along({8, 9}, {"T"}, << >>) \cup Along({10}, {"P"}, << >>) \cup Along({11}, {"/"}, << >>)
      \cup Along({12, 14}, {"0"}, << >>) \cup Along({13}, {"."}, << >>)
      \cup Edge({13}, {"0"}, 13, << >>) \cup Edge({15}, {"0"}, 15, << >>)
      \cup Along({15}, {"SP"}, <<"http_version">>)
Status_code == Along({16}, {"0"}, <<"mark">>) \cup Edge({17}, {"0"}, 17, << >>)
                 \cup Along({17}, {"SP"}, <<"status_code">>)
Reason_phrase == Along({18}, Response_alphabet \ {"LF"}, <<"mark">>)
                   \cup Edge({19}, ValueByte, 19, << >>)
                   \cup Along({19}, {"LF"}, <<"reason_phrase">>)
                   \cup Edge({19}, {"CR"}, 24, <<"reason_phrase">>)

(***************************************************************************)
(* A header field; its name may turn out to be one of three keywords.      *)
(***************************************************************************)
\* At the start of a line, the actions a done: the last line or a name.
LineStart(s, a) ==
    Edge({s}, {"LF"}, 120, a \o <<"done">>) \cup Edge({s}, {"CR"}, 3, a)
      \cup Edge({s}, Token \ {"c", "t", "T"}, 21, a \o <<"start_field">>)
      \cup Edge({s}, {"c"}, 25, a \o <<"start_field">>)
      \cup Edge({s}, {"t", "T"}, 44, a \o <<"start_field">>)
Field_start == LineStart(20, << >>)
Field_name == OtherName({21}, {})
Field_value == Edge({22}, ValueByte \ Blank, 23, <<"start_value">>)
                 \cup Edge({22}, Blank, 22, <<"start_value">>)
                 \cup Edge({22}, {"LF"}, 20, <<"start_value", "write_value">>)
                 \cup Edge({22}, {"CR"}, 24, <<"start_value", "write_value">>)
Field_rest == OtherValue({23}, {})
Line_end == Edge({24}, {"LF"}, 20, << >>)

\* A keyword's value in state s, begun by a byte of C in state v; space* goes
\* over line ends (states n, w, m).
KeyValue(s, C, v, n, m) ==
    Edge({s}, ValueByte \ (Blank \cup C), 23, <<"start_value">>)
      \cup Edge({s}, Blank, s, <<"start_value">>) \cup Edge({s}, C, v, <<"start_value">>)
      \cup Edge({s}, {"LF"}, n, <<"start_value", "write_value">>)
      \cup Edge({s}, {"CR"}, m, <<"start_value", "write_value">>)
\* The line after an empty keyword value: still the value (state w), the end of
\* the head (the final state f), or the next field.
NextLine(n, w, f, m) ==
    Edge({n}, Blank, w, << >>) \cup Edge({n}, {"LF"}, f, <<"done">>)
      \cup Edge({n}, {"CR"}, m, << >>)
\* In white space after a line end: C begins the value in state v.
Space(S, w, C, v, a) == Edge(S, Blank \cup {"CR"}, w, << >>) \cup Edge(S, C, v, a)

\* Connection: close
Connection_name ==
    NameWord(25, <<"o", "n">>) \cup OtherName({27}, {"n", "t", "T"})
      \cup Edge({27}, {"n"}, 28, << >>) \cup Edge({27}, {"t", "T"}, 101, << >>)
      \cup NameWord(28, <<"e", "c", "t", "i", "o", "n">>)
      \cup Edge({34}, Token, 21, << >>) \cup Along({34}, {":"}, <<"write_field">>)
Connection_value == KeyValue(35, {"c"}, 96, 36, 95) \cup ValueWord(96, <<"l", "o", "s", "e">>)
                      \cup Edge({100}, ValueByte, 23, << >>)
                      \cup Edge({100}, {"LF"}, 43, <<"write_value">>)
                      \cup Edge({100}, {"CR"}, 88, <<"write_value">>)
Connection_line ==
    NextLine(36, 37, 122, 89) \cup Edge({36}, Token \ {"c", "t", "T"}, 21, <<"start_field">>)
      \cup Edge({36}, {"c"}, 90, <<"start_field">>)
      \cup Edge({36}, {"t", "T"}, 44, <<"start_field">>)
      \cup OtherName({90}, {"l", "o"}) \cup Edge({90}, {"o"}, 26, << >>)
      \cup Along({90}, {"l"}, << >>) \cup NameWord(91, <<"o", "s", "e">>)
      \cup OtherName({94}, {}) \cup Edge({94}, {"LF"}, 43, << >>)
      \cup Edge({94}, {"CR"}, 88, << >>)
Connection_space ==
    Space({37, 89, 95, 122}, 37, {"c"}, 38, << >>) \cup Edge({37, 122}, {"LF"}, 37, << >>)
      \cup Edge({89}, {"LF"}, 122, <<"done">>) \cup Edge({95}, {"LF"}, 36, << >>)
      \cup Word(38, <<"l", "o", "s", "e">>) \cup Edge({42}, {"LF"}, 43, << >>)
      \cup Edge({42}, {"CR"}, 88, << >>) \cup Edge({88}, {"LF"}, 43, << >>)
Connection_close == LineStart(43, <<"write_connection_close">>)

\* Transfer-Encoding: chunked
Encoding_name1 == NameWord(44, <<"r", "a", "n", "s", "f", "e", "r">>)
Encoding_name2 ==
    NameWord(51, <<"-", "e", "n", "c", "o", "d", "i", "n", "g">>)
      \cup Edge({60}, Token, 21, << >>) \cup Along({60}, {":"}, <<"write_field">>)
Encoding_value == KeyValue(61, {"c"}, 81, 62, 80)
Encoding_rest ==
    ValueWord(81, <<"h", "u", "n", "k", "e", "d">>) \cup Edge({87}, ValueByte, 23, << >>)
      \cup Edge({87}, {"LF"}, 20, <<"write_value", "trans_chunked">>)
      \cup Edge({87}, {"CR"}, 71, <<"write_value">>)
Encoding_line ==
    NextLine(62, 63, 121, 72) \cup Edge({62}, Token \ {"c", "t", "T"}, 21, <<"start_field">>)
      \cup Edge({62}, {"c"}, 73, <<"start_value", "start_field">>)
      \cup Edge({62}, {"t", "T"}, 44, <<"start_field">>)
Encoding_split ==
    OtherName({73}, {"h", "H", "o"}) \cup Edge({73}, {"o"}, 26, << >>)
      \cup Along({73}, {"h", "H"}, << >>) \cup NameWord(74, <<"u", "n", "k", "e", "d">>)
      \cup OtherName({79}, {}) \cup Edge({79}, {"LF"}, 20, <<"write_value", "trans_chunked">>)
      \cup Edge({79}, {"CR"}, 71, <<"write_value">>)
Encoding_space ==
    Space({63, 72, 80, 121}, 63, {"c"}, 64, <<"start_value">>)
      \cup Edge({63, 121}, {"LF"}, 63, << >>) \cup Edge({72}, {"LF"}, 121, <<"done">>)
      \cup Edge({80}, {"LF"}, 62, << >>) \cup Word(64, <<"h", "u", "n", "k", "e", "d">>)
      \cup Edge({70}, {"LF"}, 20, <<"write_value", "trans_chunked">>)
      \cup Edge({70}, {"CR"}, 71, <<"write_value">>)
      \cup Edge({71}, {"LF"}, 20, <<"trans_chunked">>)

\* Content-Length: digits
LengthEnd(S) == Edge(S, {"LF"}, 20, <<"write_content_len", "write_value">>)
                  \cup Edge(S, {"CR"}, 24, <<"write_content_len", "write_value">>)
Length_name1 == NameWord(101, <<"e", "n", "t", "-", "l">>)
Length_name2 ==
    NameWord(106, <<"e", "n", "g", "t", "h">>) \cup Edge({111}, Token, 21, << >>)
      \cup Along({111}, {":"}, <<"write_field">>)
Length_value == KeyValue(112, {"0"}, 119, 113, 118) \cup Edge({119}, {"0"}, 119, << >>)
                  \cup Edge({119}, ValueByte \ {"0"}, 23, << >>) \cup LengthEnd({119})
Length_line ==
    NextLine(113, 114, 123, 116)
      \cup Edge({113}, Token \ {"0", "c", "t", "T"}, 21, <<"start_field">>)
      \cup Edge({113}, {"0"}, 117, <<"start_value", "start_field">>)
      \cup Edge({113}, {"c"}, 25, <<"start_field">>)
      \cup Edge({113}, {"t", "T"}, 44, <<"start_field">>)
      \cup OtherName({117}, {"0"}) \cup Edge({117}, {"0"}, 117, << >>) \cup LengthEnd({117})
Length_space ==
    Space({114, 116, 118, 123}, 114, {"0"}, 115, <<"start_value">>)
      \cup Edge({114, 123}, {"LF"}, 114, << >>) \cup Edge({116}, {"LF"}, 123, <<"done">>)
      \cup Edge({118}, {"LF"}, 113, << >>) \cup Edge({115}, {"0"}, 115, << >>)
      \cup LengthEnd({115})

\* The whole scanner.
ResponseEdges ==
    Listed(UNION {Main_start, Chunk_size, Last_LF, Chunk_extension, Chunk_ext_val, HTTP_version,
                  Status_code, Reason_phrase, Field_start, Field_name, Field_value, Field_rest,
                  Line_end, Connection_name, Connection_value, Connection_line,
                  Connection_space, Connection_close, Encoding_name1, Encoding_name2,
                  Encoding_value, Encoding_rest, Encoding_line, Encoding_split,
                  Encoding_space, Length_name1, Length_name2, Length_value, Length_line,
                  Length_space})
ResponseTable == ByState(1 .. 123, ResponseEdges)
============================================================================
