----------------------------- MODULE UriScanner -----------------------------
(***************************************************************************)
(* The scanner of uri.rl.cc, which splits a URI into its parts: one        *)
(* definition for each element of the grammar of uri.rl.  Byte classes, by *)
(* their member: "-" + and -; "3" 3 and 4; "6" 6-9; "A" A-F and a-f; "v";  *)
(* "G" the other letters; "!" the other bytes of sub_delims, and _ and ~;  *)
(* "x80" 128..255; "x02" the byte 2; "x00" the bytes no URI may have.      *)
(* "EOF" is the end of the string: it leaves the state alone.              *)
(***************************************************************************)
EXTENDS Scanner

Digit  == {"0", "1", "2", "3", "5", "6"}
XDigit == Digit \cup {"A"}
Alpha  == {"A", "G", "v"}
SchemeChar == Alpha \cup Digit \cup {"-", "."}
NameChar == SchemeChar \cup {"!"}
PChar == NameChar \cup {":", "@", "x80"}
Uri_alphabet == PChar \cup {"x00", "x02", "#", "%", "/", "?", "[", "]"}

\* "%" and two hexadecimal digits, after which the scan is in state t.
Pct(S, f, t, a) == Edge(S, {"%"}, f, a) \cup Along({f}, XDigit, << >>)
                     \cup Edge({f + 1}, XDigit, t, << >>)
AtEof(S, a) == {[from |-> s, on |-> "EOF", to |-> s, do |-> a] : s \in S}

(***************************************************************************)
(* Paths without a host, the scheme, the query and the fragment.           *)
(***************************************************************************)
QueryOrFragment(S, a) == Edge(S, {"?"}, 456, a) \cup Edge(S, {"#"}, 453, a)

URI_reference ==
    Edge({451}, Alpha, 508, <<"marku">>) \cup Edge({451}, {"/"}, 458, << >>)
      \cup Edge({451}, (NameChar \ Alpha) \cup {"@", "x80"}, 452, << >>)
      \cup Edge({451}, {"%"}, 3, << >>) \cup QueryOrFragment({451}, << >>)
Path_noscheme ==
    Edge({452}, PChar \ {":"}, 452, << >>) \cup Pct({452}, 3, 452, << >>)
      \cup Edge({452}, {"/"}, 455, << >>) \cup QueryOrFragment({452}, << >>)
Path_segments == Edge({455}, PChar \cup {"/"}, 455, << >>) \cup Pct({455}, 5, 455, << >>)
                   \cup QueryOrFragment({455}, << >>)
\* "/" in the states 458 and 510, "//" in 459 and 511; ":" leads to 509.
Path_absolute(S) ==
    Edge(S, PChar, 455, << >>) \cup Edge(S, {"%"}, 5, << >>) \cup Along(S, {"/"}, << >>)
      \cup QueryOrFragment(S, << >>)
Scheme ==
    Edge({508}, SchemeChar, 508, << >>) \cup Along({508}, {":"}, <<"save_scheme">>)
      \cup Edge({508}, (PChar \ SchemeChar) \ {":"}, 452, << >>)
      \cup Edge({508}, {"%"}, 3, << >>) \cup Edge({508}, {"/"}, 455, << >>)
      \cup QueryOrFragment({508}, << >>)
Hier_part == Path_absolute({509})

Query ==
    LET inside == PChar \cup {"/", "?"}
    IN  Along({456}, inside, <<"marku">>) \cup Edge({457}, inside, 457, << >>)
          \cup Pct({456}, 7, 457, <<"marku">>) \cup Pct({457}, 7, 457, << >>)
          \cup Edge({456}, {"#"}, 453, <<"marku", "save_query">>)
          \cup Edge({457}, {"#"}, 453, <<"save_query">>)
          \cup AtEof({456}, <<"marku", "save_query">>) \cup AtEof({457}, <<"save_query">>)
Fragment ==
    LET inside == PChar \cup {"/", "?"}
    IN  Along({453}, inside, <<"marku">>) \cup Edge({454}, inside, 454, << >>)
          \cup Pct({453}, 1, 454, <<"marku">>) \cup Pct({454}, 1, 454, << >>)
          \cup AtEof({453}, <<"marku", "save_fragment">>)
          \cup AtEof({454}, <<"save_fragment">>)

(***************************************************************************)
(* The authority after "//" where no scheme precedes it, states 459 ..     *)
(* 507 and 9 .. 228.                                                       *)
(***************************************************************************)
\* An octet from state s: a digit, two digits not beginning with 0, 1 and two
\* digits, 25 and 0-5, or the byte 2, 0-4 and a digit (state x); complete in
\* state e, begun in p .. p + 3; then a byte of C.
Octet(s, x, e, p, C, t) ==
    Edge({s}, {"x02"}, x, << >>) \cup Along({x}, {"0", "1", "2", "3"}, << >>)
      \cup Edge({x + 1}, Digit, e, << >>) \cup Edge({s}, {"0"}, e, << >>)
      \cup Edge({s}, {"1"}, p, << >>) \cup Edge({s}, {"2"}, p + 2, << >>)
      \cup Edge({s}, {"3", "5", "6"}, p + 1, << >>) \cup Along({p}, Digit, << >>)
      \cup Edge({p + 1}, Digit, e, << >>) \cup Edge({p + 2}, Digit \ {"5"}, e, << >>)
      \cup Along({p + 2}, {"5"}, << >>) \cup Edge({p + 3}, Digit \ {"6"}, e, << >>)
      \cup Edge({e} \cup p .. p + 3, C, t, << >>)

\* A name that may also be an IPv4 address: octets complete in c, c + 2 and
\* c + 4, dots in c + 1, c + 3 and c + 5; any other byte makes it a name (h).
Dotted(h, c, p) ==
    LET Part(q, e) ==   \* the octet begun in q .. q + 3, complete in e
            Along({q}, Digit, << >>) \cup Edge({q + 1}, Digit, e, << >>)
              \cup Edge({q + 2}, Digit \ {"5"}, e, << >>) \cup Along({q + 2}, {"5"}, << >>)
              \cup Edge({q + 3}, Digit \ {"6"}, e, << >>) \cup Edge({q + 3}, {"6"}, h, << >>)
              \cup Edge({e} \cup q .. q + 3, {"."}, e + 1, << >>)
        Dot(d, q, x) == \* after a dot
            Edge({d}, {"x02"}, x, << >>) \cup Along({d}, {"0"}, << >>)
              \cup Edge({d}, {"1"}, q, << >>) \cup Edge({d}, {"2"}, q + 2, << >>)
              \cup Edge({d}, {"3", "5", "6"}, q + 1, << >>)
              \cup Edge({d}, NameChar \ Digit, h, << >>)
    IN  UNION {Part(c + 6, c + 4), Part(c + 10, c + 2), Part(c + 14, c),
               Dot(c + 1, c + 10, 13), Dot(c + 3, c + 6, 17),
               Edge({c + 5}, {"x02"}, 21, << >>), Edge({c + 5}, NameChar, h, << >>),
               Edge({c, c + 2, c + 4}, NameChar \ {"."}, h, << >>),
               Edge(c + 6 .. c + 17, NameChar \ (Digit \cup {"."}), h, << >>),
               Edge(c .. c + 17, {"%"}, p, << >>)}

\* The first byte of a host (h, c and p as above).
HostStart(s, h, c, p) ==
    Edge({s}, {"x02"}, 9, <<"markh">>) \cup Edge({s}, NameChar \ Digit, h, <<"markh">>)
      \cup Edge({s}, {"0"}, c, <<"markh">>) \cup Edge({s}, {"1"}, c + 14, <<"markh">>)
      \cup Edge({s}, {"2"}, c + 16, <<"markh">>)
      \cup Edge({s}, {"3", "5", "6"}, c + 15, <<"markh">>)
      \cup Edge({s}, {"["}, 38, <<"markh">>) \cup Edge({s}, {"%"}, p, <<"markh">>)

\* Before an "@" the scan cannot tell a host from a userinfo.
Host_or_userinfo ==
    HostStart(459, 467, 490, 31) \cup Edge({459}, {":"}, 468, <<"markh", "save_host">>)
      \cup Edge({459}, {"@"}, 469, <<"markh", "save_userinfo">>)
      \cup Edge({467}, NameChar, 467, << >>) \cup Pct({467}, 31, 467, << >>)
      \cup Edge({467} \cup 490 .. 507, {":"}, 468, <<"save_host">>)
      \cup Edge({467} \cup 490 .. 507, {"@"}, 469, <<"save_userinfo">>)
Dotted_or_userinfo == Dotted(467, 490, 31)
Port_or_userinfo ==
    Edge({468}, Digit, 489, <<"markh">>) \cup Edge({489}, Digit, 489, << >>)
      \cup Edge({468, 489}, (NameChar \ Digit) \cup {":"}, 33, << >>)
      \cup Edge({33}, NameChar \cup {":"}, 33, << >>) \cup Pct({33, 468, 489}, 34, 33, << >>)
      \cup Edge({33, 468, 489}, {"@"}, 469, <<"save_userinfo">>)
Host ==
    HostStart(469, 470, 471, 36) \cup Edge({469}, {":"}, 461, <<"markh", "save_host">>)
      \cup Edge({470}, NameChar, 470, << >>) \cup Pct({470}, 36, 470, << >>)
      \cup Edge(470 .. 488, {":"}, 461, <<"save_host">>)
Dotted_host == Dotted(470, 471, 36)
Port == Along({461}, Digit, <<"markh">>) \cup Edge({462}, Digit, 462, << >>)

\* An address with the byte 2 in it can be no name.
IPv4address ==
    Along({9}, {"0", "1", "2", "3"}, << >>) \cup Along({10}, Digit, << >>)
      \cup Along({11}, {"."}, << >>) \cup Octet(12, 13, 15, 27, {"."}, 16)
      \cup Octet(16, 17, 19, 23, {"."}, 20) \cup Octet(20, 21, 460, 463, {}, 0)
      \cup Edge({460, 463, 464, 465, 466}, {":"}, 461, <<"save_host">>)

(***************************************************************************)
(* The IP literal, states 38 .. 228; "]" leads to state 460.               *)
(***************************************************************************)
Literal_start == Along({38}, XDigit, << >>) \cup Edge({38}, {":"}, 146, << >>)
                   \cup Edge({38}, {"v"}, 225, << >>)
\* The groups before ls32 or "::", and "::" after so many of them.
Groups1to3 ==
    UNION {H16(f, XDigit, {":"}, f + 4) \cup Along({f + 4}, XDigit, << >>) : f \in {39, 44, 49}}
      \cup Edge({43}, {":"}, 141, << >>) \cup Edge({48}, {":"}, 136, << >>)
      \cup Edge({53}, {":"}, 131, << >>)
Groups4to6 ==
    UNION {H16(f, XDigit, {":"}, f + 4) : f \in {54, 59, 64}}
      \cup Along({58, 63}, XDigit, << >>) \cup Edge({58}, {":"}, 126, << >>)
      \cup Edge({63}, {":"}, 113, << >>)

\* A group that may also be the first octet of an IPv4 address: the state d
\* after 0, h .. h + 2 once it is hexadecimal, o .. o + 6 while it is decimal,
\* l after a letter.
GroupStart(s, d, o, l) ==
    Edge({s}, {"x02"}, 69, << >>) \cup Edge({s}, {"0"}, d, << >>)
      \cup Edge({s}, {"1"}, o, << >>) \cup Edge({s}, {"2"}, o + 3, << >>)
      \cup Edge({s}, {"3", "5", "6"}, o + 6, << >>) \cup Edge({s}, {"A"}, l, << >>)
GroupHex(d, h, l) == Edge({d, l}, XDigit, h, << >>) \cup Along({h, h + 1}, XDigit, << >>)
GroupOctet(d, h, o) ==
    Along({o, o + 1}, Digit, << >>) \cup Edge({o, o + 3, o + 6}, {"A"}, h, << >>)
      \cup Edge({o + 1}, {"A"}, h + 1, << >>) \cup Edge({o + 2}, XDigit, h + 2, << >>)
      \cup Along({o + 3}, Digit \ {"5"}, << >>) \cup Edge({o + 3}, {"5"}, o + 5, << >>)
      \cup Edge({o + 4}, XDigit, h + 1, << >>) \cup Edge({o + 5}, Digit \ {"6"}, o + 2, << >>)
      \cup Edge({o + 5}, {"6", "A"}, h + 1, << >>) \cup Edge({o + 6}, Digit, o + 4, << >>)
      \cup Edge({d} \cup (o .. o + 6), {"."}, 72, << >>)
GroupStates(d, h, o, l) == {d, l} \cup h .. h + 2 \cup o .. o + 6

\* The last 32 bits after six groups, or "::" and one group.
Ls32 == GroupStart(68, 96, 104, 112) \cup GroupHex(96, 97, 112) \cup GroupOctet(96, 97, 104)
          \cup Edge(GroupStates(96, 97, 104, 112), {":"}, 100, << >>)
          \cup Edge({68}, {":"}, 111, << >>)
Last_group == Edge({100, 111}, XDigit, 101, << >>) \cup Edge({100}, {":"}, 83, << >>)
                \cup Along({101, 102}, XDigit, << >>) \cup Edge({103}, XDigit, 83, << >>)
                \cup Edge(101 .. 103, {"]"}, 460, << >>)
\* The same after "::" and as many groups as are still missing.
Ls32_compressed ==
    GroupStart(113, 114, 118, 125) \cup GroupHex(114, 115, 125) \cup GroupOctet(114, 115, 118)
      \cup Edge(GroupStates(114, 115, 118, 125), {":"}, 111, << >>)
Groups_missing ==
    UNION {Along({f}, XDigit, << >>)
             \cup H16(f + 1, XDigit, {":"}, IF f = 126 THEN 113 ELSE f - 5) :
             f \in {126, 131, 136, 141}}
Literal_octet1 == Along({69}, {"0", "1", "2", "3"}, << >>) \cup Along({70}, Digit, << >>)
                    \cup Along({71}, {"."}, << >>)
Literal_octet2 == Octet(72, 73, 75, 92, {"."}, 76)
Literal_octet3 == Octet(76, 77, 79, 88, {"."}, 80)
Literal_octet4 == Octet(80, 81, 83, 84, {"]"}, 460)

\* "::" first, then up to six groups (k = 0 .. 5) and the closing bracket.
After_start == Along({146}, {":"}, << >>) \cup Edge({147}, {"]"}, 460, << >>)
After(k) ==
    LET d == 148 + 5 * k
        o == 217 - 8 * k
        S == GroupStates(d, d + 1, o, o + 7)
    IN  GroupStart(d - 1, d, o, o + 7) \cup GroupHex(d, d + 1, o + 7)
          \cup GroupOctet(d, d + 1, o) \cup Edge(S, {"]"}, 460, << >>)
          \cup Edge(S, {":"}, IF k = 5 THEN 111 ELSE d + 4, << >>)
\* After "::": the first group to the sixth.
Group1 == After(0)
Group2 == After(1)
Group3 == After(2)
Group4 == After(3)
Group5 == After(4)
Group6 == After(5)
IPvFuture ==
    LET inside == NameChar \cup {":"}
    IN  Along({225}, XDigit, << >>) \cup Edge({226}, XDigit, 226, << >>)
          \cup Along({226}, {"."}, << >>) \cup Along({227}, inside, << >>)
          \cup Edge({228}, inside, 228, << >>) \cup Edge({228}, {"]"}, 460, << >>)
IP_literal ==
    UNION {Literal_start, Groups1to3, Groups4to6, Ls32, Last_group, Ls32_compressed,
           Groups_missing, Literal_octet1, Literal_octet2, Literal_octet3, Literal_octet4,
           After_start, Group1, Group2, Group3, Group4, Group5, Group6, IPvFuture}

Authority == Listed(UNION {Host_or_userinfo, Dotted_or_userinfo, Port_or_userinfo, Host,
                           Dotted_host, Port, IPv4address, IP_literal})

(***************************************************************************)
(* What ends the authority.  Without a scheme nothing saves the path; with *)
(* one, the path begins where the authority ends and is saved.             *)
(***************************************************************************)
HostStates == {460} \cup 463 .. 467 \cup 470 .. 488 \cup 490 .. 507

Relative_end ==
    LET End(S, a) == Edge(S, {"/"}, 455, a) \cup QueryOrFragment(S, a) \cup AtEof(S, a)
    IN  End({459, 469}, <<"markh", "save_host">>) \cup End(HostStates, <<"save_host">>)
          \cup End({461, 468}, <<"markh", "save_port">>) \cup End({462, 489}, <<"save_port">>)

\* The state of the authority after a scheme that does the work of state s.
After_scheme(s) ==
    CASE s \in 9 .. 22    -> s + 220
      [] s \in 23 .. 228  -> s + 222
      [] s \in {459, 460} -> s + 52
      [] OTHER            -> s + 53
Absolute(Edges) ==
    {[e EXCEPT !.from = After_scheme(@), !.to = After_scheme(@)] : e \in Edges}
Absolute_userinfo == Absolute(Host_or_userinfo \cup Port_or_userinfo)
Absolute_dotted_or_userinfo == Absolute(Dotted_or_userinfo)
Absolute_host == Absolute(Host \cup Port)
Absolute_dotted_host == Absolute(Dotted_host)
Absolute_IPv4address == Absolute(IPv4address)
Absolute_groups1to3 == Absolute(Literal_start \cup Groups1to3)
Absolute_groups4to6 == Absolute(Groups4to6)
Absolute_octets == Absolute(UNION {Literal_octet1, Literal_octet2, Literal_octet3, Literal_octet4})
Absolute_ls32 == Absolute(Ls32 \cup Last_group)
Absolute_ls32_compressed == Absolute(Ls32_compressed)
Absolute_groups_missing == Absolute(Groups_missing)
Absolute_group1to3 == Absolute(UNION {After_start, Group1, Group2, Group3})
Absolute_group4to6 == Absolute(UNION {Group4, Group5, Group6})
Absolute_IPvFuture == Absolute(IPvFuture)
Absolute_authority ==
    UNION {Absolute_userinfo, Absolute_dotted_or_userinfo, Absolute_host, Absolute_dotted_host,
           Absolute_IPv4address, Absolute_groups1to3, Absolute_groups4to6, Absolute_octets,
           Absolute_ls32, Absolute_ls32_compressed, Absolute_groups_missing,
           Absolute_group1to3, Absolute_group4to6, Absolute_IPvFuture}
\* At a start or an empty port the path is marked before the part is saved;
\* save_port then forgets that mark.
Absolute_end ==
    LET Abs(S) == {After_scheme(s) : s \in S}
        End(S, a, b) == Edge(Abs(S), {"/"}, 513, a)
                          \cup QueryOrFragment(Abs(S), b) \cup AtEof(Abs(S), b)
    IN  End({459, 469}, <<"markh", "save_host">>, <<"markh", "save_host", "save_path">>)
          \cup End(HostStates, <<"save_host", "markh">>, <<"save_host", "markh", "save_path">>)
          \cup End({461, 468}, <<"markh", "save_port">>, <<"markh", "save_port", "save_path">>)
          \cup End({462, 489}, <<"save_port", "markh">>, <<"save_port", "markh", "save_path">>)
Path_abempty ==
    Edge({513}, PChar \cup {"/"}, 513, << >>) \cup Pct({513}, 243, 513, << >>)
      \cup QueryOrFragment({513}, <<"save_path">>) \cup AtEof({513}, <<"save_path">>)

\* The whole scanner.
UriEdges ==
    Listed(UNION {URI_reference, Path_noscheme, Path_segments, Path_absolute({458, 510}),
                  Scheme, Hier_part, Query, Fragment, Authority, Relative_end,
                  Absolute_authority, Absolute_end, Path_abempty})
UriTable == ByState(1 .. 560, UriEdges)
=============================================================================
