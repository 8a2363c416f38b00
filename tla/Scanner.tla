------------------------------ MODULE Scanner ------------------------------
(***************************************************************************)
(* What the three scanners that Ragel generated for this library           *)
(* (http/http11_parser.rl.cc, http/httpclient_parser.rl.cc, uri.rl.cc)     *)
(* have in common.  A scanner is the set of its edges: in state "from",    *)
(* the byte "on" leads to state "to" and runs the actions "do".  The state *)
(* numbers are those of the generated "case" labels; a pair that has no    *)
(* edge is the generated "goto st0".  A byte is one of the classes the     *)
(* scanner tells apart, written as one of its members; every state has the *)
(* same edge for all bytes of a class.                                     *)
(***************************************************************************)
EXTENDS Naturals, Sequences

\* On a byte of C every state of S goes to t.
Edge(S, C, t, a) ==
    {[from |-> s, on |-> c, to |-> t, do |-> a] : s \in S, c \in C}

\* On a byte of C every state of S goes to the next one.
Along(S, C, a) ==
    {[from |-> s, on |-> c, to |-> s + 1, do |-> a] : s \in S, c \in C}

\* The edges by the state they leave.  Listed and << >> \o change no value: they make
\* TLC write out a union and a function once and for all.
Listed(Edges) == {e \in Edges : TRUE}
ByState(States, Edges) == << >> \o [s \in States |-> {e \in Edges : e.from = s}]

\* The bytes C in state s, and the state and actions they lead to.
OnByte(Table, s, c) == {e \in Table[s] : e.on = c}

\* Up to four hexadecimal digits from state f, then a byte of C: h16.
H16(f, XDigit, C, t) ==
    Along(f .. f + 2, XDigit, << >>) \cup Edge(f .. f + 3, C, t, << >>)

\* The same edges between the states that lie n further on.
Shift(Edges, n) == {[e EXCEPT !.from = @ + n, !.to = @ + n] : e \in Edges}
============================================================================
