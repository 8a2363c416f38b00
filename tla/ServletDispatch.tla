--------------------------- MODULE ServletDispatch ---------------------------
(***************************************************************************)
(* ServletDispatch (http/servlet.cpp): the servlets of a server, by exact  *)
(* path and by glob pattern.  Every operation holds m_mutex for the whole  *)
(* of it, so it is one action, whichever threads call.                     *)
(***************************************************************************)
EXTENDS Integers, Sequences, FiniteSetsExt, SequencesExt

CONSTANTS
    Paths,     \* paths of requests
    Patterns,  \* glob patterns
    Matching,  \* the pairs <<pattern, path>> for which fnmatch returns 0
    Servlets,
    None,      \* the null Servlet::ptr
    m_default, \* the NotFoundServlet
    MaxEdits   \* bound: calls that change the tables

VARIABLES
    m_datas,   \* the servlet of a path, or None
    m_globs,   \* the list of patterns, each with its servlet
    added,     \* the calls of addGlobServlet not undone: servlet and time by pattern
    now        \* calls so far
vars == <<m_datas, m_globs, added, now>>

NotAdded == [slt |-> None, at |-> 0]
Init ==
    /\ m_datas = [p \in Paths |-> None] /\ m_globs = << >>
    /\ added = [g \in Patterns |-> NotAdded] /\ now = 0

\* The list without the first entry for pattern g.
Erase(g) ==
    LET hits == {i \in 1 .. Len(m_globs) : m_globs[i][1] = g}
    IN  IF hits = {} THEN m_globs ELSE RemoveAt(m_globs, Min(hits))

Edit == now < MaxEdits /\ now' = now + 1
addServlet(p, slt) ==
    /\ Edit /\ m_datas' = [m_datas EXCEPT ![p] = slt] /\ UNCHANGED <<m_globs, added>>
delServlet(p) ==
    /\ Edit /\ m_datas' = [m_datas EXCEPT ![p] = None] /\ UNCHANGED <<m_globs, added>>
\* Mutant: an entry for the same pattern stays in front.
addGlobTwice(g, slt) ==
    /\ Edit /\ m_globs' = Append(m_globs, <<g, slt>>)
    /\ added' = [added EXCEPT ![g] = [slt |-> slt, at |-> now + 1]]
    /\ UNCHANGED m_datas
addGlobServlet(g, slt) ==
    /\ Edit /\ m_globs' = Append(Erase(g), <<g, slt>>)
    /\ added' = [added EXCEPT ![g] = [slt |-> slt, at |-> now + 1]]
    /\ UNCHANGED m_datas
delGolbServlet(g) ==
    /\ Edit /\ m_globs' = Erase(g)
    /\ added' = [added EXCEPT ![g] = NotAdded]
    /\ UNCHANGED m_datas

\* The servlet that handle() runs for a request for path p, after the lock is gone.
getMatchedServlet(p) ==
    LET hits == {i \in 1 .. Len(m_globs) : <<m_globs[i][1], p>> \in Matching}
    IN  IF m_datas[p] # None THEN m_datas[p]
        ELSE IF hits # {} THEN m_globs[Min(hits)][2]
        ELSE m_default

Next ==
    \/ \E p \in Paths : delServlet(p) \/ \E slt \in Servlets : addServlet(p, slt)
    \/ \E g \in Patterns : delGolbServlet(g) \/ \E slt \in Servlets : addGlobServlet(g, slt)
Spec == Init /\ [][Next]_vars

-----------------------------------------------------------------------------
\* However patterns were added, replaced and deleted, a request goes to the servlet
\* of its path, or else to the current servlet of the pattern that matches it and was
\* added or replaced the longest ago, or else to the NotFoundServlet: a replaced or
\* deleted servlet never answers, and replacing one moves its pattern to the end.
Routes ==
    \A p \in Paths :
        LET live == {g \in Patterns : <<g, p>> \in Matching /\ added[g] # NotAdded}
        IN  getMatchedServlet(p) =
                IF m_datas[p] # None THEN m_datas[p]
                ELSE IF live = {} THEN m_default
                ELSE added[CHOOSE g \in live : \A h \in live : added[g].at <= added[h].at].slt
=============================================================================
