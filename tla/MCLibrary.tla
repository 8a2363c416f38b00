------------------------------ MODULE MCLibrary ------------------------------
(***************************************************************************)
(* ByteArray, ServletDispatch and LogConfig share no state.  They are      *)
(* checked in one run, each by itself: part says which of them a behaviour *)
(* is about, and the others stay in their initial states.                  *)
(***************************************************************************)
EXTENDS Integers

CONSTANTS Base, MaxBlocks, MaxLen, Bytes, Junk,
          Paths, Patterns, Matching, Servlets, m_default, MaxEdits,
          Threads, Names, Defs, MaxSets, None

ASSUME LibraryConstants ==
    /\ Names \subseteq Nat
    /\ {Base, MaxBlocks} \subseteq Nat \ {0} /\ MaxLen \in Nat

VARIABLES part,
          nodes, mem, m_position, m_size, m_cur, flat, exact, fault,
          m_datas, m_globs, added, now,
          m_val, loggers, pc, new, old, todo, adding, sets, torn, crashed

arrayVars == <<nodes, mem, m_position, m_size, m_cur, flat, exact, fault>>
dispatchVars == <<m_datas, m_globs, added, now>>
logVars == <<m_val, loggers, pc, new, old, todo, adding, sets, torn, crashed>>

Array == INSTANCE ByteArray
Dispatch == INSTANCE ServletDispatch
Logs == INSTANCE LogConfig

MCMatching == {<<"star", "x">>, <<"star", "y">>, <<"x_only", "x">>}
MCDefs == {[level |-> 2, fmt |-> None, apps |-> {"file"}],
           [level |-> 1, fmt |-> "short", apps |-> {"file", "stdout"}]}

Init ==
    /\ part \in {"array", "dispatch", "logs"}
    /\ Array!Init /\ Dispatch!Init /\ Logs!Init
Next ==
    \/ part = "array" /\ Array!Next /\ UNCHANGED <<part, dispatchVars, logVars>>
    \/ part = "dispatch" /\ Dispatch!Next /\ UNCHANGED <<part, arrayVars, logVars>>
    \/ part = "logs" /\ Logs!Next /\ UNCHANGED <<part, arrayVars, dispatchVars>>
Spec == Init /\ [][Next]_<<part, arrayVars, dispatchVars, logVars>>

\* ByteArray: every read gets the bytes last written at its position.
BytesExact == Array!BytesExact
\* ServletDispatch: every request goes to the servlet that is registered for it.
Routes == Dispatch!Routes
\* LogConfig: the loggers are as the stored configuration says.
LoggersFollow == Logs!LoggersFollow
\* ByteArray: addCapacity(size) makes room for size bytes.
WriteFits == Array!WriteFits
=============================================================================
