------------------------------ MODULE LogConfig ------------------------------
(***************************************************************************)
(* The configuration variable "logs" (config.h) and the listener of it     *)
(* that sets up the loggers (log.cpp, LogIniter).  Threads give the        *)
(* variable new values, one by one or at the same time; the listener runs  *)
(* in the thread of setValue, under the read lock, before the value is     *)
(* stored under the write lock.                                            *)
(***************************************************************************)
EXTENDS Integers, FiniteSetsExt

CONSTANTS
    Threads,  \* threads that load configurations
    Names,    \* names of loggers, natural numbers for their order in a std::set
    Defs,     \* LogDefine without the name: level, formatter and appenders
    None,     \* no definition, no formatter
    MaxSets   \* bound: calls of setValue

VARIABLES
    m_val,    \* the value: a definition, or None, by name
    loggers,  \* level, formatter and appenders of each Logger
    pc,       \* step of each thread
    new, old, \* the values its listener is called with
    todo,     \* definitions the listener has not finished
    adding,   \* appenders of the current one it has not added
    sets,     \* calls so far
    torn,     \* two calls have overlapped
    crashed   \* a null pointer was used
vars == <<m_val, loggers, pc, new, old, todo, adding, sets, torn, crashed>>

Values == [Names -> Defs \cup {None}]
Off == 100
NoValue == [n \in Names |-> None]
Defined(v) == {n \in Names : v[n] # None}

Init ==
    /\ m_val = NoValue
    /\ loggers = [n \in Names |-> [level |-> 1, fmt |-> None, apps |-> {}]]
    /\ pc = [t \in Threads |-> "idle"]
    /\ new = [t \in Threads |-> NoValue] /\ old = [t \in Threads |-> NoValue]
    /\ todo = [t \in Threads |-> {}] /\ adding = [t \in Threads |-> {}]
    /\ sets = 0 /\ torn = FALSE /\ crashed = FALSE

Goto(t, p) == pc' = [pc EXCEPT ![t] = p]
Busy == {t \in Threads : pc[t] # "idle"}
\* Threads that hold the read lock.
Readers == {t \in Threads : pc[t] \in {"define", "clear", "append", "remove"}}

\* setValue: the read lock, and the test whether the value changes.
SetValue(t, v) ==
    /\ pc[t] = "idle" /\ sets < MaxSets /\ sets' = sets + 1
    /\ IF v = m_val THEN UNCHANGED <<pc, new, old, todo, torn>>
       ELSE /\ new' = [new EXCEPT ![t] = v] /\ old' = [old EXCEPT ![t] = m_val]
            /\ todo' = [todo EXCEPT ![t] = Defined(v)] /\ Goto(t, "define")
            /\ torn' = (torn \/ Busy # {})
    /\ UNCHANGED <<m_val, loggers, adding, crashed>>

\* The listener takes the next definition.  One that is as before leaves logger null.
Define(t) ==
    /\ pc[t] = "define" /\ todo[t] # {}
    /\ LET n == Min(todo[t])
       IN  IF new[t][n] = old[t][n]
           THEN crashed' = TRUE /\ UNCHANGED <<loggers, pc>>
           ELSE /\ loggers' = [loggers EXCEPT
                                  ![n].level = new[t][n].level,
                                  ![n].fmt = IF new[t][n].fmt = None THEN @ ELSE new[t][n].fmt]
                /\ Goto(t, "clear") /\ UNCHANGED crashed
    /\ UNCHANGED <<m_val, new, old, todo, adding, sets, torn>>
\* Mutant: the appenders of the earlier definition stay.
ClearNot(t) ==
    /\ pc[t] = "clear" /\ Goto(t, "append")
    /\ adding' = [adding EXCEPT ![t] = new[t][Min(todo[t])].apps]
    /\ UNCHANGED <<m_val, loggers, new, old, todo, sets, torn, crashed>>
ClearAppenders(t) ==
    /\ pc[t] = "clear" /\ Goto(t, "append")
    /\ loggers' = [loggers EXCEPT ![Min(todo[t])].apps = {}]
    /\ adding' = [adding EXCEPT ![t] = new[t][Min(todo[t])].apps]
    /\ UNCHANGED <<m_val, new, old, todo, sets, torn, crashed>>
AddAppender(t) ==
    /\ pc[t] = "append"
    /\ \E a \in adding[t] :
          /\ loggers' = [loggers EXCEPT ![Min(todo[t])].apps = @ \cup {a}]
          /\ adding' = [adding EXCEPT ![t] = @ \ {a}]
    /\ UNCHANGED <<m_val, pc, new, old, todo, sets, torn, crashed>>
NextDefinition(t) ==
    /\ pc[t] = "append" /\ adding[t] = {} /\ Goto(t, "define")
    /\ todo' = [todo EXCEPT ![t] = @ \ {Min(@)}]
    /\ UNCHANGED <<m_val, loggers, new, old, adding, sets, torn, crashed>>
\* Then the loggers that are no longer defined are switched off.
DefineEnds(t) ==
    /\ pc[t] = "define" /\ todo[t] = {} /\ Goto(t, "remove")
    /\ todo' = [todo EXCEPT ![t] = Defined(old[t]) \ Defined(new[t])]
    /\ UNCHANGED <<m_val, loggers, new, old, adding, sets, torn, crashed>>
Remove(t) ==
    /\ pc[t] = "remove"
    /\ IF todo[t] = {} THEN Goto(t, "store") /\ UNCHANGED <<loggers, todo>>
       ELSE LET n == Min(todo[t])
            IN  /\ loggers' = [loggers EXCEPT ![n].level = Off, ![n].apps = {}]
                /\ todo' = [todo EXCEPT ![t] = @ \ {n}] /\ UNCHANGED pc
    /\ UNCHANGED <<m_val, new, old, adding, sets, torn, crashed>>
\* The write lock is given when nobody holds the read lock.
Store(t) ==
    /\ pc[t] = "store" /\ Readers = {}
    /\ m_val' = new[t] /\ Goto(t, "idle")
    /\ new' = [new EXCEPT ![t] = NoValue] /\ old' = [old EXCEPT ![t] = NoValue]
    /\ UNCHANGED <<loggers, todo, adding, sets, torn, crashed>>

Next ==
    /\ ~crashed
    /\ \E t \in Threads :
          \/ \E v \in Values : SetValue(t, v)
          \/ Define(t) \/ ClearAppenders(t) \/ AddAppender(t) \/ NextDefinition(t)
          \/ DefineEnds(t) \/ Remove(t) \/ Store(t)
Spec == Init /\ [][Next]_vars

-----------------------------------------------------------------------------
\* When no setValue is under way, and none has overlapped another, the loggers are
\* as the stored value says: level, appenders and, where one is given, formatter of
\* every definition, and no output from a logger whose definition was taken away.
LoggersFollow ==
    Busy = {} /\ ~torn => \A n \in Names :
        LET d == m_val[n]
            l == loggers[n]
        IN  IF d # None
            THEN l.level = d.level /\ l.apps = d.apps /\ d.fmt \in {None, l.fmt}
            ELSE l.apps = {} /\ (l.level = Off \/ (l.level = 1 /\ l.fmt = None))
=============================================================================
