---------------------------- MODULE LibraryProofs ----------------------------
(***************************************************************************)
(* Theorems about ByteArray, ServletDispatch and LogConfig, as MCLibrary   *)
(* puts them side by side: for any block size and any bytes, for any paths *)
(* and patterns, and for any threads, loggers and definitions.             *)
(***************************************************************************)
EXTENDS MCLibrary, WellFoundedInduction, SequenceTheorems, TLAPS

-----------------------------------------------------------------------------
(* Both tables are searched from the front, so a least element is needed.    *)

\* A set of natural numbers that is not empty has a least element.
LEMMA LeastExists ==
    ASSUME NEW T, T \subseteq Nat, T # {}
    PROVE  \E x \in T : \A y \in T : x <= y
<1> DEFINE R == {ss \in Nat \X Nat : ss[1] < ss[2]}
<1>1. IsWellFoundedOn(R, Nat)
  BY NatLessThanWellFounded, Zenon DEF OpToRel
<1>2. \A i, j \in Nat : <<i, j>> \in R <=> i < j
  OBVIOUS
<1> HIDE DEF R
<1>3. PICK x \in T : \A y \in T : ~(<<y, x>> \in R)
  BY <1>1, WFMin
<1>4. ASSUME NEW y \in T PROVE x <= y
  <2>1. ~(y < x) /\ x \in Nat /\ y \in Nat
    BY <1>2, <1>3, Zenon
  <2> QED BY <2>1
<1> QED BY <1>4

\* Min of FiniteSetsExt is that element.
LEMMA MinFact ==
    ASSUME NEW T, T \subseteq Nat, T # {}
    PROVE  Logs!Min(T) \in T /\ \A y \in T : Logs!Min(T) <= y
  BY LeastExists DEF Logs!Min

-----------------------------------------------------------------------------
(* LogConfig.                                                                *)

Levels == {1, Logs!Off} \cup {d.level : d \in Defs}
Formats == {None} \cup {d.fmt : d \in Defs}
Appenders == SUBSET UNION {d.apps : d \in Defs}
LoggerRecord == [level : Levels, fmt : Formats, apps : Appenders]
LogSteps == {"idle", "define", "clear", "append", "remove", "store"}

LogType ==
    /\ m_val \in Logs!Values /\ loggers \in [Names -> LoggerRecord]
    /\ pc \in [Threads -> LogSteps]
    /\ new \in [Threads -> Logs!Values] /\ old \in [Threads -> Logs!Values]
    /\ todo \in [Threads -> SUBSET Names]
    /\ adding \in [Threads -> Appenders]

\* Level and formatter of logger n are those of definition d.
Leveled(n, d) == loggers[n].level = d.level /\ d.fmt \in {None, loggers[n].fmt}

\* Logger n is as the value v says.
Follows(n, v) ==
    IF v[n] # None
    THEN Leveled(n, v[n]) /\ loggers[n].apps = v[n].apps
    ELSE /\ loggers[n].apps = {}
         /\ loggers[n].level = Logs!Off \/ (loggers[n].level = 1 /\ loggers[n].fmt = None)

\* How far the listener has come: the definitions that it has finished hold, the
\* others are as before; the current one is the first of those that are left.
Progress(t, n) ==
    /\ pc[t] \in {"define", "clear", "append"} =>
         IF n \in Logs!Defined(new[t]) \ todo[t] THEN Follows(n, new[t])
         ELSE (pc[t] = "define" \/ n # Logs!Min(todo[t])) => Follows(n, old[t])
    /\ pc[t] \in {"clear", "append"} /\ n = Logs!Min(todo[t]) => Leveled(n, new[t][n])
    /\ pc[t] = "append" /\ n = Logs!Min(todo[t]) =>
         loggers[n].apps \cup adding[t] = new[t][n].apps
    /\ pc[t] = "remove" /\ n \notin todo[t] => Follows(n, new[t])
    /\ pc[t] = "store" => Follows(n, new[t])

\* What the place in setValue says of its locals.
LogLocal(t) ==
    /\ pc[t] \in {"define", "clear", "append"} => todo[t] \subseteq Logs!Defined(new[t])
    /\ pc[t] \in {"clear", "append"} => todo[t] # {}
    /\ pc[t] = "remove" => todo[t] \cap Logs!Defined(new[t]) = {}

LogInv ==
    /\ LogType
    /\ \A t \in Threads : LogLocal(t)
    /\ ~torn =>
         /\ \A t, u \in Threads : pc[t] # "idle" /\ pc[u] # "idle" => t = u
         /\ \A t \in Threads : pc[t] # "idle" => old[t] = m_val
         /\ \A t \in Threads, n \in Names : Progress(t, n)
         /\ (\A t \in Threads : pc[t] = "idle") => \A n \in Names : Follows(n, m_val)

\* At first no logger is defined.
LEMMA LogInit == Logs!Init => LogInv
<1> SUFFICES ASSUME Logs!Init PROVE LogInv
    OBVIOUS
<1>1. LogType
    BY DEF Logs!Init, LogType, LogSteps, LoggerRecord, Levels, Formats, Appenders,
           Logs!NoValue, Logs!Values
<1>2. \A t \in Threads : LogLocal(t)
    BY DEF Logs!Init, LogLocal
<1>3. \A t \in Threads, n \in Names : Progress(t, n)
    BY DEF Logs!Init, Progress
<1>4. \A n \in Names : Follows(n, m_val)
    BY DEF Logs!Init, Follows, Logs!NoValue
<1> QED
    BY <1>1, <1>2, <1>3, <1>4 DEF LogInv, Logs!Init


\* A step of one thread, as the invariant sees it: the others are where they were, and
\* what overlapped stays so.
LogMoves(t) ==
    /\ \A u \in Threads \ {t} :
         /\ pc'[u] = pc[u] /\ new'[u] = new[u] /\ old'[u] = old[u]
         /\ todo'[u] = todo[u] /\ adding'[u] = adding[u]
    /\ torn => torn'

\* A thread inside setValue that goes on keeps the invariant if its own part holds: while
\* calls do not overlap, the others are idle.
LEMMA LogGoesOn ==
    ASSUME LogInv, NEW t \in Threads, LogMoves(t), LogType', LogLocal(t)',
           pc[t] # "idle", pc'[t] # "idle", UNCHANGED m_val, old'[t] = old[t],
           ~torn' => \A n \in Names : Progress(t, n)'
    PROVE  LogInv'
<1>1. \A u \in Threads : LogLocal(u)'
  <2> SUFFICES ASSUME NEW u \in Threads, u # t PROVE LogLocal(u)'
    OBVIOUS
  <2> QED
    BY DEF LogInv, LogMoves, LogLocal
<1>2. ASSUME ~torn' PROVE /\ \A u \in Threads \ {t} : pc[u] = "idle" /\ pc'[u] = "idle"
                          /\ old[t] = m_val
    BY <1>2 DEF LogInv, LogMoves
<1>3. ASSUME ~torn', NEW u \in Threads, NEW n \in Names PROVE Progress(u, n)'
  <2>1. CASE u = t
    BY <1>3, <2>1
  <2>2. CASE u # t
    <3>1. pc'[u] = "idle"
        BY <1>2, <1>3, <2>2
    <3> QED
        BY <3>1 DEF Progress
  <2> QED
    BY <2>1, <2>2
<1>4. ASSUME ~torn' PROVE /\ \A u, v \in Threads : pc'[u] # "idle" /\ pc'[v] # "idle" => u = v
                          /\ \A u \in Threads : pc'[u] # "idle" => old'[u] = m_val'
                          /\ ~ \A u \in Threads : pc'[u] = "idle"
    BY <1>2, <1>4
<1> QED
    BY <1>1, <1>3, <1>4 DEF LogInv

\* What a thread inside setValue knows.
LEMMA LogKnows ==
    ASSUME LogInv, NEW t \in Threads
    PROVE  /\ pc[t] \in LogSteps /\ new[t] \in Logs!Values /\ old[t] \in Logs!Values
           /\ todo[t] \subseteq Names /\ adding[t] \in Appenders /\ LogLocal(t)
           /\ ~torn => \A n \in Names : Progress(t, n)
           /\ todo[t] # {} => Logs!Min(todo[t]) \in todo[t]
<1>1. todo[t] \subseteq Names
    BY DEF LogInv, LogType
<1>2. todo[t] # {} => Logs!Min(todo[t]) \in todo[t]
    BY <1>1, LibraryConstants, MinFact
<1> QED
    BY <1>1, <1>2 DEF LogInv, LogType

\* A definition of a value is one of Defs.
LEMMA DefinedFact ==
    ASSUME NEW v \in Logs!Values, NEW n \in Logs!Defined(v)
    PROVE  n \in Names /\ v[n] \in Defs /\ v[n] # None /\ v[n].level \in Levels
           /\ v[n].fmt \in Formats /\ v[n].apps \in Appenders
    BY DEF Logs!Values, Logs!Defined, Levels, Formats, Appenders

\* The listener takes a definition: level and formatter become the new ones.
LEMMA DefineKeeps ==
    ASSUME LogInv, NEW t \in Threads, Logs!Define(t)
    PROVE  LogInv'
<1> PICK n : n = Logs!Min(todo[t])
    OBVIOUS
<1>0. pc[t] = "define" /\ todo[t] # {} /\ UNCHANGED <<m_val, new, old, todo, adding, sets, torn>>
    BY DEF Logs!Define
<1>1. n \in todo[t] /\ n \in Logs!Defined(new[t]) /\ n \in Names /\ new[t] \in Logs!Values
    BY <1>0, LogKnows DEF LogLocal
<1>2. CASE new[t][n] = old[t][n]
  <2>1. UNCHANGED <<loggers, pc>>
    BY <1>2 DEF Logs!Define
  <2> QED
    BY <1>0, <2>1 DEF LogInv, LogType, LogLocal, Progress, Follows, Leveled
<1>3. CASE new[t][n] # old[t][n]
  <2>1. loggers' = [loggers EXCEPT ![n].level = new[t][n].level,
                                   ![n].fmt = IF new[t][n].fmt = None THEN @ ELSE new[t][n].fmt]
        /\ pc' = [pc EXCEPT ![t] = "clear"]
    BY <1>3 DEF Logs!Define, Logs!Goto
  <2>2. new[t][n].level \in Levels /\ new[t][n].fmt \in Formats
    BY <1>1, DefinedFact
  <2>3. /\ loggers' \in [Names -> LoggerRecord]
        /\ \A m \in Names \ {n} : loggers'[m] = loggers[m]
        /\ Leveled(n, new[t][n])'
    <3> PICK d : d = new[t][n]
        OBVIOUS
    <3>1. loggers \in [Names -> LoggerRecord] /\ loggers[n] \in LoggerRecord
        BY <1>1 DEF LogInv, LogType
    <3>2. /\ \A m \in Names \ {n} : loggers'[m] = loggers[m]
          /\ loggers'[n] = [[loggers[n] EXCEPT !.level = d.level] EXCEPT
                              !.fmt = IF d.fmt = None THEN @ ELSE d.fmt]
          /\ loggers' = [m \in Names |-> loggers'[m]]
        BY <1>1, <2>1, <3>1
    <3>3. loggers'[n] \in LoggerRecord /\ loggers'[n].level = d.level
          /\ loggers'[n].fmt = IF d.fmt = None THEN loggers[n].fmt ELSE d.fmt
        BY <2>2, <3>1, <3>2 DEF LoggerRecord
    <3> QED
        BY <1>0, <1>1, <3>1, <3>2, <3>3 DEF Leveled
  <2>4. pc' \in [Threads -> LogSteps] /\ pc'[t] = "clear" /\ \A u \in Threads \ {t} : pc'[u] = pc[u]
    BY <2>1 DEF LogInv, LogType, LogSteps
  <2>5. LogType'
    BY <1>0, <2>3, <2>4 DEF LogInv, LogType
  <2>6. ASSUME ~torn', NEW m \in Names PROVE Progress(t, m)'
    <3>1. Progress(t, m)
        BY <1>0, <2>6, LogKnows
    <3>2. m # n => (Follows(m, new[t])' <=> Follows(m, new[t])) /\ (Follows(m, old[t])' <=> Follows(m, old[t]))
        BY <1>0, <2>3 DEF Follows, Leveled
    <3> QED
        BY <1>0, <1>1, <2>3, <2>4, <3>1, <3>2 DEF Progress
  <2> QED
    BY <1>0, <1>1, <2>4, <2>5, <2>6, LogKnows, LogGoesOn DEF LogMoves, LogLocal
<1> QED
    BY <1>2, <1>3


\* The appenders of logger n change: the other loggers stay as they are, and so do its
\* level and formatter.
LEMMA AppendersChange ==
    ASSUME LogType, NEW n \in Names, NEW apps \in Appenders,
           loggers' = [loggers EXCEPT ![n].apps = apps]
    PROVE  /\ loggers' \in [Names -> LoggerRecord] /\ loggers'[n].apps = apps
           /\ \A m \in Names \ {n} : loggers'[m] = loggers[m]
           /\ \A m \in Names : loggers'[m].level = loggers[m].level /\ loggers'[m].fmt = loggers[m].fmt
<1>1. loggers \in [Names -> LoggerRecord] /\ loggers[n] \in LoggerRecord
    BY DEF LogType
<1>2. /\ \A m \in Names \ {n} : loggers'[m] = loggers[m]
      /\ loggers'[n] = [loggers[n] EXCEPT !.apps = apps]
      /\ loggers' = [m \in Names |-> loggers'[m]]
    BY <1>1
<1>3. /\ loggers'[n] \in LoggerRecord /\ loggers'[n].apps = apps
      /\ loggers'[n].level = loggers[n].level /\ loggers'[n].fmt = loggers[n].fmt
    BY <1>1, <1>2 DEF LoggerRecord
<1> QED
    BY <1>1, <1>2, <1>3

\* The listener takes the old appenders away.
LEMMA ClearKeeps ==
    ASSUME LogInv, NEW t \in Threads, Logs!ClearAppenders(t)
    PROVE  LogInv'
<1> PICK n : n = Logs!Min(todo[t])
    OBVIOUS
<1>0. /\ pc[t] = "clear" /\ pc' = [pc EXCEPT ![t] = "append"]
      /\ loggers' = [loggers EXCEPT ![n].apps = {}]
      /\ adding' = [adding EXCEPT ![t] = new[t][n].apps]
      /\ UNCHANGED <<m_val, new, old, todo, sets, torn, crashed>>
    BY DEF Logs!ClearAppenders, Logs!Goto
<1>1. n \in todo[t] /\ n \in Logs!Defined(new[t]) /\ n \in Names /\ new[t] \in Logs!Values
    BY <1>0, LogKnows DEF LogLocal
<1>2. new[t][n].apps \in Appenders /\ {} \in Appenders
    BY <1>1, DefinedFact DEF Appenders
<1>3. /\ loggers' \in [Names -> LoggerRecord] /\ loggers'[n].apps = {}
      /\ \A m \in Names \ {n} : loggers'[m] = loggers[m]
      /\ \A m \in Names : loggers'[m].level = loggers[m].level /\ loggers'[m].fmt = loggers[m].fmt
  <2>1. LogType
    BY DEF LogInv
  <2>2. loggers' = [loggers EXCEPT ![n].apps = {}]
    BY <1>0
  <2> QED
    BY <1>1, <1>2, <2>1, <2>2, AppendersChange
<1>4. pc' \in [Threads -> LogSteps] /\ pc'[t] = "append" /\ \A u \in Threads \ {t} : pc'[u] = pc[u]
    BY <1>0 DEF LogInv, LogType, LogSteps
<1>5. /\ adding' \in [Threads -> Appenders] /\ adding'[t] = new[t][n].apps
      /\ \A u \in Threads \ {t} : adding'[u] = adding[u]
    BY <1>0, <1>2 DEF LogInv, LogType
<1>6. LogType'
    BY <1>0, <1>3, <1>4, <1>5 DEF LogInv, LogType
<1>7. ASSUME ~torn', NEW m \in Names PROVE Progress(t, m)'
  <2>1. Progress(t, m)
    BY <1>0, <1>7, LogKnows
  <2>2. m # n => (Follows(m, new[t])' <=> Follows(m, new[t])) /\ (Follows(m, old[t])' <=> Follows(m, old[t]))
    BY <1>0, <1>3 DEF Follows, Leveled
  <2>3. Leveled(m, new[t][m])' <=> Leveled(m, new[t][m])
    BY <1>0, <1>3 DEF Leveled
  <2> QED
    BY <1>0, <1>1, <1>3, <1>4, <1>5, <2>1, <2>2, <2>3 DEF Progress
<1> QED
    BY <1>0, <1>1, <1>4, <1>5, <1>6, <1>7, LogKnows, LogGoesOn DEF LogMoves, LogLocal

\* The listener adds an appender of the current definition.
LEMMA AddKeeps ==
    ASSUME LogInv, NEW t \in Threads, Logs!AddAppender(t)
    PROVE  LogInv'
<1> PICK n : n = Logs!Min(todo[t])
    OBVIOUS
<1>0. /\ pc[t] = "append" /\ UNCHANGED <<m_val, pc, new, old, todo, sets, torn, crashed>>
      /\ \E a \in adding[t] :
           /\ loggers' = [loggers EXCEPT ![n].apps = @ \cup {a}]
           /\ adding' = [adding EXCEPT ![t] = @ \ {a}]
    BY DEF Logs!AddAppender
<1> PICK a \in adding[t] : /\ loggers' = [loggers EXCEPT ![n].apps = @ \cup {a}]
                           /\ adding' = [adding EXCEPT ![t] = @ \ {a}]
    BY <1>0
<1>1. n \in todo[t] /\ n \in Logs!Defined(new[t]) /\ n \in Names /\ adding[t] \in Appenders
    BY <1>0, LogKnows DEF LogLocal
<1> PICK apps : apps = loggers[n].apps \cup {a}
    OBVIOUS
<1>2. apps \in Appenders /\ adding[t] \ {a} \in Appenders
  <2>1. loggers[n].apps \in Appenders
    BY <1>1 DEF LogInv, LogType, LoggerRecord
  <2> QED
    BY <1>1, <2>1 DEF Appenders
<1>3. /\ loggers' \in [Names -> LoggerRecord] /\ loggers'[n].apps = loggers[n].apps \cup {a}
      /\ \A m \in Names \ {n} : loggers'[m] = loggers[m]
      /\ \A m \in Names : loggers'[m].level = loggers[m].level /\ loggers'[m].fmt = loggers[m].fmt
  <2>1. loggers' = [loggers EXCEPT ![n].apps = apps]
    BY <1>1 DEF LogInv, LogType
  <2> QED
    BY <1>1, <1>2, <2>1, AppendersChange DEF LogInv
<1>4. /\ adding' \in [Threads -> Appenders] /\ adding'[t] = adding[t] \ {a}
      /\ \A u \in Threads \ {t} : adding'[u] = adding[u]
    BY <1>0, <1>2 DEF LogInv, LogType
<1>5. LogType'
    BY <1>0, <1>3, <1>4 DEF LogInv, LogType
<1>6. ASSUME ~torn', NEW m \in Names PROVE Progress(t, m)'
  <2>1. Progress(t, m)
    BY <1>0, <1>6, LogKnows
  <2>2. m # n => (Follows(m, new[t])' <=> Follows(m, new[t])) /\ (Follows(m, old[t])' <=> Follows(m, old[t]))
    BY <1>0, <1>3 DEF Follows, Leveled
  <2>3. Leveled(m, new[t][m])' <=> Leveled(m, new[t][m])
    BY <1>0, <1>3 DEF Leveled
  <2>4. loggers'[n].apps \cup adding'[t] = loggers[n].apps \cup adding[t]
    BY <1>3, <1>4
  <2> QED
    BY <1>0, <1>1, <2>1, <2>2, <2>3, <2>4 DEF Progress
<1> QED
    BY <1>0, <1>1, <1>4, <1>5, <1>6, LogKnows, LogGoesOn DEF LogMoves, LogLocal

\* A definition is finished.
LEMMA NextKeeps ==
    ASSUME LogInv, NEW t \in Threads, Logs!NextDefinition(t)
    PROVE  LogInv'
<1> PICK n : n = Logs!Min(todo[t])
    OBVIOUS
<1>0. /\ pc[t] = "append" /\ adding[t] = {} /\ pc' = [pc EXCEPT ![t] = "define"]
      /\ todo' = [todo EXCEPT ![t] = @ \ {n}]
      /\ UNCHANGED <<m_val, loggers, new, old, adding, sets, torn, crashed>>
    BY DEF Logs!NextDefinition, Logs!Goto, LogInv, LogType
<1>1. /\ n \in todo[t] /\ n \in Logs!Defined(new[t]) /\ n \in Names /\ new[t] \in Logs!Values
      /\ todo[t] \subseteq Logs!Defined(new[t])
    BY <1>0, LogKnows DEF LogLocal
<1>2. pc' \in [Threads -> LogSteps] /\ pc'[t] = "define" /\ \A u \in Threads \ {t} : pc'[u] = pc[u]
    BY <1>0 DEF LogInv, LogType, LogSteps
<1>3. /\ todo' \in [Threads -> SUBSET Names] /\ todo'[t] = todo[t] \ {n}
      /\ \A u \in Threads \ {t} : todo'[u] = todo[u]
    BY <1>0 DEF LogInv, LogType
<1>4. LogType'
    BY <1>0, <1>2, <1>3 DEF LogInv, LogType
<1>5. ASSUME ~torn', NEW m \in Names PROVE Progress(t, m)'
  <2>1. Progress(t, m)
    BY <1>0, <1>5, LogKnows
  <2>2. (Follows(m, new[t])' <=> Follows(m, new[t])) /\ (Follows(m, old[t])' <=> Follows(m, old[t]))
    BY <1>0 DEF Follows, Leveled
  <2>3. m = n => Follows(m, new[t])
    BY <1>0, <1>1, <2>1, DefinedFact DEF Progress, Follows
  <2> QED
    BY <1>0, <1>1, <1>2, <1>3, <2>1, <2>2, <2>3 DEF Progress, Logs!Defined
<1> QED
    BY <1>0, <1>1, <1>2, <1>3, <1>4, <1>5, LogGoesOn DEF LogMoves, LogLocal


\* The listener turns to the loggers that are no longer defined.
LEMMA EndsKeeps ==
    ASSUME LogInv, NEW t \in Threads, Logs!DefineEnds(t)
    PROVE  LogInv'
<1>0. /\ pc[t] = "define" /\ todo[t] = {} /\ pc' = [pc EXCEPT ![t] = "remove"]
      /\ todo' = [todo EXCEPT ![t] = Logs!Defined(old[t]) \ Logs!Defined(new[t])]
      /\ UNCHANGED <<m_val, loggers, new, old, adding, sets, torn, crashed>>
    BY DEF Logs!DefineEnds, Logs!Goto
<1>1. pc' \in [Threads -> LogSteps] /\ pc'[t] = "remove" /\ \A u \in Threads \ {t} : pc'[u] = pc[u]
    BY <1>0 DEF LogInv, LogType, LogSteps
<1>2. /\ todo' \in [Threads -> SUBSET Names]
      /\ todo'[t] = Logs!Defined(old[t]) \ Logs!Defined(new[t])
      /\ \A u \in Threads \ {t} : todo'[u] = todo[u]
    BY <1>0 DEF LogInv, LogType, Logs!Defined
<1>3. LogType'
    BY <1>0, <1>1, <1>2 DEF LogInv, LogType
<1>4. ASSUME ~torn', NEW m \in Names PROVE Progress(t, m)'
  <2>1. Progress(t, m)
    BY <1>0, <1>4, LogKnows
  <2>2. (Follows(m, new[t])' <=> Follows(m, new[t]))
    BY <1>0 DEF Follows, Leveled
  <2>3. CASE m \in Logs!Defined(new[t])
    BY <1>0, <1>1, <2>1, <2>2, <2>3 DEF Progress
  <2>4. CASE m \notin Logs!Defined(new[t]) \cup Logs!Defined(old[t])
    <3>1. Follows(m, old[t]) /\ old[t][m] = None /\ new[t][m] = None
        BY <1>0, <2>1, <2>4 DEF Progress, Logs!Defined
    <3>2. Follows(m, new[t])
        BY <3>1 DEF Follows
    <3> QED
        BY <1>1, <2>2, <3>2 DEF Progress
  <2>5. CASE m \in Logs!Defined(old[t]) \ Logs!Defined(new[t])
    BY <1>1, <1>2, <2>5 DEF Progress
  <2> QED
    BY <2>3, <2>4, <2>5
<1>5. LogLocal(t)'
    BY <1>0, <1>1, <1>2 DEF LogLocal
<1> QED
    BY <1>0, <1>1, <1>2, <1>3, <1>4, <1>5, LogGoesOn DEF LogMoves

\* A logger that is no longer defined is switched off, or there is none left.
LEMMA RemoveKeeps ==
    ASSUME LogInv, NEW t \in Threads, Logs!Remove(t)
    PROVE  LogInv'
<1>0. /\ pc[t] = "remove" /\ UNCHANGED <<m_val, new, old, adding, sets, torn, crashed>>
    BY DEF Logs!Remove
<1>1. CASE todo[t] = {}
  <2>1. pc' = [pc EXCEPT ![t] = "store"] /\ UNCHANGED <<loggers, todo>>
    BY <1>1 DEF Logs!Remove, Logs!Goto
  <2>2. pc' \in [Threads -> LogSteps] /\ pc'[t] = "store" /\ \A u \in Threads \ {t} : pc'[u] = pc[u]
    BY <2>1 DEF LogInv, LogType, LogSteps
  <2>3. LogType'
    BY <1>0, <2>1, <2>2 DEF LogInv, LogType
  <2>4. ASSUME ~torn', NEW m \in Names PROVE Progress(t, m)'
    <3>1. Progress(t, m)
        BY <1>0, <2>4, LogKnows
    <3>2. Follows(m, new[t])' <=> Follows(m, new[t])
        BY <1>0, <2>1 DEF Follows, Leveled
    <3> QED
        BY <1>0, <1>1, <2>2, <3>1, <3>2 DEF Progress
  <2>5. LogLocal(t)'
    BY <2>2 DEF LogLocal
  <2> QED
    BY <1>0, <2>1, <2>2, <2>3, <2>4, <2>5, LogGoesOn DEF LogMoves
<1>2. CASE todo[t] # {}
  <2> PICK n : n = Logs!Min(todo[t])
    OBVIOUS
  <2>1. /\ loggers' = [loggers EXCEPT ![n].level = Logs!Off, ![n].apps = {}]
        /\ todo' = [todo EXCEPT ![t] = @ \ {n}] /\ UNCHANGED pc
    BY <1>2 DEF Logs!Remove
  <2>2. /\ n \in todo[t] /\ n \in Names /\ new[t] \in Logs!Values
        /\ todo[t] \cap Logs!Defined(new[t]) = {}
    BY <1>0, <1>2, LogKnows DEF LogLocal
  <2>3. new[t][n] = None
    BY <2>2 DEF Logs!Defined
  <2>4. /\ loggers' \in [Names -> LoggerRecord]
        /\ loggers'[n].level = Logs!Off /\ loggers'[n].apps = {}
        /\ \A m \in Names \ {n} : loggers'[m] = loggers[m]
    <3>1. loggers \in [Names -> LoggerRecord] /\ loggers[n] \in LoggerRecord
        BY <2>2 DEF LogInv, LogType
    <3>2. /\ \A m \in Names \ {n} : loggers'[m] = loggers[m]
          /\ loggers'[n] = [[loggers[n] EXCEPT !.level = Logs!Off] EXCEPT !.apps = {}]
          /\ loggers' = [m \in Names |-> loggers'[m]]
        BY <2>1, <2>2, <3>1
    <3>3. Logs!Off \in Levels /\ {} \in Appenders
        BY DEF Levels, Appenders
    <3>4. loggers'[n] \in LoggerRecord /\ loggers'[n].level = Logs!Off /\ loggers'[n].apps = {}
        BY <3>1, <3>2, <3>3 DEF LoggerRecord
    <3> QED
        BY <2>2, <3>1, <3>2, <3>4
  <2>5. /\ todo' \in [Threads -> SUBSET Names] /\ todo'[t] = todo[t] \ {n}
        /\ \A u \in Threads \ {t} : todo'[u] = todo[u]
    BY <2>1 DEF LogInv, LogType
  <2>6. LogType'
    BY <1>0, <2>1, <2>4, <2>5 DEF LogInv, LogType
  <2>7. ASSUME ~torn', NEW m \in Names PROVE Progress(t, m)'
    <3>1. Progress(t, m)
        BY <1>0, <2>7, LogKnows
    <3>2. m # n => (Follows(m, new[t])' <=> Follows(m, new[t]))
        BY <1>0, <2>4 DEF Follows, Leveled
    <3>3. Follows(n, new[t])'
        BY <1>0, <2>3, <2>4 DEF Follows
    <3> QED
        BY <1>0, <2>1, <2>5, <3>1, <3>2, <3>3 DEF Progress
  <2>8. LogLocal(t)'
    BY <1>0, <2>1, <2>2, <2>5 DEF LogLocal
  <2> QED
    BY <1>0, <2>1, <2>5, <2>6, <2>7, <2>8, LogGoesOn DEF LogMoves
<1> QED
    BY <1>1, <1>2

\* The value is stored, and the loggers follow it already.
LEMMA StoreKeeps ==
    ASSUME LogInv, NEW t \in Threads, Logs!Store(t)
    PROVE  LogInv'
<1>0. /\ pc[t] = "store" /\ m_val' = new[t] /\ pc' = [pc EXCEPT ![t] = "idle"]
      /\ new' = [new EXCEPT ![t] = Logs!NoValue] /\ old' = [old EXCEPT ![t] = Logs!NoValue]
      /\ UNCHANGED <<loggers, todo, adding, sets, torn, crashed>>
    BY DEF Logs!Store, Logs!Goto
<1>1. Logs!NoValue \in Logs!Values
    BY DEF Logs!NoValue, Logs!Values
<1>2. pc' \in [Threads -> LogSteps] /\ pc'[t] = "idle" /\ \A u \in Threads \ {t} : pc'[u] = pc[u]
    BY <1>0 DEF LogInv, LogType, LogSteps
<1>3. /\ new' \in [Threads -> Logs!Values] /\ old' \in [Threads -> Logs!Values]
      /\ \A u \in Threads \ {t} : new'[u] = new[u] /\ old'[u] = old[u]
    BY <1>0, <1>1 DEF LogInv, LogType
<1>4. LogType'
    BY <1>0, <1>2, <1>3, LogKnows DEF LogInv, LogType
<1>5. \A u \in Threads : LogLocal(u)'
    BY <1>0, <1>2, <1>3 DEF LogInv, LogLocal
<1>6. ASSUME ~torn' PROVE \A u \in Threads : pc'[u] = "idle"
    BY <1>0, <1>2, <1>6 DEF LogInv
<1>7. ASSUME ~torn', NEW n \in Names PROVE Follows(n, m_val)'
  <2>1. Progress(t, n)
    BY <1>0, <1>7, LogKnows
  <2>2. Follows(n, new[t])
    BY <1>0, <2>1 DEF Progress
  <2> QED
    BY <1>0, <2>2 DEF Follows, Leveled
<1>8. ASSUME ~torn', NEW u \in Threads, NEW n \in Names PROVE Progress(u, n)'
    BY <1>6, <1>8 DEF Progress
<1> QED
    BY <1>4, <1>5, <1>6, <1>7, <1>8 DEF LogInv

\* setValue begins: an overlap with another call is noted.
LEMMA SetKeeps ==
    ASSUME LogInv, NEW t \in Threads, NEW v \in Logs!Values, Logs!SetValue(t, v)
    PROVE  LogInv'
<1>0. pc[t] = "idle" /\ UNCHANGED <<m_val, loggers, adding, crashed>>
    BY DEF Logs!SetValue
<1>1. CASE v = m_val
  <2>1. UNCHANGED <<pc, new, old, todo, torn>>
    BY <1>1 DEF Logs!SetValue
  <2> QED
    BY <1>0, <2>1 DEF LogInv, LogType, LogLocal, Progress, Follows, Leveled
<1>2. CASE v # m_val
  <2>1. /\ new' = [new EXCEPT ![t] = v] /\ old' = [old EXCEPT ![t] = m_val]
        /\ todo' = [todo EXCEPT ![t] = Logs!Defined(v)] /\ pc' = [pc EXCEPT ![t] = "define"]
        /\ torn' = (torn \/ Logs!Busy # {})
    BY <1>2 DEF Logs!SetValue, Logs!Goto
  <2>2. pc' \in [Threads -> LogSteps] /\ pc'[t] = "define" /\ \A u \in Threads \ {t} : pc'[u] = pc[u]
    BY <2>1 DEF LogInv, LogType, LogSteps
  <2>3. /\ new' \in [Threads -> Logs!Values] /\ old' \in [Threads -> Logs!Values]
        /\ new'[t] = v /\ old'[t] = m_val
        /\ \A u \in Threads \ {t} : new'[u] = new[u] /\ old'[u] = old[u]
    BY <2>1 DEF LogInv, LogType
  <2>4. /\ todo' \in [Threads -> SUBSET Names] /\ todo'[t] = Logs!Defined(v)
        /\ \A u \in Threads \ {t} : todo'[u] = todo[u]
    BY <2>1 DEF LogInv, LogType, Logs!Defined
  <2>5. LogType'
    BY <1>0, <2>2, <2>3, <2>4 DEF LogInv, LogType
  <2>6. \A u \in Threads : LogLocal(u)'
    <3>1. LogLocal(t)'
        BY <2>2, <2>3, <2>4 DEF LogLocal
    <3>2. ASSUME NEW u \in Threads \ {t} PROVE LogLocal(u)'
        BY <1>0, <2>2, <2>3, <2>4 DEF LogInv, LogLocal
    <3> QED
        BY <3>1, <3>2
  <2>7. ASSUME ~torn' PROVE ~torn /\ \A u \in Threads : pc[u] = "idle"
    BY <2>1, <2>7 DEF Logs!Busy
  <2>8. ASSUME ~torn', NEW n \in Names PROVE Follows(n, old[t])'
    <3>1. Follows(n, m_val)
        BY <2>7, <2>8 DEF LogInv
    <3> QED
        BY <1>0, <2>3, <3>1 DEF Follows, Leveled
  <2>9. ASSUME ~torn', NEW u \in Threads, NEW n \in Names PROVE Progress(u, n)'
    <3>1. CASE u # t
      <4>1. pc'[u] = "idle"
        BY <2>2, <2>7, <2>9, <3>1
      <4> QED
        BY <4>1 DEF Progress
    <3>2. CASE u = t
        BY <2>2, <2>3, <2>4, <2>8, <2>9, <3>2 DEF Progress
    <3> QED
        BY <3>1, <3>2
  <2> QED
    BY <1>0, <2>2, <2>3, <2>5, <2>6, <2>7, <2>9 DEF LogInv
<1> QED
    BY <1>1, <1>2

\* Every step of setValue and of its listener keeps the invariant.
LEMMA LogNext == LogInv /\ Logs!Next => LogInv'
<1> SUFFICES ASSUME LogInv, Logs!Next PROVE LogInv'
    OBVIOUS
<1>1. PICK t \in Threads :
         \/ \E v \in Logs!Values : Logs!SetValue(t, v)
         \/ Logs!Define(t) \/ Logs!ClearAppenders(t) \/ Logs!AddAppender(t)
         \/ Logs!NextDefinition(t) \/ Logs!DefineEnds(t) \/ Logs!Remove(t) \/ Logs!Store(t)
    BY DEF Logs!Next
<1> QED
    BY <1>1, SetKeeps, DefineKeeps, ClearKeeps, AddKeeps, NextKeeps, EndsKeeps, RemoveKeeps,
       StoreKeeps

\* The loggers are as the stored configuration says whenever no setValue is under way and
\* none has overlapped another, for any threads, loggers and definitions.
THEOREM LoggersCorrect == Spec => []LoggersFollow
<1>1. Init => LogInv
    BY LogInit DEF Init
<1>2. LogInv /\ [Next]_<<part, arrayVars, dispatchVars, logVars>> => LogInv'
  <2>1. LogInv /\ UNCHANGED logVars => LogInv'
    BY DEF logVars, LogInv, LogType, LogLocal, Progress, Follows, Leveled
  <2> QED
    BY <2>1, LogNext DEF Next
<1>3. LogInv => LoggersFollow
    BY DEF LogInv, LoggersFollow, Logs!LoggersFollow, Logs!Busy, Follows, Leveled
<1> QED
    BY <1>1, <1>2, <1>3, PTL DEF Spec


-----------------------------------------------------------------------------
(* ServletDispatch.                                                          *)

Entry == Patterns \X Servlets
Stamp == [slt : Servlets \cup {None}, at : Nat]

\* The list s agrees with the calls a that are not undone, at time t: each entry has the
\* servlet of the last call for its pattern, every such pattern has an entry, and the
\* entries are in the order of the calls (so no pattern has two).
Tidy(s, a, t) ==
    /\ s \in Seq(Entry) /\ a \in [Patterns -> Stamp] /\ t \in Nat
    /\ \A i \in 1 .. Len(s) :
         a[s[i][1]].slt = s[i][2] /\ 1 <= a[s[i][1]].at /\ a[s[i][1]].at <= t
    /\ \A i, j \in 1 .. Len(s) : i < j => a[s[i][1]].at < a[s[j][1]].at
    /\ \A g \in Patterns : a[g] # Dispatch!NotAdded => \E i \in 1 .. Len(s) : s[i][1] = g

GlobInv == Tidy(m_globs, added, now)

\* An entry is a pair of a pattern and a servlet.
LEMMA EntryFact ==
    ASSUME NEW s \in Seq(Entry), NEW i \in 1 .. Len(s)
    PROVE  s[i] \in Entry /\ s[i][1] \in Patterns /\ s[i][2] \in Servlets
    BY DEF Entry

\* Erasing from a list at k.
LEMMA RemoveFact ==
    ASSUME NEW s \in Seq(Entry), NEW k \in 1 .. Len(s), NEW r, r = Dispatch!RemoveAt(s, k)
    PROVE  /\ r \in Seq(Entry) /\ Len(r) = Len(s) - 1
           /\ \A j \in 1 .. (Len(s) - 1) : r[j] = s[IF j < k THEN j ELSE j + 1]
<1> DEFINE n == Len(s)
           a == SubSeq(s, 1, k - 1)
           b == SubSeq(s, k + 1, n)
<1>1. n \in Nat /\ k \in 1 .. n /\ k \in Int
    OBVIOUS
<1>2. /\ a \in Seq(Entry) /\ Len(a) = k - 1
      /\ \A j \in 1 .. (k - 1) : a[j] = s[j]
    BY <1>1
<1>3. /\ b \in Seq(Entry) /\ Len(b) = n - k
      /\ \A j \in 1 .. (n - k) : b[j] = s[k + j]
    BY <1>1
<1>4. r = a \o b
    BY DEF Dispatch!RemoveAt
<1> HIDE DEF a, b, n
<1>5. /\ r \in Seq(Entry) /\ Len(r) = n - 1
      /\ \A j \in 1 .. (n - 1) : r[j] = IF j <= k - 1 THEN a[j] ELSE b[j - (k - 1)]
  <2>1. /\ a \o b \in Seq(Entry) /\ Len(a \o b) = Len(a) + Len(b)
        /\ \A j \in 1 .. (Len(a) + Len(b)) :
              (a \o b)[j] = IF j <= Len(a) THEN a[j] ELSE b[j - Len(a)]
    BY <1>2, <1>3, ConcatProperties
  <2>2. Len(a) + Len(b) = n - 1
    BY <1>1, <1>2, <1>3
  <2> QED
    BY <1>2, <1>4, <2>1, <2>2
<1>6. ASSUME NEW j \in 1 .. (n - 1) PROVE r[j] = s[IF j < k THEN j ELSE j + 1]
  <2>1. CASE j < k
    <3>1. j \in 1 .. (k - 1) /\ j <= k - 1
        BY <1>1, <2>1
    <3> QED
        BY <1>2, <1>5, <2>1, <3>1
  <2>2. CASE ~(j < k)
    <3>1. j - (k - 1) \in 1 .. (n - k) /\ k + (j - (k - 1)) = j + 1 /\ ~(j <= k - 1)
        BY <1>1, <2>2
    <3> QED
        BY <1>3, <1>5, <2>2, <3>1
  <2> QED
    BY <2>1, <2>2
<1> QED
    BY <1>5, <1>6 DEF n

\* The entry of pattern g is erased when its call is undone.
LEMMA EraseTidy ==
    ASSUME GlobInv, NEW g \in Patterns
    PROVE  Tidy(Dispatch!Erase(g), [added EXCEPT ![g] = Dispatch!NotAdded], now)
<1> PICK s : s = m_globs
    OBVIOUS
<1> PICK r : r = Dispatch!Erase(g)
    OBVIOUS
<1> PICK a : a = [added EXCEPT ![g] = Dispatch!NotAdded]
    OBVIOUS
<1> DEFINE hits == {i \in 1 .. Len(s) : s[i][1] = g}
<1>1. Tidy(s, added, now) /\ s \in Seq(Entry) /\ Len(s) \in Nat
    BY DEF GlobInv, Tidy
<1>2. /\ a \in [Patterns -> Stamp] /\ a[g] = Dispatch!NotAdded /\ a[g].at = 0
      /\ \A h \in Patterns \ {g} : a[h] = added[h]
  <2>1. Dispatch!NotAdded \in Stamp /\ Dispatch!NotAdded.at = 0
    BY DEF Dispatch!NotAdded, Stamp
  <2> QED
    BY <1>1, <2>1 DEF Tidy
<1>3. CASE hits = {}
  <2>1. r = s
    BY <1>3 DEF Dispatch!Erase
  <2>2. \A i \in 1 .. Len(s) : s[i][1] \in Patterns \ {g}
    BY <1>1, <1>3, EntryFact
  <2>3. Tidy(s, a, now)
    BY <1>1, <1>2, <2>2 DEF Tidy
  <2> QED
    BY <2>1, <2>3
<1>4. CASE hits # {}
  <2> PICK k \in hits : TRUE
    BY <1>4
  <2>1. k \in 1 .. Len(s) /\ s[k][1] = g /\ k \in Int
    BY <1>1
  <2>2. \A i \in 1 .. Len(s) : i # k => s[i][1] # g
    <3> SUFFICES ASSUME NEW i \in 1 .. Len(s), i # k, s[i][1] = g PROVE FALSE
        OBVIOUS
    <3>1. i < k \/ k < i
        BY <1>1, <2>1
    <3>2. added[g].at < added[g].at /\ added[g].at \in Nat
        BY <1>1, <2>1, <3>1 DEF Tidy, Stamp
    <3> QED
        BY <3>2
  <2>3. hits = {k}
    BY <2>1, <2>2
  <2>4. Dispatch!Min(hits) = k
    BY <2>1, <2>3 DEF Dispatch!Min
  <2>5. r = Dispatch!RemoveAt(s, k)
    BY <1>4, <2>4 DEF Dispatch!Erase
  <2> DEFINE from(j) == IF j < k THEN j ELSE j + 1
             n == Len(s)
  <2>6. /\ r \in Seq(Entry) /\ Len(r) = n - 1
        /\ \A j \in 1 .. (n - 1) : r[j] = s[from(j)]
    BY <1>1, <2>1, <2>5, RemoveFact
  <2>7. /\ \A j \in 1 .. (n - 1) : from(j) \in 1 .. n /\ from(j) # k
        /\ \A i, j \in 1 .. (n - 1) : i < j => from(i) < from(j)
    BY <1>1, <2>1
  <2>8. \A i \in 1 .. n : i # k => \E j \in 1 .. (n - 1) : from(j) = i
    <3> TAKE i \in 1 .. n
    <3> HAVE i # k
    <3>1. CASE i < k
      <4>1. i \in 1 .. (n - 1) /\ from(i) = i
        BY <1>1, <2>1, <3>1
      <4> QED
        BY <4>1
    <3>2. CASE ~(i < k)
      <4>1. i - 1 \in 1 .. (n - 1) /\ from(i - 1) = i
        BY <1>1, <2>1, <3>2
      <4> QED
        BY <4>1
    <3> QED
        BY <3>1, <3>2
  <2> HIDE DEF from
  <2>9. \A j \in 1 .. (n - 1) : r[j][1] \in Patterns \ {g}
    BY <1>1, <2>2, <2>6, <2>7, EntryFact
  <2>10. \A j \in 1 .. (n - 1) :
           a[r[j][1]].slt = r[j][2] /\ 1 <= a[r[j][1]].at /\ a[r[j][1]].at <= now
    BY <1>1, <1>2, <2>6, <2>7, <2>9 DEF Tidy
  <2>11. \A i, j \in 1 .. (n - 1) : i < j => a[r[i][1]].at < a[r[j][1]].at
    <3> SUFFICES ASSUME NEW i \in 1 .. (n - 1), NEW j \in 1 .. (n - 1), i < j
                 PROVE  a[r[i][1]].at < a[r[j][1]].at
        OBVIOUS
    <3>1. added[s[from(i)][1]].at < added[s[from(j)][1]].at
        BY <1>1, <2>7 DEF Tidy
    <3>2. a[r[i][1]] = added[s[from(i)][1]] /\ a[r[j][1]] = added[s[from(j)][1]]
      <4>1. ASSUME NEW l \in 1 .. (n - 1) PROVE a[r[l][1]] = added[s[from(l)][1]]
        <5>1. r[l] = s[from(l)]
            BY <2>6
        <5>2. r[l][1] \in Patterns \ {g}
            BY <2>9
        <5>3. a[r[l][1]] = added[r[l][1]]
            BY <1>2, <5>2
        <5> QED
            BY <5>1, <5>3
      <4> QED
        BY <4>1
    <3> QED
        BY <3>1, <3>2
  <2>12. ASSUME NEW h \in Patterns, a[h] # Dispatch!NotAdded PROVE \E j \in 1 .. (n - 1) : r[j][1] = h
    <3>1. h # g /\ added[h] # Dispatch!NotAdded
        BY <1>2, <2>12
    <3>2. PICK i \in 1 .. n : s[i][1] = h
        BY <1>1, <3>1 DEF Tidy
    <3>3. i # k
        BY <2>1, <3>1, <3>2
    <3> QED
        BY <2>6, <2>8, <3>2, <3>3
  <2>13. now \in Nat
    BY <1>1 DEF Tidy
  <2> HIDE DEF n
  <2> QED
    BY <1>2, <2>6, <2>10, <2>11, <2>12, <2>13 DEF Tidy
<1> QED
    BY <1>3, <1>4


\* Time passes.
LEMMA LaterTidy ==
    ASSUME NEW s, NEW a, NEW t, Tidy(s, a, t) PROVE Tidy(s, a, t + 1)
<1>1. \A i \in 1 .. Len(s) : a[s[i][1]].at \in Nat
    BY EntryFact DEF Tidy, Stamp
<1> QED
    BY <1>1 DEF Tidy

\* A pattern without an entry gets the last one.
LEMMA AppendTidy ==
    ASSUME NEW s, NEW a, NEW t, Tidy(s, a, t), NEW g \in Patterns, NEW slt \in Servlets,
           a[g] = Dispatch!NotAdded
    PROVE  Tidy(Append(s, <<g, slt>>), [a EXCEPT ![g] = [slt |-> slt, at |-> t + 1]], t + 1)
<1> PICK r : r = Append(s, <<g, slt>>)
    OBVIOUS
<1> PICK b : b = [a EXCEPT ![g] = [slt |-> slt, at |-> t + 1]]
    OBVIOUS
<1> PICK n : n = Len(s)
    OBVIOUS
<1>1. s \in Seq(Entry) /\ n \in Nat /\ t \in Nat /\ <<g, slt>> \in Entry
    BY DEF Tidy, Entry
<1>2. /\ r \in Seq(Entry) /\ Len(r) = n + 1 /\ r[n + 1] = <<g, slt>>
      /\ \A i \in 1 .. n : r[i] = s[i]
    BY <1>1
<1>3. \A i : i \in 1 .. (n + 1) <=> i \in 1 .. n \/ i = n + 1
    BY <1>1
<1>4. /\ b \in [Patterns -> Stamp] /\ b[g].slt = slt /\ b[g].at = t + 1
      /\ b[g] # Dispatch!NotAdded /\ \A h \in Patterns \ {g} : b[h] = a[h]
  <2>1. [slt |-> slt, at |-> t + 1] \in Stamp
    BY <1>1 DEF Stamp
  <2>2. b \in [Patterns -> Stamp] /\ b[g].slt = slt /\ b[g].at = t + 1
        /\ \A h \in Patterns \ {g} : b[h] = a[h]
    BY <2>1 DEF Tidy
  <2>3. Dispatch!NotAdded.at = 0 /\ t + 1 # 0
    BY <1>1 DEF Dispatch!NotAdded
  <2> QED
    BY <2>2, <2>3
<1>5. \A i \in 1 .. n : s[i][1] \in Patterns \ {g} /\ a[s[i][1]].at \in Nat /\ a[s[i][1]].at <= t
  <2> SUFFICES ASSUME NEW i \in 1 .. n
               PROVE  s[i][1] \in Patterns \ {g} /\ a[s[i][1]].at \in Nat /\ a[s[i][1]].at <= t
    OBVIOUS
  <2>1. s[i][1] \in Patterns
    BY <1>1, EntryFact
  <2>2. a[s[i][1]].at \in Nat /\ 1 <= a[s[i][1]].at /\ a[s[i][1]].at <= t
    BY <2>1 DEF Tidy, Stamp
  <2>3. a[g].at = 0
    BY DEF Dispatch!NotAdded
  <2>4. s[i][1] # g
    BY <2>2, <2>3
  <2> QED
    BY <2>1, <2>2, <2>4
<1>6. ASSUME NEW i \in 1 .. (n + 1)
      PROVE  b[r[i][1]].slt = r[i][2] /\ 1 <= b[r[i][1]].at /\ b[r[i][1]].at <= t + 1
  <2>1. CASE i \in 1 .. n
    <3>1. b[r[i][1]] = a[s[i][1]] /\ r[i][2] = s[i][2]
        BY <1>2, <1>4, <1>5, <2>1
    <3>2. a[s[i][1]].slt = s[i][2] /\ 1 <= a[s[i][1]].at
        BY <2>1 DEF Tidy
    <3>3. a[s[i][1]].at <= t + 1
        BY <1>1, <1>5, <2>1
    <3> QED
        BY <3>1, <3>2, <3>3
  <2>2. CASE i = n + 1
    <3>1. r[i][1] = g /\ r[i][2] = slt
        BY <1>2, <2>2
    <3> QED
        BY <1>1, <1>4, <3>1
  <2> QED
    BY <1>3, <2>1, <2>2
<1>7. ASSUME NEW i \in 1 .. (n + 1), NEW j \in 1 .. (n + 1), i < j
      PROVE  b[r[i][1]].at < b[r[j][1]].at
  <2>1. i \in 1 .. n
    BY <1>1, <1>7
  <2>2. b[r[i][1]] = a[s[i][1]]
    BY <1>2, <1>4, <1>5, <2>1
  <2>3. CASE j \in 1 .. n
    <3>1. b[r[j][1]] = a[s[j][1]]
        BY <1>2, <1>4, <1>5, <2>3
    <3> QED
        BY <1>7, <2>1, <2>2, <2>3, <3>1 DEF Tidy
  <2>4. CASE j = n + 1
    <3>1. b[r[j][1]].at = t + 1
        BY <1>2, <1>4, <2>4
    <3>2. a[s[i][1]].at < t + 1
        BY <1>1, <1>5, <2>1
    <3> QED
        BY <2>2, <3>1, <3>2
  <2> QED
    BY <1>3, <2>3, <2>4
<1>8. ASSUME NEW h \in Patterns, b[h] # Dispatch!NotAdded PROVE \E i \in 1 .. (n + 1) : r[i][1] = h
  <2>1. CASE h = g
    <3>1. n + 1 \in 1 .. (n + 1) /\ r[n + 1][1] = h
        BY <1>1, <1>2, <2>1
    <3> QED
        BY <3>1
  <2>2. CASE h # g
    <3>1. PICK i \in 1 .. n : s[i][1] = h
        BY <1>4, <1>8, <2>2 DEF Tidy
    <3> QED
        BY <1>2, <1>3, <3>1
  <2> QED
    BY <2>1, <2>2
<1> QED
  <2>1. r \in Seq(Entry) /\ b \in [Patterns -> Stamp] /\ t + 1 \in Nat /\ Len(r) = n + 1
    BY <1>1, <1>2, <1>4
  <2>2. \A i \in 1 .. Len(r) :
          b[r[i][1]].slt = r[i][2] /\ 1 <= b[r[i][1]].at /\ b[r[i][1]].at <= t + 1
    BY <1>6, <2>1
  <2>3. \A i, j \in 1 .. Len(r) : i < j => b[r[i][1]].at < b[r[j][1]].at
    BY <1>7, <2>1
  <2>4. \A h \in Patterns : b[h] # Dispatch!NotAdded => \E i \in 1 .. Len(r) : r[i][1] = h
    BY <1>8, <2>1
  <2>5. Tidy(r, b, t + 1)
    BY <2>1, <2>2, <2>3, <2>4 DEF Tidy
  <2> QED
    BY <2>5

\* Every edit of the tables keeps the list tidy.
LEMMA DispatchNext == GlobInv /\ Dispatch!Next => GlobInv'
<1> SUFFICES ASSUME GlobInv, Dispatch!Next PROVE GlobInv'
    OBVIOUS
<1>1. ASSUME NEW p \in Paths, NEW slt \in Servlets, Dispatch!addServlet(p, slt) PROVE GlobInv'
  <2>1. UNCHANGED <<m_globs, added>> /\ now' = now + 1
    BY <1>1 DEF Dispatch!addServlet, Dispatch!Edit
  <2>2. Tidy(m_globs, added, now + 1)
    BY LaterTidy DEF GlobInv
  <2> QED
    BY <2>1, <2>2 DEF GlobInv
<1>2. ASSUME NEW p \in Paths, Dispatch!delServlet(p) PROVE GlobInv'
  <2>1. UNCHANGED <<m_globs, added>> /\ now' = now + 1
    BY <1>2 DEF Dispatch!delServlet, Dispatch!Edit
  <2>2. Tidy(m_globs, added, now + 1)
    BY LaterTidy DEF GlobInv
  <2> QED
    BY <2>1, <2>2 DEF GlobInv
<1>3. ASSUME NEW g \in Patterns, Dispatch!delGolbServlet(g) PROVE GlobInv'
  <2>1. /\ m_globs' = Dispatch!Erase(g) /\ now' = now + 1
        /\ added' = [added EXCEPT ![g] = Dispatch!NotAdded]
    BY <1>3 DEF Dispatch!delGolbServlet, Dispatch!Edit
  <2>2. Tidy(Dispatch!Erase(g), [added EXCEPT ![g] = Dispatch!NotAdded], now + 1)
    BY EraseTidy, LaterTidy
  <2> QED
    BY <2>1, <2>2 DEF GlobInv
<1>4. ASSUME NEW g \in Patterns, NEW slt \in Servlets, Dispatch!addGlobServlet(g, slt) PROVE GlobInv'
  <2>1. /\ m_globs' = Append(Dispatch!Erase(g), <<g, slt>>) /\ now' = now + 1
        /\ added' = [added EXCEPT ![g] = [slt |-> slt, at |-> now + 1]]
    BY <1>4 DEF Dispatch!addGlobServlet, Dispatch!Edit
  <2> PICK r : r = Dispatch!Erase(g)
    OBVIOUS
  <2> PICK a : a = [added EXCEPT ![g] = Dispatch!NotAdded]
    OBVIOUS
  <2>2. Tidy(r, a, now)
    BY EraseTidy
  <2>3. a[g] = Dispatch!NotAdded /\ added' = [a EXCEPT ![g] = [slt |-> slt, at |-> now + 1]]
    BY <2>1 DEF GlobInv, Tidy
  <2>4. Tidy(Append(r, <<g, slt>>), [a EXCEPT ![g] = [slt |-> slt, at |-> now + 1]], now + 1)
    BY <2>2, <2>3, AppendTidy
  <2> QED
    BY <2>1, <2>3, <2>4 DEF GlobInv
<1> QED
    BY <1>1, <1>2, <1>3, <1>4 DEF Dispatch!Next

\* In a tidy list the first entry that matches is that of the oldest call.
LEMMA TidyRoutes == GlobInv => Routes
<1> SUFFICES ASSUME GlobInv, NEW p \in Paths, m_datas[p] = None
             PROVE  LET live == {g \in Patterns : <<g, p>> \in Matching /\ added[g] # Dispatch!NotAdded}
                    IN  Dispatch!getMatchedServlet(p) =
                          IF live = {} THEN m_default
                          ELSE added[CHOOSE g \in live : \A h \in live : added[g].at <= added[h].at].slt
    BY DEF Routes, Dispatch!Routes, Dispatch!getMatchedServlet
<1> DEFINE live == {g \in Patterns : <<g, p>> \in Matching /\ added[g] # Dispatch!NotAdded}
           hits == {i \in 1 .. Len(m_globs) : <<m_globs[i][1], p>> \in Matching}
           First(g) == \A h \in live : added[g].at <= added[h].at
<1>1. m_globs \in Seq(Entry) /\ Len(m_globs) \in Nat
    BY DEF GlobInv, Tidy
<1>2. ASSUME NEW i \in hits PROVE m_globs[i][1] \in live
  <2>1. m_globs[i][1] \in Patterns /\ 1 <= added[m_globs[i][1]].at
    BY <1>1, EntryFact DEF GlobInv, Tidy
  <2>2. Dispatch!NotAdded.at = 0
    BY DEF Dispatch!NotAdded
  <2> QED
    BY <2>1, <2>2
<1>3. ASSUME NEW g \in live PROVE \E i \in hits : m_globs[i][1] = g
    BY DEF GlobInv, Tidy
<1>4. CASE hits = {}
  <2>1. live = {}
    BY <1>3, <1>4
  <2> QED
    BY <1>4, <2>1 DEF Dispatch!getMatchedServlet
<1>5. CASE hits # {}
  <2> PICK k : k = Dispatch!Min(hits)
    OBVIOUS
  <2>1. hits \subseteq Nat
    BY <1>1
  <2>2. k \in hits /\ \A i \in hits : k <= i
    BY <1>5, <2>1, LeastExists DEF Dispatch!Min
  <2> PICK g : g = m_globs[k][1]
    OBVIOUS
  <2>3. g \in live /\ added[g].slt = m_globs[k][2] /\ live # {}
    BY <1>2, <2>2 DEF GlobInv, Tidy
  <2>4. Dispatch!getMatchedServlet(p) = m_globs[k][2]
    BY <1>5 DEF Dispatch!getMatchedServlet
  <2>5. ASSUME NEW h \in live, h # g PROVE added[g].at < added[h].at
    <3>1. PICK i \in hits : m_globs[i][1] = h
        BY <1>3
    <3>2. k \in 1 .. Len(m_globs) /\ i \in 1 .. Len(m_globs)
        BY <2>2
    <3>3. k # i /\ k <= i
        BY <2>2, <2>5, <3>1
    <3>4. k < i
        BY <1>1, <3>2, <3>3
    <3> QED
        BY <3>1, <3>2, <3>4 DEF GlobInv, Tidy
  <2>6. \A h \in live : added[h].at \in Nat
    BY DEF GlobInv, Tidy, Stamp
  <2> HIDE DEF live
  <2>7. First(g)
    <3> SUFFICES ASSUME NEW h \in live PROVE added[g].at <= added[h].at
        OBVIOUS
    <3>1. added[g].at \in Nat /\ added[h].at \in Nat
        BY <2>3, <2>6
    <3>2. h = g \/ added[g].at < added[h].at
        BY <2>5
    <3> QED
        BY <3>1, <3>2
  <2>8. ASSUME NEW h \in live, First(h) PROVE h = g
    <3>1. added[g].at \in Nat /\ added[h].at \in Nat /\ added[h].at <= added[g].at
        BY <2>3, <2>6, <2>8
    <3>2. ~(added[g].at < added[h].at)
        BY <3>1
    <3> QED
        BY <2>5, <3>2
  <2> HIDE DEF First
  <2>9. (CHOOSE h \in live : First(h)) = g
    BY <2>3, <2>7, <2>8
  <2> QED
    BY <2>3, <2>4, <2>9 DEF First, live
<1> QED
    BY <1>4, <1>5

\* A request goes to the servlet of its path, or to the one of the matching pattern whose
\* addGlobServlet is the longest ago, for any paths and patterns and whatever fnmatch says.
THEOREM RoutesCorrect == Spec => []Routes
<1>1. Init => GlobInv
  <2> SUFFICES ASSUME Dispatch!Init PROVE GlobInv
    BY DEF Init
  <2>1. Dispatch!NotAdded \in Stamp
    BY DEF Dispatch!NotAdded, Stamp
  <2> QED
    BY <2>1 DEF Dispatch!Init, GlobInv, Tidy
<1>2. GlobInv /\ [Next]_<<part, arrayVars, dispatchVars, logVars>> => GlobInv'
  <2>1. GlobInv /\ UNCHANGED dispatchVars => GlobInv'
    BY DEF dispatchVars, GlobInv
  <2> QED
    BY <2>1, DispatchNext DEF Next
<1> QED
    BY <1>1, <1>2, TidyRoutes, PTL DEF Spec


-----------------------------------------------------------------------------
(* ByteArray.                                                                *)

\* The position and the size are inside the blocks, m_cur is the block of the position,
\* or NULL behind the last one, and the blocks hold what the flat buffer holds.
ArrayInv ==
    /\ nodes \in Nat \ {0} /\ nodes <= MaxBlocks
    /\ m_position \in Nat /\ m_size \in Nat
    /\ m_position <= nodes * Base /\ m_size <= nodes * Base
    /\ m_cur = Array!NodeOf(m_position, nodes)
    /\ exact = TRUE
    /\ \A p \in Array!Places : flat[p] \in {Junk, mem[p]}

\* Division by the block size.
LEMMA DivFact ==
    ASSUME NEW p \in Nat
    PROVE  /\ p \div Base \in Nat /\ p % Base \in Nat /\ p % Base < Base
           /\ (p \div Base) * Base + (p % Base) = p
<1>1. Base \in Nat /\ Base > 0
    BY LibraryConstants
<1> QED
    BY <1>1

\* A whole number of blocks.
LEMMA TimesFact ==
    ASSUME NEW k \in Nat
    PROVE  k * Base \in Nat /\ (k * Base) \div Base = k /\ (k * Base) % Base = 0
<1>1. Base \in Nat /\ Base > 0
    BY LibraryConstants
<1> QED
    BY <1>1

\* More blocks have more places.
LEMMA GrowFact ==
    ASSUME NEW k \in Nat, NEW n \in Nat
    PROVE  /\ k * Base \in Nat /\ n * Base \in Nat
           /\ k <= n => k * Base <= n * Base
           /\ k < n => k * Base < n * Base
<1>1. Base \in Nat /\ Base > 0
    BY LibraryConstants
<1> QED
    BY <1>1


\* The greater of two numbers.
LEMMA MaxTwo ==
    ASSUME NEW a \in Nat, NEW b \in Nat
    PROVE  Array!Max({a, b}) = IF a >= b THEN a ELSE b
<1> PICK m : m = IF a >= b THEN a ELSE b
    OBVIOUS
<1>1. m \in {a, b} /\ m \in Nat /\ m >= a /\ m >= b
    OBVIOUS
<1>2. \A x \in {a, b} : (\A y \in {a, b} : x >= y) => x = m
    BY <1>1
<1>3. \A y \in {a, b} : m >= y
    BY <1>1
<1> QED
    BY <1>1, <1>2, <1>3 DEF Array!Max

\* The smaller.
LEMMA MinTwo ==
    ASSUME NEW a \in Nat, NEW b \in Nat
    PROVE  Array!Min({a, b}) = IF a <= b THEN a ELSE b
<1> PICK m : m = IF a <= b THEN a ELSE b
    OBVIOUS
<1>1. m \in {a, b} /\ m \in Nat /\ m <= a /\ m <= b
    OBVIOUS
<1>2. \A x \in {a, b} : (\A y \in {a, b} : x <= y) => x = m
    BY <1>1
<1>3. \A y \in {a, b} : m <= y
    BY <1>1
<1> QED
    BY <1>1, <1>2, <1>3 DEF Array!Min

\* The data of a call are a sequence of at least one byte.
LEMMA DataFact ==
    ASSUME NEW s \in Array!Data PROVE s \in Seq(Bytes) /\ Len(s) \in Nat \ {0}
<1>1. PICK n \in 1 .. MaxLen : s \in [1 .. n -> Bytes]
    BY DEF Array!Data
<1>2. n \in Nat \ {0}
    BY <1>1, LibraryConstants
<1>3. s \in Seq(Bytes)
    BY <1>1, <1>2, SeqDef
<1>4. DOMAIN s = 1 .. n /\ DOMAIN s = 1 .. Len(s) /\ Len(s) \in Nat
    BY <1>1, <1>3, LenProperties
<1>5. Len(s) = n
    BY <1>2, <1>4
<1> QED
    BY <1>2, <1>3, <1>5

\* The places of n blocks are places of the array.
LEMMA PlaceFact ==
    ASSUME NEW n \in Nat, n <= MaxBlocks, NEW p \in Nat, p < n * Base
    PROVE  p \in Array!Places
<1>1. MaxBlocks \in Nat /\ Base \in Nat
    BY LibraryConstants
<1>2. n * Base <= MaxBlocks * Base /\ n * Base \in Nat /\ MaxBlocks * Base \in Nat
    BY <1>1, GrowFact
<1>3. p <= MaxBlocks * Base - 1
    BY <1>2
<1>4. Base * MaxBlocks = MaxBlocks * Base
    BY <1>1
<1> QED
    BY <1>2, <1>3, <1>4 DEF Array!Places

\* A loop that begins in the block of the position begins at the position.
LEMMA StartFact ==
    ASSUME m_position \in Nat, NEW n \in Nat, NEW cur, cur = Array!NodeOf(m_position, n),
           cur # Array!NULL
    PROVE  Array!Start(cur) = m_position
<1> PICK d : d = m_position \div Base
    OBVIOUS
<1>1. d \in Nat /\ m_position % Base \in Nat /\ d * Base + (m_position % Base) = m_position
    BY DivFact
<1>2. cur = d + 1
    BY DEF Array!NodeOf
<1>3. cur - 1 = d
    BY <1>1, <1>2
<1> QED
    BY <1>1, <1>3 DEF Array!Start

\* Only behind the last block there is no current one.
LEMMA NodeFact ==
    ASSUME NEW p \in Nat, NEW n \in Nat
    PROVE  Array!NodeOf(p, n) = Array!NULL <=> p = n * Base
<1>1. p \div Base \in Nat
    BY DivFact
<1>2. (p \div Base) + 1 # 0
    BY <1>1
<1> QED
    BY <1>2 DEF Array!NodeOf, Array!NULL

\* addCapacity appends blocks, and m_cur stays the block of the position unless it appends
\* none where one is needed.
LEMMA GrowthFact ==
    ASSUME ArrayInv, NEW len \in Nat \ {0}, NEW n, n = nodes + Array!NewNodes(len),
           NEW cur, cur = Array!CurAfterGrowth(len), cur # Array!NULL
    PROVE  n \in Nat \ {0} /\ nodes <= n /\ cur = Array!NodeOf(m_position, n)
<1> PICK k : k = Array!NewNodes(len)
    OBVIOUS
<1> PICK c : c = nodes * Base
    OBVIOUS
<1>1. nodes \in Nat \ {0} /\ c \in Nat /\ m_position \in Nat /\ m_position <= c
    BY GrowFact DEF ArrayInv
<1>2. Array!getCapacity = c - m_position /\ c - m_position \in Nat
    BY <1>1 DEF Array!getCapacity
<1>3. k \in Nat
  <2> PICK more : more = len - (c - m_position)
    OBVIOUS
  <2>1. more \in Int
    BY <1>2
  <2>2. CASE more <= 0
    BY <1>2, <2>2 DEF Array!NewNodes
  <2>3. CASE ~(more <= 0)
    <3>1. more \in Nat
        BY <2>1, <2>3
    <3>2. more \div Base \in Nat
        BY <3>1, DivFact
    <3>3. k = (more \div Base) + (IF more % Base > c - m_position THEN 1 ELSE 0)
        BY <1>2, <2>3 DEF Array!NewNodes
    <3> QED
        BY <3>2, <3>3
  <2> QED
    BY <2>2, <2>3
<1>4. n \in Nat \ {0} /\ nodes <= n /\ n = nodes + k
    BY <1>1, <1>3
<1>5. c <= n * Base /\ n * Base \in Nat /\ (k # 0 => c < n * Base)
  <2>1. k # 0 => nodes < n
    BY <1>1, <1>3, <1>4
  <2> QED
    BY <1>1, <1>4, <2>1, GrowFact
<1>6. CASE m_position = c
  <2>1. k # 0 /\ cur = nodes + 1
    BY <1>1, <1>2, <1>6 DEF Array!CurAfterGrowth
  <2>2. m_position # n * Base
    BY <1>1, <1>5, <1>6, <2>1
  <2>3. m_position \div Base = nodes
    BY <1>1, <1>6, TimesFact
  <2> QED
    BY <1>4, <2>1, <2>2, <2>3 DEF Array!NodeOf
<1>7. CASE m_position # c
  <2>1. c - m_position # 0 /\ m_position # n * Base
    BY <1>1, <1>5, <1>7
  <2>2. cur = m_cur
    BY <1>2, <2>1 DEF Array!CurAfterGrowth
  <2>3. Array!NodeOf(m_position, n) = Array!NodeOf(m_position, nodes)
    BY <1>7, <2>1 DEF Array!NodeOf
  <2> QED
    BY <1>4, <2>2, <2>3 DEF ArrayInv
<1> QED
    BY <1>6, <1>7


\* The same bytes are put at the same place of the blocks and of the flat buffer.
LEMMA PutFact ==
    ASSUME ArrayInv, NEW s, NEW from, mem' = Array!Put(mem, from, s), flat' = Array!Put(flat, from, s)
    PROVE  \A p \in Array!Places : flat'[p] \in {Junk, mem'[p]}
<1> SUFFICES ASSUME NEW p \in Array!Places PROVE flat'[p] \in {Junk, mem'[p]}
    OBVIOUS
<1>1. flat[p] \in {Junk, mem[p]}
    BY DEF ArrayInv
<1>2. CASE p - from + 1 \in 1 .. Len(s)
    BY <1>2 DEF Array!Put
<1>3. CASE p - from + 1 \notin 1 .. Len(s)
  <2>1. flat'[p] = flat[p] /\ mem'[p] = mem[p]
    BY <1>3 DEF Array!Put
  <2> QED
    BY <1>1, <2>1
<1> QED
    BY <1>2, <1>3

\* A read inside the blocks gets what the flat buffer holds.
LEMMA GotFact ==
    ASSUME ArrayInv, m_cur # Array!NULL, NEW len \in Nat, m_position + len <= nodes * Base,
           Array!Got(len)
    PROVE  exact' = TRUE
<1>1. m_position \in Nat /\ nodes \in Nat /\ nodes <= MaxBlocks /\ nodes * Base \in Nat
    BY GrowFact DEF ArrayInv
<1>2. Array!Start(m_cur) = m_position
    BY <1>1, StartFact DEF ArrayInv
<1>3. ASSUME NEW i \in 0 .. len - 1
      PROVE  flat[m_position + i] \in {Junk, mem[Array!Start(m_cur) + i]}
  <2>1. m_position + i \in Nat /\ m_position + i < nodes * Base
    BY <1>1
  <2>2. m_position + i \in Array!Places
    BY <1>1, <2>1, PlaceFact
  <2> QED
    BY <1>2, <2>2 DEF ArrayInv
<1> QED
    BY <1>3 DEF Array!Got

\* The position moves inside n blocks.
LEMMA MoveFact ==
    ASSUME m_size \in Nat, NEW n \in Nat, m_size <= n * Base, NEW v \in Nat, v <= n * Base,
           Array!MoveTo(v, n)
    PROVE  /\ m_position' = v /\ m_size' \in Nat /\ m_size' <= n * Base
           /\ m_cur' = Array!NodeOf(v, n)
    BY MaxTwo DEF Array!MoveTo, Array!CurAt

\* A process that crashes changes nothing else.
LEMMA CrashKeeps ==
    ASSUME ArrayInv, NEW how, Array!Crash(how) PROVE ArrayInv'
    BY DEF ArrayInv, Array!Crash

\* The invariant of the next state, spelled out.
LEMMA ArrayThen ==
    ASSUME nodes' \in Nat \ {0}, nodes' <= MaxBlocks, m_position' \in Nat, m_size' \in Nat,
           m_position' <= nodes' * Base, m_size' <= nodes' * Base,
           m_cur' = Array!NodeOf(m_position', nodes'), exact' = TRUE,
           \A p \in Array!Places : flat'[p] \in {Junk, mem'[p]}
    PROVE  ArrayInv'
    BY DEF ArrayInv, Array!NodeOf, Array!Places, Array!NULL

\* write(): the bytes go to the position, across the borders of blocks.
LEMMA WriteKeeps ==
    ASSUME ArrayInv, NEW s \in Array!Data, Array!Fits(Len(s)), Array!Write(s)
    PROVE  ArrayInv'
<1> PICK len : len = Len(s)
    OBVIOUS
<1> PICK n : n = nodes + Array!NewNodes(len)
    OBVIOUS
<1> PICK cur : cur = Array!CurAfterGrowth(len)
    OBVIOUS
<1>1. CASE ~Array!Inside(cur, len, n)
    BY <1>1, CrashKeeps DEF Array!Write
<1>2. CASE Array!Inside(cur, len, n)
  <2>1. /\ nodes' = n
        /\ mem' = Array!Put(mem, Array!Start(cur), s) /\ flat' = Array!Put(flat, m_position, s)
        /\ m_position' = m_position + len /\ m_size' = Array!Max({m_size, m_position + len})
        /\ m_cur' = Array!NodeOf(Array!Start(cur) + len, n)
        /\ UNCHANGED <<exact, fault>>
    BY <1>2 DEF Array!Write
  <2>2. cur # Array!NULL /\ Array!Start(cur) + len <= n * Base
    BY <1>2 DEF Array!Inside
  <2>3. len \in Nat \ {0}
    BY DataFact
  <2>4. n \in Nat \ {0} /\ nodes <= n /\ cur = Array!NodeOf(m_position, n)
    BY <2>2, <2>3, GrowthFact
  <2>5. m_position \in Nat /\ m_size \in Nat /\ nodes \in Nat /\ m_size <= nodes * Base
    BY DEF ArrayInv
  <2>6. Array!Start(cur) = m_position
    BY <2>2, <2>4, <2>5, StartFact
  <2>7. nodes * Base <= n * Base /\ nodes * Base \in Nat /\ n * Base \in Nat
    BY <2>4, <2>5, GrowFact
  <2>8. n <= MaxBlocks
    BY DEF Array!Fits
  <2>9. m_position' \in Nat /\ m_position' <= n * Base
    BY <2>1, <2>2, <2>3, <2>5, <2>6
  <2>10. m_size' \in Nat /\ m_size' <= n * Base
    <3>1. m_size <= n * Base
        BY <2>5, <2>7
    <3>2. m_size' = IF m_size >= m_position' THEN m_size ELSE m_position'
        BY <2>1, <2>5, <2>9, MaxTwo
    <3> QED
        BY <2>5, <2>9, <3>1, <3>2
  <2>11. \A p \in Array!Places : flat'[p] \in {Junk, mem'[p]}
    BY <2>1, <2>6, PutFact
  <2>12. m_cur' = Array!NodeOf(m_position', nodes') /\ exact' = TRUE
    BY <2>1, <2>6 DEF ArrayInv
  <2> QED
    BY <2>1, <2>4, <2>8, <2>9, <2>10, <2>11, <2>12, ArrayThen
<1> QED
    BY <1>1, <1>2


\* SocketStream::read: what recv got goes to the position, which moves behind it.
LEMMA ReceiveKeeps ==
    ASSUME ArrayInv, NEW len \in Nat \ {0}, NEW s, s = << >> \/ s \in Array!Data,
           Array!Fits(len), Array!ReadFromSocket(len, s)
    PROVE  ArrayInv'
<1> PICK n : n = nodes + Array!NewNodes(len)
    OBVIOUS
<1> PICK cur : cur = Array!CurAfterGrowth(len)
    OBVIOUS
<1>1. CASE ~Array!Inside(cur, len, n)
    BY <1>1, CrashKeeps DEF Array!ReadFromSocket
<1>2. CASE Array!Inside(cur, len, n)
  <2>1. /\ nodes' = n /\ Len(s) <= len
        /\ mem' = Array!Put(mem, Array!Start(cur), s) /\ flat' = Array!Put(flat, m_position, s)
        /\ IF s = << >> THEN m_cur' = cur /\ UNCHANGED <<m_position, m_size>>
           ELSE Array!MoveTo(m_position + Len(s), n)
        /\ UNCHANGED <<exact, fault>>
    BY <1>2 DEF Array!ReadFromSocket
  <2>2. cur # Array!NULL /\ Array!Start(cur) + len <= n * Base
    BY <1>2 DEF Array!Inside
  <2>3. n \in Nat \ {0} /\ nodes <= n /\ cur = Array!NodeOf(m_position, n)
    BY <2>2, GrowthFact
  <2>4. m_position \in Nat /\ m_size \in Nat /\ nodes \in Nat /\ m_size <= nodes * Base
    BY DEF ArrayInv
  <2>5. Array!Start(cur) = m_position
    BY <2>2, <2>3, <2>4, StartFact
  <2>6. nodes * Base <= n * Base /\ nodes * Base \in Nat /\ n * Base \in Nat
    BY <2>3, <2>4, GrowFact
  <2>7. n <= MaxBlocks
    BY DEF Array!Fits
  <2>8. m_size <= n * Base /\ m_position <= n * Base
    BY <2>2, <2>4, <2>5, <2>6
  <2>9. \A p \in Array!Places : flat'[p] \in {Junk, mem'[p]}
    BY <2>1, <2>5, PutFact
  <2>10. exact' = TRUE
    BY <2>1 DEF ArrayInv
  <2>11. CASE s = << >>
    <3>1. m_cur' = cur /\ m_position' = m_position /\ m_size' = m_size
        BY <2>1, <2>11
    <3> QED
        BY <2>1, <2>3, <2>4, <2>7, <2>8, <2>9, <2>10, <3>1, ArrayThen
  <2>12. CASE s # << >>
    <3>1. Array!MoveTo(m_position + Len(s), n) /\ Len(s) \in Nat
        BY <2>1, <2>12, DataFact
    <3>2. m_position + Len(s) \in Nat /\ m_position + Len(s) <= n * Base
        BY <2>1, <2>2, <2>4, <2>5, <2>6, <3>1
    <3>3. /\ m_position' = m_position + Len(s) /\ m_size' \in Nat /\ m_size' <= n * Base
          /\ m_cur' = Array!NodeOf(m_position + Len(s), n)
        BY <2>3, <2>4, <2>8, <3>1, <3>2, MoveFact
    <3> QED
        BY <2>1, <2>3, <2>7, <2>9, <2>10, <3>2, <3>3, ArrayThen
  <2> QED
    BY <2>11, <2>12
<1> QED
    BY <1>1, <1>2

\* read(): the position moves behind what was read.
LEMMA ReadKeeps ==
    ASSUME ArrayInv, NEW len \in Nat, Array!Read(len) PROVE ArrayInv'
<1>1. CASE ~Array!Inside(m_cur, len, nodes)
    BY <1>1, CrashKeeps DEF Array!Read
<1>2. CASE Array!Inside(m_cur, len, nodes)
  <2>1. /\ Array!Got(len) /\ m_position' = m_position + len
        /\ m_cur' = Array!NodeOf(Array!Start(m_cur) + len, nodes)
        /\ UNCHANGED <<nodes, mem, m_size, flat, fault>>
    BY <1>2 DEF Array!Read
  <2>2. m_cur # Array!NULL /\ Array!Start(m_cur) + len <= nodes * Base
    BY <1>2 DEF Array!Inside
  <2>3. /\ m_position \in Nat /\ nodes \in Nat \ {0} /\ m_cur = Array!NodeOf(m_position, nodes)
        /\ nodes <= MaxBlocks /\ m_size \in Nat /\ m_size <= nodes * Base
    BY DEF ArrayInv
  <2>4. Array!Start(m_cur) = m_position
    BY <2>2, <2>3, StartFact
  <2>5. exact' = TRUE
    BY <2>1, <2>2, <2>4, GotFact
  <2>6. m_position' \in Nat
    BY <2>1, <2>3
  <2>7. \A p \in Array!Places : flat'[p] \in {Junk, mem'[p]}
    BY <2>1 DEF ArrayInv
  <2> QED
    BY <2>1, <2>2, <2>3, <2>4, <2>5, <2>6, <2>7, ArrayThen
<1> QED
    BY <1>1, <1>2

\* toString(): the position stays.
LEMMA StringKeeps ==
    ASSUME ArrayInv, Array!ToString PROVE ArrayInv'
<1> PICK len : len = Array!getReadSize
    OBVIOUS
<1>1. /\ m_position \in Nat /\ nodes \in Nat \ {0} /\ m_cur = Array!NodeOf(m_position, nodes)
      /\ m_size \in Nat /\ m_size <= nodes * Base
    BY DEF ArrayInv
<1>2. len = m_size - m_position /\ len > 0 /\ len \in Nat
    BY <1>1 DEF Array!ToString, Array!getReadSize
<1>3. CASE ~Array!Inside(m_cur, len, nodes)
    BY <1>3, CrashKeeps DEF Array!ToString
<1>4. CASE Array!Inside(m_cur, len, nodes)
  <2>1. Array!Got(len) /\ UNCHANGED <<nodes, mem, m_position, m_size, m_cur, flat, fault>>
    BY <1>4 DEF Array!ToString
  <2>2. m_cur # Array!NULL
    BY <1>4 DEF Array!Inside
  <2>3. m_position + len = m_size
    BY <1>1, <1>2
  <2>4. exact' = TRUE
    BY <1>1, <1>2, <2>1, <2>2, <2>3, GotFact
  <2> QED
    BY <2>1, <2>4 DEF ArrayInv
<1> QED
    BY <1>3, <1>4

\* SocketStream::write: the position moves behind what send took.
LEMMA SendKeeps ==
    ASSUME ArrayInv, NEW len \in Nat, NEW sent \in Nat, Array!WriteToSocket(len, sent)
    PROVE  ArrayInv'
<1> PICK left : left = Array!getReadSize
    OBVIOUS
<1> PICK most : most = Array!Min({len, left})
    OBVIOUS
<1>1. /\ m_position \in Nat /\ nodes \in Nat \ {0} /\ nodes <= MaxBlocks
      /\ m_size \in Nat /\ m_size <= nodes * Base /\ nodes * Base \in Nat
    BY GrowFact DEF ArrayInv
<1>2. left = m_size - m_position /\ left > 0 /\ left \in Nat
    BY <1>1 DEF Array!WriteToSocket, Array!getReadSize
<1>3. most \in Nat /\ most <= left
    BY <1>2, MinTwo
<1>4. sent <= most
    BY <1>3 DEF Array!WriteToSocket
<1>5. CASE ~Array!Inside(m_cur, most, nodes)
    BY <1>5, CrashKeeps DEF Array!WriteToSocket
<1>6. CASE Array!Inside(m_cur, most, nodes)
  <2>1. Array!Got(sent) /\ Array!MoveTo(m_position + sent, nodes) /\ UNCHANGED <<nodes, mem, flat, fault>>
    BY <1>6 DEF Array!WriteToSocket
  <2>2. m_cur # Array!NULL
    BY <1>6 DEF Array!Inside
  <2>3. m_position + sent <= nodes * Base /\ m_position + sent \in Nat
    BY <1>1, <1>2, <1>3, <1>4
  <2>4. exact' = TRUE
    BY <2>1, <2>2, <2>3, GotFact
  <2>5. /\ m_position' = m_position + sent /\ m_size' \in Nat /\ m_size' <= nodes * Base
        /\ m_cur' = Array!NodeOf(m_position + sent, nodes)
    BY <1>1, <2>1, <2>3, MoveFact
  <2>6. \A p \in Array!Places : flat'[p] \in {Junk, mem'[p]}
    BY <2>1 DEF ArrayInv
  <2> QED
    BY <1>1, <2>1, <2>3, <2>4, <2>5, <2>6, ArrayThen
<1> QED
    BY <1>5, <1>6

\* setPosition().
LEMMA PositionKeeps ==
    ASSUME ArrayInv, NEW v \in Nat, Array!SetPosition(v) PROVE ArrayInv'
<1>1. /\ nodes \in Nat \ {0} /\ nodes <= MaxBlocks /\ m_size \in Nat /\ m_size <= nodes * Base
      /\ exact = TRUE
    BY DEF ArrayInv
<1>2. v <= nodes * Base /\ Array!MoveTo(v, nodes) /\ UNCHANGED <<nodes, mem, flat, exact, fault>>
    BY DEF Array!SetPosition
<1>3. /\ m_position' = v /\ m_size' \in Nat /\ m_size' <= nodes * Base
      /\ m_cur' = Array!NodeOf(v, nodes)
    BY <1>1, <1>2, MoveFact
<1>4. \A p \in Array!Places : flat'[p] \in {Junk, mem'[p]}
    BY <1>2 DEF ArrayInv
<1> QED
    BY <1>1, <1>2, <1>3, <1>4, ArrayThen

\* The first block, at its beginning: where an array starts and clear() returns to.
LEMMA FirstBlock == 1 * Base \in Nat /\ 0 <= 1 * Base /\ 1 <= MaxBlocks /\ Array!NodeOf(0, 1) = 1
<1>1. Base \in Nat /\ Base > 0 /\ MaxBlocks \in Nat \ {0}
    BY LibraryConstants
<1>2. 1 * Base = Base /\ 0 * Base = 0
    BY <1>1
<1>3. 0 \div Base = 0
    BY <1>2, TimesFact
<1>4. 0 # 1 * Base
    BY <1>1, <1>2
<1> QED
    BY <1>1, <1>2, <1>3, <1>4 DEF Array!NodeOf

\* clear(): the first block stays, and nothing in it counts.
LEMMA ClearArrayKeeps ==
    ASSUME ArrayInv, Array!Clear PROVE ArrayInv'
<1>1. /\ nodes' = 1 /\ m_position' = 0 /\ m_size' = 0 /\ m_cur' = 1 /\ exact' = TRUE
      /\ flat' = [p \in Array!Places |-> Junk]
    BY DEF ArrayInv, Array!Clear
<1> QED
    BY <1>1, FirstBlock, ArrayThen

\* Every call keeps the invariant.
LEMMA ArrayNext == ArrayInv /\ Array!Next => ArrayInv'
<1> SUFFICES ASSUME ArrayInv, Array!Next PROVE ArrayInv'
    OBVIOUS
<1>1. MaxLen \in Nat /\ Base * MaxBlocks \in Nat
    BY LibraryConstants
<1>2. ASSUME NEW s \in Array!Data, Array!Fits(Len(s)) /\ Array!Write(s) PROVE ArrayInv'
    BY <1>2, WriteKeeps
<1>3. ASSUME NEW len \in 1 .. MaxLen, NEW s \in Array!Data \cup {<< >>},
             Array!Fits(len) /\ Array!ReadFromSocket(len, s)
      PROVE  ArrayInv'
  <2>1. len \in Nat \ {0}
    BY <1>1
  <2> QED
    BY <1>3, <2>1, ReceiveKeeps
<1>4. ASSUME NEW len \in 0 .. MaxLen,
             Array!Read(len) \/ \E sent \in 1 .. len : Array!WriteToSocket(len, sent)
      PROVE  ArrayInv'
  <2>1. len \in Nat /\ \A sent \in 1 .. len : sent \in Nat
    BY <1>1
  <2> QED
    BY <1>4, <2>1, ReadKeeps, SendKeeps
<1>5. ASSUME NEW v \in 0 .. Base * MaxBlocks, Array!SetPosition(v) PROVE ArrayInv'
  <2>1. v \in Nat
    BY <1>1
  <2> QED
    BY <1>5, <2>1, PositionKeeps
<1> QED
    BY <1>2, <1>3, <1>4, <1>5, StringKeeps, ClearArrayKeeps DEF Array!Next

\* Every read gets the bytes last written at its position, for any block size, any number
\* of blocks and any lengths.
THEOREM BytesCorrect == Spec => []BytesExact
<1>1. Init => ArrayInv
  <2> SUFFICES ASSUME Array!Init PROVE ArrayInv
    BY DEF Init
  <2>1. nodes = 1 /\ m_position = 0 /\ m_size = 0 /\ m_cur = 1 /\ exact = TRUE
    BY DEF Array!Init
  <2>2. \A p \in Array!Places : flat[p] \in {Junk, mem[p]}
    BY DEF Array!Init
  <2> QED
    BY <2>1, <2>2, FirstBlock DEF ArrayInv
<1>2. ArrayInv /\ [Next]_<<part, arrayVars, dispatchVars, logVars>> => ArrayInv'
  <2>1. ArrayInv /\ UNCHANGED arrayVars => ArrayInv'
    BY DEF arrayVars, ArrayInv, Array!NodeOf, Array!Places, Array!NULL
  <2> QED
    BY <2>1, ArrayNext DEF Next
<1>3. ArrayInv => BytesExact
  <2> SUFFICES ASSUME ArrayInv, NEW p \in 0 .. m_size - 1 PROVE flat[p] \in {Junk, mem[p]}
    BY DEF ArrayInv, BytesExact, Array!BytesExact
  <2>1. nodes \in Nat /\ nodes <= MaxBlocks /\ nodes * Base \in Nat /\ m_size \in Nat /\ m_size <= nodes * Base
    BY GrowFact DEF ArrayInv
  <2>2. p \in Nat /\ p < nodes * Base
    BY <2>1
  <2>3. p \in Array!Places
    BY <2>1, <2>2, PlaceFact
  <2> QED
    BY <2>3 DEF ArrayInv
<1> QED
    BY <1>1, <1>2, <1>3, PTL DEF Spec

=============================================================================
