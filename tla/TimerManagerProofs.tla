------------------------- MODULE TimerManagerProofs -------------------------
(***************************************************************************)
(* Proofs about the timer queue, for any number of timers, user threads    *)
(* and pollers and for all durations.  The argument is one inductive       *)
(* invariant in layers, each of which uses the ones before it:             *)
(*                                                                         *)
(*   TypeInv   the types, and no period is longer than its deadline;       *)
(*   QueueInv  what the nodes of the set, the callbacks and the timers     *)
(*             under construction have to do with each other;              *)
(*   ShotInv   where the callback of a one-shot timer is;                  *)
(*   TimeInv   how the clock readings relate to the clock;                 *)
(*   PeriodInv the periods and deadlines are those that users asked for;   *)
(*   WakeInv   who is going to look at the first timer.                    *)
(***************************************************************************)
EXTENDS TimerManager, WellFoundedInduction, TLAPS

\* Every non-empty set of nodes has a front: std::set::begin() is the first
\* element in the order of Timer::Comparator.
LEMMA FrontExists ==
    ASSUME NEW s, s \subseteq Nat \X Timers, s # {}
    PROVE  \E e \in s : IsFront(e, s)
<1> DEFINE R == {ss \in Nat \X Nat : ss[1] < ss[2]}
           Keys == {e[1] : e \in s}
           At(k) == {t \in Timers : <<k, t>> \in s}
<1>1. IsWellFoundedOn(R, Nat)
  BY NatLessThanWellFounded, Zenon DEF OpToRel
<1>2. \A i, j \in Nat : <<i, j>> \in R <=> i < j
  OBVIOUS
<1>3. Keys \subseteq Nat /\ Keys # {}
  OBVIOUS
<1>4. ASSUME NEW T, T \subseteq Nat, T # {}
      PROVE  \E x \in T : \A y \in T : x <= y
  <2> HIDE DEF R
  <2>1. PICK x \in T : \A y \in T : ~(<<y, x>> \in R)
    BY <1>1, <1>4, WFMin
  <2>2. ASSUME NEW y \in T PROVE x <= y
    <3>1. ~(y < x) /\ x \in Nat /\ y \in Nat
      BY <1>2, <1>4, <2>1, Zenon
    <3> QED BY <3>1
  <2> QED BY <2>2
<1>5. \A f \in s : f[1] \in Keys /\ f[2] \in At(f[1]) /\ f = <<f[1], f[2]>>
  <2> SUFFICES ASSUME NEW f \in s
               PROVE  f[1] \in Keys /\ f[2] \in At(f[1]) /\ f = <<f[1], f[2]>>
    OBVIOUS
  <2>1. f \in Nat \X Timers
    OBVIOUS
  <2>2. f = <<f[1], f[2]>> /\ f[2] \in Timers
    BY <2>1
  <2> QED BY <2>2
<1>6. PICK k \in Keys : \A j \in Keys : k <= j
  <2> HIDE DEF Keys
  <2> QED BY <1>3, <1>4
<1>7. At(k) \subseteq Nat /\ At(k) # {}
  BY <1>5, TimerConstants
<1>8. PICK a \in At(k) : \A b \in At(k) : a <= b
  <2> HIDE DEF At
  <2> QED BY <1>4, <1>7
<1>9. ASSUME NEW f \in s PROVE <<k, a>> = f \/ Less(<<k, a>>, f)
  <2> HIDE DEF Keys, At
  <2>1. /\ f[1] \in Keys /\ f[2] \in At(f[1]) /\ f = <<f[1], f[2]>>
        /\ k <= f[1] /\ (f[1] = k => a <= f[2])
    BY <1>5, <1>6, <1>8
  <2>2. f[1] \in Nat /\ k \in Nat /\ a \in Nat /\ (f[1] = k => f[2] \in Nat)
    BY <1>3, <1>7, <2>1
  <2> QED BY <2>1, <2>2 DEF Less
<1> QED BY <1>9 DEF IsFront

-----------------------------------------------------------------------------
(* Types. *)

\* (int)n is an integer no larger than n, and n itself for small n.
LEMMA ToIntValue ==
    ASSUME NEW n \in Nat
    PROVE  /\ ToInt(n) \in Int
           /\ n < IntMod \div 2 => ToInt(n) = n
<1>1. IntMod \in Nat /\ IntMod > 1
  BY TimerConstants
<1>2. n % IntMod \in 0 .. (IntMod - 1)
  BY <1>1
<1>3. n < IntMod \div 2 => n % IntMod = n
  BY <1>1
<1> QED BY <1>1, <1>2, <1>3 DEF ToInt

\* getNextTimer() computes the distance to the first deadline of all.
LEMMA UntilFirstValue ==
    ASSUME m_timers \subseteq Nat \X Timers, m_timers # {}, clock \in Nat
    PROVE  \E e \in m_timers :
             /\ IsFront(e, m_timers)
             /\ UntilFirst = IF clock >= e[1] THEN 0 ELSE e[1] - clock
             /\ UntilFirst \in Nat
<1> DEFINE e == CHOOSE e \in m_timers : IsFront(e, m_timers)
<1>1. e \in m_timers /\ IsFront(e, m_timers)
  BY FrontExists
<1>2. UntilFirst = IF clock >= e[1] THEN 0 ELSE e[1] - clock
  BY DEF UntilFirst
<1> HIDE DEF e
<1>3. e[1] \in Nat
  BY <1>1
<1> QED BY <1>1, <1>2, <1>3

\* idle() waits until some time that is a natural number.
LEMMA WaitEndType ==
    ASSUME NEW n \in Nat, clock \in Nat
    PROVE  WaitEnd(n) \in Nat
<1>1. ToInt(n) \in Int
  BY ToIntValue
<1>2. Forever \in Nat /\ MAX_TIMEOUT \in Nat
  BY TimerConstants DEF Forever
<1> QED BY <1>1, <1>2 DEF WaitEnd

\* The deadline of a timer is never before its period: reset() does not wrap
\* around when it subtracts the one from the other.
PeriodFits == \A t \in Timers : m_ms[t] <= m_next[t]

\* A thread inside a call works on a timer that has been constructed.
BusyOnCreated == \A u \in Users : upc[u] # "idle" => ut[u] \in created

TypeInv == TypeOK /\ PeriodFits /\ BusyOnCreated

\* A TimerManager that has just been constructed is well typed.
LEMMA TypeInit == Init => TypeInv
<1> SUFFICES ASSUME Init PROVE TypeInv
  OBVIOUS
<1> USE DEF Init
<1>1. (CHOOSE t \in Timers : TRUE) \in Timers
  BY TimerConstants
<1>2. /\ clock \in StartClock .. MaxClock /\ backs \in 0 .. MaxBack
      /\ m_previouseTime \in Nat
  BY TimerConstants
<1>3. /\ upc \in [Users -> Phases] /\ ut \in [Users -> Timers]
      /\ ums \in [Users -> Nat] /\ ufn \in [Users -> BOOLEAN]
  BY <1>1 DEF Phases
<1>4. /\ ppc \in [Pollers -> Stages] /\ wake \in [Pollers -> Nat]
      /\ now_ms \in [Pollers -> Nat] /\ cbs \in [Pollers -> SUBSET Timers]
  BY DEF Stages
<1>5. /\ m_cb \in [Timers -> BOOLEAN] /\ m_recurring \in [Timers -> BOOLEAN]
      /\ m_ms \in [Timers -> Nat] /\ m_next \in [Timers -> Nat]
      /\ delivered \in [Timers -> 0 .. 2] /\ cancelled \in [Timers -> BOOLEAN]
  OBVIOUS
<1>6. TypeOK
  BY <1>2, <1>3, <1>4, <1>5 DEF TypeOK
<1> QED BY <1>6 DEF TypeInv, PeriodFits, BusyOnCreated

\* Both kinds of insertion keep the types.
LEMMA InsertType ==
    ASSUME TypeOK, NEW u \in Users, NEW n \in Nat, NEW t \in created,
           NEW s, s \subseteq Nat \X Timers,
           InsertLocked(u, <<n, t>>, s)
    PROVE  /\ m_timers' \subseteq Nat \X Timers
           /\ m_tickled' \in BOOLEAN
           /\ upc' \in [Users -> Phases]
           /\ handles' \subseteq created
<1>1. t \in Timers
  BY DEF TypeOK
<1> DEFINE front == IsFront(<<n, t>>, s) /\ ~m_tickled
<1>2. /\ m_timers' = s \cup {<<n, t>>}
      /\ m_tickled' = (m_tickled \/ front)
      /\ upc' = [upc EXCEPT ![u] = IF front THEN "notify" ELSE "idle"]
      /\ handles' = IF front THEN handles ELSE handles \cup {t}
  BY DEF InsertLocked
<1> HIDE DEF front
<1> QED BY <1>1, <1>2 DEF TypeOK, Phases

\* Every operation of a timer, and every step of idle(), keeps the fields and
\* locals in their types: the unsigned subtraction of reset() does not wrap.
LEMMA TypeStep == TypeInv /\ [Next]_vars => TypeInv'
<1> SUFFICES ASSUME TypeInv, [Next]_vars PROVE TypeInv'
  OBVIOUS
<1> USE DEF TypeInv, PeriodFits, BusyOnCreated, Phases, Stages, timerVars,
            userVars, pollVars, ghostVars
<1>0. clock \in Nat /\ \A c \in StartClock .. MaxClock : c \in Nat
  BY TimerConstants DEF TypeOK
<1>1. ASSUME NEW u \in Users, NEW t \in Timers, NEW ms \in Durations,
             NEW r \in BOOLEAN, NewTimer(u, t, ms, r)
      PROVE  TypeInv'
  <2>1. ms \in Nat /\ clock + ms \in Nat /\ ms <= clock + ms
    BY <1>0, TimerConstants
  <2>2. TypeOK'
    BY <1>1, <2>1 DEF NewTimer, TypeOK
  <2>3. PeriodFits'
    BY <1>1, <2>1 DEF NewTimer, TypeOK
  <2>4. BusyOnCreated'
    BY <1>1 DEF NewTimer, TypeOK
  <2> QED BY <2>2, <2>3, <2>4
<1>2. ASSUME NEW u \in Users, AddTimer(u) PROVE TypeInv'
  <2>1. ut[u] \in created /\ ut[u] \in Timers /\ m_next[ut[u]] \in Nat
    BY <1>2 DEF AddTimer, TypeOK
  <2>2. InsertLocked(u, <<m_next[ut[u]], ut[u]>>, m_timers)
    BY <1>2 DEF AddTimer, Node
  <2>3. /\ m_timers' \subseteq Nat \X Timers /\ m_tickled' \in BOOLEAN
        /\ upc' \in [Users -> Phases] /\ handles' \subseteq created
    <3>1. m_timers \subseteq Nat \X Timers
      BY DEF TypeOK
    <3> QED BY <2>1, <2>2, <3>1, InsertType
  <2>4. \A v \in Users : v # u => upc'[v] = upc[v]
    BY <2>2 DEF InsertLocked, TypeOK
  <2>5. TypeOK'
    BY <1>2, <2>3 DEF AddTimer, TypeOK
  <2>6. PeriodFits'
    BY <1>2 DEF AddTimer
  <2>7. BusyOnCreated'
    BY <1>2, <2>1, <2>4 DEF AddTimer
  <2> QED BY <2>5, <2>6, <2>7
<1>3. ASSUME NEW u \in Users, Notify(u) PROVE TypeInv'
  <2>1. pipe' \in BOOLEAN
    BY <1>3 DEF Notify, Tickle, TypeOK
  <2> QED BY <1>3, <2>1 DEF Notify, TypeOK
<1>4. ASSUME NEW u \in Users, NEW t \in Timers, Cancel(u, t) PROVE TypeInv'
  BY <1>4 DEF Cancel, TypeOK
<1>5. ASSUME NEW u \in Users, NEW t \in Timers, Refresh(u, t) PROVE TypeInv'
  <2>1. clock + m_ms[t] \in Nat /\ m_ms[t] <= clock + m_ms[t]
    BY <1>0 DEF TypeOK
  <2> QED BY <1>5, <2>1 DEF Refresh, TypeOK
<1>6. ASSUME NEW u \in Users, NEW t \in Timers, NEW ms \in Durations,
             NEW f \in BOOLEAN, ResetTest(u, t, ms, f)
      PROVE  TypeInv'
  BY <1>6, TimerConstants DEF ResetTest, TypeOK
<1>7. ASSUME NEW u \in Users, Reset(u) PROVE TypeInv'
  <2> DEFINE t == ut[u]
             start == IF ufn[u] THEN clock ELSE m_next[t] - m_ms[t]
             next == start + ums[u]
  <2>1. t \in created /\ t \in Timers
    BY <1>7 DEF Reset, TypeOK
  <2>2. start \in Nat /\ next \in Nat /\ ums[u] \in Nat /\ ums[u] <= next
    <3>1. m_next[t] \in Nat /\ m_ms[t] \in Nat /\ m_ms[t] <= m_next[t]
          /\ ums[u] \in Nat
      BY <2>1 DEF TypeOK
    <3> QED BY <3>1, <1>0
  <2>3. CASE m_cb[t] /\ InSet(t)
    <3>1. /\ m_ms' = [m_ms EXCEPT ![t] = ums[u]]
          /\ m_next' = [m_next EXCEPT ![t] = next]
          /\ InsertLocked(u, <<next, t>>, m_timers \ {Node(t)})
          /\ ums' = [ums EXCEPT ![u] = 0] /\ ufn' = [ufn EXCEPT ![u] = FALSE]
          /\ UNCHANGED <<clock, backs, m_previouseTime, created, m_cb,
                         m_recurring, ut, pollVars, ghostVars, fault>>
      BY <1>7, <2>3 DEF Reset
    <3> HIDE DEF start, next, t
    <3>2. /\ m_timers' \subseteq Nat \X Timers /\ m_tickled' \in BOOLEAN
          /\ upc' \in [Users -> Phases] /\ handles' \subseteq created
      <4>1. m_timers \ {Node(t)} \subseteq Nat \X Timers
        BY DEF TypeOK
      <4> QED BY <2>1, <2>2, <3>1, <4>1, InsertType
    <3>3. \A v \in Users : v # u => upc'[v] = upc[v]
      BY <3>1 DEF InsertLocked, TypeOK
    <3>4. TypeOK'
      BY <2>1, <2>2, <3>1, <3>2 DEF TypeOK
    <3>5. PeriodFits'
      BY <2>1, <2>2, <3>1 DEF TypeOK
    <3>6. BusyOnCreated'
      BY <2>1, <3>1, <3>3 DEF t
    <3> QED BY <3>4, <3>5, <3>6
  <2>4. CASE ~(m_cb[t] /\ InSet(t))
    BY <1>7, <2>4 DEF Reset, TypeOK
  <2> QED BY <2>3, <2>4
<1>8. ASSUME NEW p \in Pollers, GetNextTimer(p) PROVE TypeInv'
  <2>1. clock + MAX_TIMEOUT \in Nat
    BY <1>0, TimerConstants
  <2>2. m_timers # {} => WaitEnd(UntilFirst) \in Nat
    <3>1. m_timers # {} => UntilFirst \in Nat
      BY <1>0, UntilFirstValue DEF TypeOK
    <3> QED BY <1>0, <3>1, WaitEndType
  <2> QED BY <1>8, <2>1, <2>2 DEF GetNextTimer, TypeOK
<1>9. ASSUME NEW p \in Pollers, Wake(p) PROVE TypeInv'
  BY <1>0, <1>9 DEF Wake, TypeOK
<1>10. ASSUME NEW p \in Pollers, CheckEmpty(p) PROVE TypeInv'
  BY <1>10 DEF CheckEmpty, TypeOK
<1>11. ASSUME NEW p \in Pollers, ListExpiredCb(p) PROVE TypeInv'
  <2>1. now_ms[p] \in Nat /\ \A t \in Timers : now_ms[p] + m_ms[t] \in Nat
                                           /\ m_ms[t] <= now_ms[p] + m_ms[t]
    BY DEF TypeOK
  <2>2. CASE m_timers = {} /\ ~Rollover(now_ms[p])
    BY <1>11, <2>1, <2>2 DEF ListExpiredCb, TypeOK
  <2>3. ASSUME NEW nodes \in SUBSET m_timers, HandOut(p, nodes) PROVE TypeInv'
    <3> DEFINE expired == {e[2] : e \in nodes}
               again == {t \in expired : m_recurring[t]}
    <3>1. expired \subseteq Timers /\ again \subseteq Timers
      BY DEF TypeOK
    <3>2. m_timers' \subseteq Nat \X Timers
      BY <2>1, <2>3, <3>1 DEF HandOut, TypeOK
    <3>3. m_next' \in [Timers -> Nat] /\ m_cb' \in [Timers -> BOOLEAN]
      BY <2>1, <2>3 DEF HandOut, TypeOK
    <3>4. TypeOK'
      BY <1>11, <2>1, <2>3, <3>1, <3>2, <3>3 DEF ListExpiredCb, HandOut, TypeOK
    <3>5. PeriodFits'
      BY <1>11, <2>1, <2>3 DEF ListExpiredCb, HandOut, TypeOK
    <3>6. BusyOnCreated'
      BY <1>11 DEF ListExpiredCb
    <3> QED BY <3>4, <3>5, <3>6
  <2> QED BY <1>11, <2>2, <2>3 DEF ListExpiredCb, Expired
<1>12. ASSUME NEW p \in Pollers, Schedule(p) PROVE TypeInv'
  BY <1>12 DEF Schedule, TypeOK
<1>13. CASE StoppingPoll
  BY <1>13 DEF StoppingPoll, TypeOK
<1>14. CASE Tick
  BY <1>0, <1>14, TimerConstants DEF Tick, TypeOK
<1>15. ASSUME NEW c \in StartClock .. MaxClock, SetBack(c) PROVE TypeInv'
  BY <1>0, <1>15, TimerConstants DEF SetBack, TypeOK
<1>16. CASE UNCHANGED vars
  BY <1>16 DEF vars, TypeOK
<1> QED
  BY <1>1, <1>2, <1>3, <1>4, <1>5, <1>6, <1>7, <1>8, <1>9, <1>10, <1>11, <1>12,
     <1>13, <1>14, <1>15, <1>16 DEF Next, UserStep, PollStep

\* The types hold in every reachable state.
LEMMA TypeAlways == Spec => []TypeInv
BY TypeInit, TypeStep, PTL DEF Spec

\* Every field of Timer and TimerManager and every local of the threads that
\* use them keeps its type; in particular the unsigned subtraction of reset()
\* never wraps.
THEOREM TypeCorrect == Spec => []TypeOK
<1>1. TypeInv => TypeOK
  BY DEF TypeInv
<1> QED BY <1>1, TypeAlways, PTL

-----------------------------------------------------------------------------
(* The queue and the callbacks. *)

\* The nodes of the set carry current deadlines and belong to created timers.
NodesCurrent == \A e \in m_timers : e[2] \in created /\ e[1] = m_next[e[2]]

\* A timer between its construction and its insertion is nobody else's.
InsertingAlone ==
    \A u \in Users : upc[u] = "insert" =>
      /\ ut[u] \notin handles /\ m_cb[ut[u]] /\ ~InSet(ut[u])
      /\ \A v \in Users : v # u /\ upc[v] # "idle" => ut[v] # ut[u]

\* A thread in reset() was given a timer that has been handed out.
ResetsHandle == \A u \in Users : upc[u] = "reset" => ut[u] \in handles

\* A callback is set exactly while its timer is queued or being inserted.
CallbackQueued ==
    \A t \in Timers : m_cb[t] <=> (InSet(t) \/ Inserting(t))

QueueInv ==
    /\ NodesCurrent /\ InsertingAlone /\ ResetsHandle /\ CallbackQueued
    /\ fault # "erase_end"

\* The queue is empty at first.
LEMMA QueueInit == Init => QueueInv
BY DEF Init, QueueInv, NodesCurrent, InsertingAlone, ResetsHandle,
       CallbackQueued, InSet, Inserting

\* What QueueInv is about.
queueVars == <<m_timers, created, handles, m_cb, m_next, upc, ut, fault>>

\* Steps that leave the queue, the deadlines and the callbacks alone keep the
\* queue in order.
LEMMA QueueFrame == QueueInv /\ UNCHANGED queueVars => QueueInv'
BY DEF queueVars, QueueInv, NodesCurrent, InsertingAlone, ResetsHandle,
       CallbackQueued, InSet, Inserting, Node

\* addTimer(val, lock), whether it inserts a new timer or one that reset() has
\* just taken out.
LEMMA QueueInsert ==
    ASSUME TypeInv, QueueInv, NEW u \in Users, NEW t \in created, NEW n,
           t = ut[u], m_cb[t],
           upc[u] = "insert" \/ upc[u] = "reset",
           InsertLocked(u, <<n, t>>, {e \in m_timers : e[2] # t}),
           m_next' = [m_next EXCEPT ![t] = n],
           UNCHANGED <<created, m_cb, ut, fault>>
    PROVE  QueueInv'
<1>0. TypeOK /\ t \in Timers
  BY DEF TypeInv, TypeOK
<1>1. \A e \in m_timers : e[1] \in Nat /\ e[2] \in Timers /\ e = <<e[1], e[2]>>
  BY <1>0 DEF TypeOK
<1>2. /\ m_timers' = {e \in m_timers : e[2] # t} \cup {<<n, t>>}
      /\ handles \subseteq handles' /\ handles' \subseteq handles \cup {t}
      /\ upc'[u] \in {"idle", "notify"}
      /\ \A v \in Users \ {u} : upc'[v] = upc[v]
  BY <1>0 DEF InsertLocked, TypeOK
<1>3. m_next'[t] = n /\ \A s \in Timers \ {t} : m_next'[s] = m_next[s]
  BY <1>0 DEF TypeOK
<1>4. \A v \in Users \ {u} : upc[v] = "insert" => ut[v] # t
  BY DEF QueueInv, InsertingAlone
<1>5. NodesCurrent'
  BY <1>1, <1>2, <1>3 DEF QueueInv, NodesCurrent
<1>6. \A s \in Timers : InSet(s)' <=> InSet(s) \/ s = t
  BY <1>1, <1>2, <1>3 DEF InSet, Node
<1>7. \A s \in Timers : Inserting(s)' <=> Inserting(s) /\ s # t
  BY <1>2, <1>4, <1>0 DEF Inserting, QueueInv, ResetsHandle, InsertingAlone
<1>8. InsertingAlone'
  <2> SUFFICES ASSUME NEW v \in Users, upc'[v] = "insert"
               PROVE  /\ ut[v] \notin handles' /\ m_cb[ut[v]] /\ ~InSet(ut[v])'
                      /\ \A w \in Users : w # v /\ upc'[w] # "idle" => ut[w] # ut[v]
    BY DEF InsertingAlone, InSet, Node
  <2>1. v # u /\ upc[v] = "insert" /\ ut[v] # t /\ ut[v] \in Timers
    BY <1>0, <1>2, <1>4 DEF TypeOK
  <2>2. /\ ut[v] \notin handles /\ m_cb[ut[v]] /\ ~InSet(ut[v])
        /\ \A w \in Users : w # v /\ upc[w] # "idle" => ut[w] # ut[v]
    BY <2>1 DEF QueueInv, InsertingAlone
  <2> QED BY <1>2, <1>6, <2>1, <2>2
<1>9. ResetsHandle'
  BY <1>2 DEF QueueInv, ResetsHandle
<1>10. CallbackQueued'
  BY <1>6, <1>7 DEF QueueInv, CallbackQueued
<1> QED BY <1>5, <1>8, <1>9, <1>10 DEF QueueInv

\* Every operation keeps each timer with a callback in the set, once and under
\* its current deadline.
LEMMA QueueStep == TypeInv /\ QueueInv /\ [Next]_vars => QueueInv'
<1> SUFFICES ASSUME TypeInv, QueueInv, [Next]_vars PROVE QueueInv'
  OBVIOUS
<1>0. TypeOK /\ BusyOnCreated
  BY DEF TypeInv
<1>a. \A e \in m_timers : e[1] \in Nat /\ e[2] \in Timers /\ e = <<e[1], e[2]>>
  BY <1>0 DEF TypeOK
<1> USE DEF QueueInv, timerVars, userVars, pollVars, ghostVars
<1>1. ASSUME NEW u \in Users, NEW t \in Timers, NEW ms \in Durations,
             NEW r \in BOOLEAN, NewTimer(u, t, ms, r)
      PROVE  QueueInv'
  <2>1. t \notin created /\ \A e \in m_timers : e[2] # t
    BY <1>1 DEF NewTimer, NodesCurrent
  <2>2. \A v \in Users : upc[v] # "idle" => ut[v] # t
    BY <1>0, <2>1 DEF BusyOnCreated
  <2>3. \A s \in Timers \ {t} : m_next'[s] = m_next[s] /\ m_cb'[s] = m_cb[s]
    BY <1>0, <1>1 DEF NewTimer, TypeOK
  <2>4. /\ m_cb'[t] /\ upc'[u] = "insert" /\ ut'[u] = t /\ m_timers' = m_timers
        /\ handles' = handles /\ fault' = fault /\ created \subseteq created'
        /\ upc[u] = "idle"
    BY <1>0, <1>1 DEF NewTimer, TypeOK
  <2>5. \A v \in Users \ {u} : upc'[v] = upc[v] /\ ut'[v] = ut[v]
    BY <1>0, <1>1 DEF NewTimer, TypeOK
  <2>6. NodesCurrent'
    BY <1>a, <2>1, <2>3, <2>4 DEF NodesCurrent
  <2>7. \A s \in Timers : InSet(s)' <=> InSet(s) /\ s # t
    BY <1>a, <2>1, <2>3, <2>4 DEF InSet, Node
  <2>8. \A s \in Timers : Inserting(s)' <=> Inserting(s) \/ s = t
    BY <2>2, <2>4, <2>5 DEF Inserting
  <2>9. InsertingAlone'
    <3>1. t \notin handles
      BY <1>0, <2>1 DEF TypeOK
    <3> QED BY <1>0, <2>2, <2>3, <2>4, <2>5, <2>7, <3>1 DEF InsertingAlone, TypeOK
  <2>10. ResetsHandle'
    BY <2>4, <2>5 DEF ResetsHandle
  <2>11. CallbackQueued'
    BY <2>1, <2>3, <2>4, <2>7, <2>8, <1>a DEF CallbackQueued
  <2> QED BY <2>4, <2>6, <2>9, <2>10, <2>11
<1>2. ASSUME NEW u \in Users, AddTimer(u) PROVE QueueInv'
  <2> DEFINE t == ut[u]
  <2>1. /\ upc[u] = "insert" /\ t \in created /\ t \in Timers
        /\ m_cb[t] /\ ~InSet(t)
    BY <1>0, <1>2 DEF AddTimer, InsertingAlone, BusyOnCreated, TypeOK
  <2>2. m_timers = {e \in m_timers : e[2] # t}
    BY <1>a, <2>1 DEF InSet, Node, NodesCurrent
  <2>3. InsertLocked(u, <<m_next[t], t>>, {e \in m_timers : e[2] # t})
    BY <1>2, <2>2 DEF AddTimer, Node
  <2>4. m_next' = [m_next EXCEPT ![t] = m_next[t]]
    BY <1>0, <1>2 DEF AddTimer, TypeOK
  <2>5. UNCHANGED <<created, m_cb, ut, fault>>
    BY <1>2 DEF AddTimer
  <2> HIDE DEF QueueInv
  <2> QED BY <2>1, <2>3, <2>4, <2>5, QueueInsert
<1>3. ASSUME NEW u \in Users, Notify(u) PROVE QueueInv'
  <2>1. /\ UNCHANGED <<m_timers, created, m_cb, m_next, ut, fault>>
        /\ upc[u] = "notify" /\ upc'[u] = "idle" /\ handles' = handles \cup {ut[u]}
        /\ \A v \in Users \ {u} : upc'[v] = upc[v]
    BY <1>0, <1>3 DEF Notify, TypeOK
  <2>2. InsertingAlone'
    BY <2>1 DEF InsertingAlone, InSet, Node
  <2> QED BY <2>1, <2>2 DEF NodesCurrent, ResetsHandle, CallbackQueued, InSet, Node, Inserting
<1>4. ASSUME NEW u \in Users, NEW t \in Timers, Cancel(u, t) PROVE QueueInv'
  <2>1. /\ t \in handles /\ m_cb[t] /\ ~m_cb'[t]
        /\ \A s \in Timers \ {t} : m_cb'[s] = m_cb[s]
        /\ UNCHANGED <<created, handles, m_next, upc, ut>>
    BY <1>0, <1>4 DEF Cancel, TypeOK
  <2>2. ~Inserting(t)
    BY <2>1 DEF Inserting, InsertingAlone
  <2>3. InSet(t)
    BY <2>1, <2>2 DEF CallbackQueued
  <2>4. m_timers' = m_timers \ {Node(t)} /\ fault' = fault
    BY <1>4, <2>3 DEF Cancel
  <2>5. \A s \in Timers : InSet(s)' <=> InSet(s) /\ s # t
    BY <1>a, <2>1, <2>4 DEF InSet, Node
  <2>6. InsertingAlone'
    <3>1. \A v \in Users : ut[v] \in Timers
      BY <1>0 DEF TypeOK
    <3> QED BY <2>1, <2>5, <3>1 DEF InsertingAlone, InSet, Node
  <2>7. NodesCurrent' /\ ResetsHandle'
    BY <2>1, <2>4 DEF NodesCurrent, ResetsHandle
  <2>8. CallbackQueued'
    BY <2>1, <2>2, <2>5 DEF CallbackQueued, Inserting
  <2> QED BY <2>4, <2>6, <2>7, <2>8
<1>5. ASSUME NEW u \in Users, NEW t \in Timers, Refresh(u, t) PROVE QueueInv'
  <2> DEFINE n == clock + m_ms[t]
  <2>1. /\ t \in handles /\ InSet(t) /\ m_next'[t] = n
        /\ \A s \in Timers \ {t} : m_next'[s] = m_next[s]
        /\ m_timers' = (m_timers \ {Node(t)}) \cup {<<n, t>>}
        /\ UNCHANGED <<created, handles, m_cb, upc, ut, fault>>
    BY <1>0, <1>5 DEF Refresh, TypeOK
  <2>2. t \in created /\ \A v \in Users : ut[v] \in Timers
    BY <1>0, <2>1 DEF TypeOK
  <2> HIDE DEF n
  <2>3. m_timers' = {e \in m_timers : e[2] # t} \cup {<<n, t>>}
    BY <1>a, <2>1 DEF NodesCurrent, Node
  <2>4. \A s \in Timers : InSet(s)' <=> InSet(s)
    BY <1>a, <2>1, <2>3 DEF InSet, Node
  <2>5. NodesCurrent'
    BY <1>a, <2>1, <2>2, <2>3 DEF NodesCurrent
  <2>6. InsertingAlone'
    BY <2>1, <2>2, <2>4 DEF InsertingAlone, InSet, Node
  <2>7. CallbackQueued'
    BY <2>1, <2>4 DEF CallbackQueued, Inserting
  <2> QED BY <2>1, <2>5, <2>6, <2>7 DEF ResetsHandle
<1>6. ASSUME NEW u \in Users, NEW t \in Timers, NEW ms \in Durations,
             NEW f \in BOOLEAN, ResetTest(u, t, ms, f)
      PROVE  QueueInv'
  <2>1. /\ t \in handles /\ upc[u] = "idle" /\ upc'[u] = "reset" /\ ut'[u] = t
        /\ \A v \in Users \ {u} : upc'[v] = upc[v] /\ ut'[v] = ut[v]
        /\ UNCHANGED <<m_timers, created, handles, m_cb, m_next, fault>>
    BY <1>0, <1>6 DEF ResetTest, TypeOK
  <2>2. InsertingAlone'
    BY <2>1 DEF InsertingAlone, InSet, Node
  <2>3. \A s \in Timers : Inserting(s)' <=> Inserting(s)
    BY <2>1 DEF Inserting
  <2>4. CallbackQueued'
    BY <2>1, <2>3 DEF CallbackQueued, InSet, Node
  <2> QED BY <2>1, <2>2, <2>4 DEF NodesCurrent, ResetsHandle
<1>7. ASSUME NEW u \in Users, Reset(u) PROVE QueueInv'
  <2> DEFINE t == ut[u]
             start == IF ufn[u] THEN clock ELSE m_next[t] - m_ms[t]
             next == start + ums[u]
  <2>1. /\ upc[u] = "reset" /\ t \in created /\ t \in Timers
        /\ UNCHANGED <<created, m_cb, ut, fault>>
    BY <1>0, <1>7 DEF Reset, BusyOnCreated, TypeOK
  <2>2. CASE m_cb[t] /\ InSet(t)
    <3>1. /\ m_next' = [m_next EXCEPT ![t] = next]
          /\ InsertLocked(u, <<next, t>>, m_timers \ {Node(t)})
      BY <1>7, <2>2 DEF Reset
    <3>2. m_timers \ {Node(t)} = {e \in m_timers : e[2] # t}
      BY <1>a DEF NodesCurrent, Node
    <3>3. InsertLocked(u, <<next, t>>, {e \in m_timers : e[2] # t})
      BY <3>1, <3>2, Zenon
    <3> HIDE DEF next, QueueInv
    <3> QED BY <2>1, <2>2, <3>1, <3>3, QueueInsert
  <2>3. CASE ~(m_cb[t] /\ InSet(t))
    <3>1. /\ UNCHANGED <<m_next, m_timers, handles>> /\ upc'[u] = "idle"
          /\ \A v \in Users \ {u} : upc'[v] = upc[v]
      BY <1>0, <1>7, <2>3 DEF Reset, TypeOK
    <3>2. InsertingAlone'
      BY <2>1, <3>1 DEF InsertingAlone, InSet, Node
    <3>3. \A s \in Timers : Inserting(s)' <=> Inserting(s)
      BY <2>1, <3>1 DEF Inserting
    <3>4. CallbackQueued'
      BY <2>1, <3>1, <3>3 DEF CallbackQueued, InSet, Node
    <3> QED BY <2>1, <3>1, <3>2, <3>4 DEF NodesCurrent, ResetsHandle
  <2> QED BY <2>2, <2>3
<1>8. ASSUME NEW p \in Pollers, GetNextTimer(p) PROVE UNCHANGED queueVars
  BY <1>8 DEF GetNextTimer, queueVars
<1>9. ASSUME NEW p \in Pollers, Wake(p) PROVE UNCHANGED queueVars
  BY <1>9 DEF Wake, queueVars
<1>10. ASSUME NEW p \in Pollers, CheckEmpty(p) PROVE UNCHANGED queueVars
  BY <1>10 DEF CheckEmpty, queueVars
<1>11. ASSUME NEW p \in Pollers, ListExpiredCb(p) PROVE QueueInv'
  <2>1. UNCHANGED <<created, handles, upc, ut>>
    BY <1>11 DEF ListExpiredCb
  <2>2. CASE m_timers = {} /\ ~Rollover(now_ms[p])
    <3>1. UNCHANGED <<m_timers, m_cb, m_next>> /\ fault' = "deref_empty"
      BY <1>11, <2>2 DEF ListExpiredCb
    <3> QED BY <2>1, <3>1 DEF NodesCurrent, InsertingAlone, ResetsHandle,
                              CallbackQueued, InSet, Node, Inserting
  <2>3. ASSUME NEW nodes \in SUBSET m_timers, HandOut(p, nodes) PROVE QueueInv'
    <3> DEFINE expired == {e[2] : e \in nodes}
               again == {t \in expired : m_recurring[t]}
    <3>1. /\ m_timers' = (m_timers \ nodes)
                      \cup {<<now_ms[p] + m_ms[t], t>> : t \in again}
          /\ \A t \in Timers : m_next'[t] = IF t \in again
                                            THEN now_ms[p] + m_ms[t]
                                            ELSE m_next[t]
          /\ \A t \in Timers : m_cb'[t] <=> m_cb[t] /\ t \notin expired \ again
          /\ fault' = fault
      BY <2>3 DEF HandOut
    <3>2. \A t \in Timers : t \in expired <=> InSet(t) /\ Node(t) \in nodes
      BY <1>a DEF NodesCurrent, Node, InSet
    <3>3. again \subseteq expired /\ expired \subseteq Timers
      BY <1>a
    <3> HIDE DEF expired, again
    <3>4. \A t \in Timers : InSet(t)' <=> InSet(t) /\ t \notin expired \ again
      <4> SUFFICES ASSUME NEW t \in Timers
                   PROVE  InSet(t)' <=> InSet(t) /\ t \notin expired \ again
        OBVIOUS
      <4>1. CASE t \in again
        BY <3>1, <3>2, <3>3, <4>1 DEF InSet, Node
      <4>2. CASE t \notin again
        <5>1. Node(t)' = Node(t)
          BY <3>1, <4>2 DEF Node
        <5>2. Node(t)' \in m_timers' <=> Node(t) \in m_timers \ nodes
          BY <3>1, <4>2, <5>1 DEF Node
        <5> QED BY <3>2, <4>2, <5>1, <5>2 DEF InSet
      <4> QED BY <4>1, <4>2
    <3>5. NodesCurrent'
      <4> SUFFICES ASSUME NEW e \in m_timers'
                   PROVE  e[2] \in created /\ e[1] = m_next'[e[2]]
        BY <2>1 DEF NodesCurrent
      <4>1. CASE e \in m_timers \ nodes
        <5>1. e[2] \in Timers /\ e = Node(e[2])
          BY <1>a, <4>1 DEF NodesCurrent, Node
        <5>2. e[2] \notin again
          BY <3>2, <3>3, <4>1, <5>1
        <5> QED BY <3>1, <4>1, <5>1, <5>2 DEF NodesCurrent
      <4>2. CASE e \in {<<now_ms[p] + m_ms[t], t>> : t \in again}
        <5>1. PICK t \in again : e = <<now_ms[p] + m_ms[t], t>>
          BY <4>2
        <5>2. t \in created
          BY <3>2, <3>3, <5>1 DEF NodesCurrent, InSet, Node
        <5> QED BY <3>1, <3>3, <5>1, <5>2
      <4> QED BY <3>1, <4>1, <4>2
    <3>6. InsertingAlone'
      <4>1. \A v \in Users : upc[v] = "insert" => ut[v] \notin expired /\ ut[v] \in Timers
        BY <1>0, <3>2 DEF InsertingAlone, TypeOK
      <4>2. \A t \in Timers : ~InSet(t) => ~(<<m_next'[t], t>> \in m_timers')
        BY <3>4 DEF InSet, Node
      <4>3. \A v \in Users : upc[v] = "insert" =>
              m_cb'[ut[v]] /\ ~(<<m_next'[ut[v]], ut[v]>> \in m_timers')
        BY <3>1, <4>1, <4>2 DEF InsertingAlone
      <4> QED BY <2>1, <4>3 DEF InsertingAlone, InSet, Node
    <3>7. CallbackQueued'
      <4>1. \A t \in Timers : Inserting(t)' <=> Inserting(t)
        BY <2>1 DEF Inserting
      <4>2. \A t \in Timers : t \in expired => ~Inserting(t)
        BY <3>2 DEF Inserting, InsertingAlone
      <4> QED BY <3>1, <3>4, <4>1, <4>2 DEF CallbackQueued
    <3> QED BY <2>1, <3>1, <3>5, <3>6, <3>7 DEF ResetsHandle
  <2> QED BY <1>11, <2>2, <2>3 DEF ListExpiredCb, Expired
<1>12. ASSUME NEW p \in Pollers, Schedule(p) PROVE UNCHANGED queueVars
  BY <1>12 DEF Schedule, queueVars
<1>13. CASE StoppingPoll \/ Tick \/ UNCHANGED vars
  <2>1. UNCHANGED queueVars
    BY <1>13 DEF StoppingPoll, Tick, vars, queueVars
  <2> QED BY <2>1, QueueFrame
<1>14. ASSUME NEW c \in StartClock .. MaxClock, SetBack(c)
       PROVE  UNCHANGED queueVars
  BY <1>14 DEF SetBack, queueVars
<1> QED
  BY <1>1, <1>2, <1>3, <1>4, <1>5, <1>6, <1>7, <1>8, <1>9, <1>10, <1>11, <1>12,
     <1>13, <1>14, QueueFrame DEF Next, UserStep, PollStep

\* The types and the order of the queue hold in every reachable state.
LEMMA QueueAlways == Spec => [](TypeInv /\ QueueInv)
BY TypeInit, TypeStep, QueueInit, QueueStep, PTL DEF Spec

\* The timers that have a callback are exactly those in the set, each under its
\* current deadline, at every point between the critical sections of addTimer,
\* cancel, refresh, reset and listExpiredCb.
THEOREM QueueCorrect == Spec => []QueueMatchesCallbacks
<1>1. TypeInv /\ QueueInv => QueueMatchesCallbacks
  <2> SUFFICES ASSUME TypeInv, QueueInv PROVE QueueMatchesCallbacks
    OBVIOUS
  <2>1. \A e \in m_timers : e = Node(e[2])
    <3>1. \A e \in m_timers : e = <<e[1], e[2]>>
      BY DEF TypeInv, TypeOK
    <3> QED BY <3>1 DEF QueueInv, NodesCurrent, Node
  <2>2. \A t \in created : m_cb[t] <=> (InSet(t) \/ Inserting(t))
    BY DEF QueueInv, CallbackQueued, TypeInv, TypeOK
  <2> QED BY <2>1, <2>2 DEF QueueMatchesCallbacks
<1> QED BY <1>1, QueueAlways, PTL

\* cancel() erases the result of find() without comparing it with end(), and
\* never needs to.
THEOREM CancelFindsNode == Spec => []NoEraseEnd
<1>1. QueueInv => NoEraseEnd
  BY DEF QueueInv, NoEraseEnd
<1> QED BY <1>1, QueueAlways, PTL

-----------------------------------------------------------------------------
(* One-shot timers. *)

\* The callback of a one-shot timer is in one place: in the Timer, in the
\* vector of one poller, or gone.
ShotInv ==
    \A t \in Timers :
      /\ t \notin created => delivered[t] = 0 /\ ~cancelled[t]
                             /\ ~m_cb[t] /\ \A p \in Pollers : t \notin cbs[p]
      /\ ~m_recurring[t] =>
           /\ m_cb[t] => /\ delivered[t] = 0 /\ ~cancelled[t]
                         /\ \A p \in Pollers : t \notin cbs[p]
           /\ \A p \in Pollers : t \in cbs[p] =>
                /\ delivered[t] = 0 /\ ~cancelled[t]
                /\ \A q \in Pollers : q # p => t \notin cbs[q]
           /\ delivered[t] <= 1
           /\ cancelled[t] => delivered[t] = 0

\* No callback has been handed out at first.
LEMMA ShotInit == Init => ShotInv
BY DEF Init, ShotInv

\* A one-shot callback is in one place at a time: with its timer, in the list
\* of one poller, scheduled or cancelled.
LEMMA ShotStep ==
    TypeInv /\ QueueInv /\ ShotInv /\ [Next]_vars => ShotInv'
<1> SUFFICES ASSUME TypeInv, QueueInv, ShotInv, [Next]_vars PROVE ShotInv'
  OBVIOUS
<1>0. TypeOK
  BY DEF TypeInv
<1> USE DEF timerVars, userVars, pollVars, ghostVars
<1>1. ASSUME NEW u \in Users, NEW t \in Timers, NEW ms \in Durations,
             NEW r \in BOOLEAN, NewTimer(u, t, ms, r)
      PROVE  ShotInv'
  BY <1>0, <1>1 DEF NewTimer, TypeOK, ShotInv
<1>2. ASSUME NEW u \in Users, NEW t \in Timers, Cancel(u, t) PROVE ShotInv'
  BY <1>0, <1>2 DEF Cancel, TypeOK, ShotInv
<1>3. ASSUME NEW p \in Pollers, ListExpiredCb(p) PROVE ShotInv'
  <2>1. UNCHANGED <<created, m_recurring, delivered, cancelled>>
    BY <1>3 DEF ListExpiredCb
  <2>2. CASE m_timers = {} /\ ~Rollover(now_ms[p])
    BY <1>3, <2>2 DEF ListExpiredCb, ShotInv
  <2>3. ASSUME NEW nodes \in SUBSET m_timers, HandOut(p, nodes) PROVE ShotInv'
    <3> DEFINE expired == {e[2] : e \in nodes}
    <3>1. /\ \A t \in Timers : m_cb'[t] <=> m_cb[t] /\ ~(t \in expired /\ ~m_recurring[t])
          /\ cbs'[p] = expired
          /\ \A q \in Pollers \ {p} : cbs'[q] = cbs[q]
      BY <1>0, <2>3 DEF HandOut, TypeOK
    <3>2. ASSUME NEW t \in Timers, t \in expired PROVE InSet(t) /\ m_cb[t] /\ t \in created
      <4>1. PICK e \in nodes : t = e[2]
        BY <3>2
      <4>2. e \in m_timers /\ e = <<e[1], e[2]>>
        BY <1>0 DEF TypeOK
      <4>3. t \in created /\ InSet(t)
        BY <4>1, <4>2 DEF QueueInv, NodesCurrent, InSet, Node
      <4> QED BY <4>3 DEF QueueInv, CallbackQueued
    <3> HIDE DEF expired
    <3> QED BY <2>1, <3>1, <3>2 DEF ShotInv
  <2> QED BY <1>3, <2>2, <2>3 DEF ListExpiredCb, Expired
<1>4. ASSUME NEW p \in Pollers, Schedule(p) PROVE ShotInv'
  <2>1. /\ UNCHANGED <<created, m_recurring, m_cb, cancelled>>
        /\ cbs'[p] = {} /\ \A q \in Pollers \ {p} : cbs'[q] = cbs[q]
        /\ \A t \in Timers : delivered'[t] =
             IF t \in cbs[p] /\ ~m_recurring[t] /\ delivered[t] < 2
             THEN delivered[t] + 1 ELSE delivered[t]
    BY <1>0, <1>4 DEF Schedule, TypeOK
  <2> QED BY <2>1 DEF ShotInv
<1>5. ASSUME UNCHANGED <<created, m_recurring, m_cb, cbs, delivered, cancelled>>
      PROVE  ShotInv'
  BY <1>5 DEF ShotInv
<1>6. ASSUME NEW u \in Users,
             \/ AddTimer(u) \/ Notify(u) \/ Reset(u)
             \/ \E t \in Timers : Refresh(u, t)
             \/ \E t \in Timers, ms \in Durations, f \in BOOLEAN :
                  ResetTest(u, t, ms, f)
      PROVE  UNCHANGED <<created, m_recurring, m_cb, cbs, delivered, cancelled>>
  BY <1>6 DEF AddTimer, Notify, Refresh, ResetTest, Reset
<1>7. ASSUME NEW p \in Pollers, GetNextTimer(p) \/ Wake(p) \/ CheckEmpty(p)
      PROVE  UNCHANGED <<created, m_recurring, m_cb, cbs, delivered, cancelled>>
  BY <1>7 DEF GetNextTimer, Wake, CheckEmpty
<1>8. ASSUME \/ StoppingPoll \/ Tick \/ UNCHANGED vars
             \/ \E c \in StartClock .. MaxClock : SetBack(c)
      PROVE  UNCHANGED <<created, m_recurring, m_cb, cbs, delivered, cancelled>>
  BY <1>8 DEF StoppingPoll, Tick, SetBack, vars
<1> QED
  BY <1>1, <1>2, <1>3, <1>4, <1>5, <1>6, <1>7, <1>8 DEF Next, UserStep, PollStep

\* The callback of a one-shot timer is scheduled at most once, however many
\* pollers list at the same time, and never after a cancel() that returned
\* true.
THEOREM OneShotCorrect == Spec => []OneShotOnce
<1>1. ShotInv => OneShotOnce
  BY DEF ShotInv, OneShotOnce
<1> QED BY <1>1, TypeInit, TypeStep, QueueInit, QueueStep, ShotInit, ShotStep, PTL
        DEF Spec

-----------------------------------------------------------------------------
(* Clock readings. *)

\* While the system time has not been set back, no reading of it is from the
\* future, and a poller inside listExpiredCb has a recent one.
TimeInv ==
    /\ \A p \in Pollers : ppc[p] \in {"check", "list"} =>
         clock - now_ms[p] <= MaxLag
    /\ backs = 0 =>
         /\ m_previouseTime <= clock
         /\ \A p \in Pollers : ppc[p] \in {"check", "list"} => now_ms[p] <= clock

\* The first clock reading is the current time.
LEMMA TimeInit == Init => TimeInv
BY TimerConstants DEF Init, TimeInv

\* While the clock is never set back, no reading is later than the clock and
\* none is older than MaxLag when listExpiredCb uses it.
LEMMA TimeStep == TypeInv /\ TimeInv /\ [Next]_vars => TimeInv'
<1> SUFFICES ASSUME TypeInv, TimeInv, [Next]_vars PROVE TimeInv'
  OBVIOUS
<1>0. TypeOK /\ clock \in Nat /\ MaxLag \in Nat /\ backs \in Nat
  BY TimerConstants DEF TypeInv, TypeOK
<1>a. \A p \in Pollers : now_ms[p] \in Nat
  BY <1>0 DEF TypeOK
<1> USE DEF timerVars, userVars, pollVars, ghostVars
<1>1. ASSUME NEW p \in Pollers, GetNextTimer(p) PROVE TimeInv'
  BY <1>0, <1>1 DEF GetNextTimer, TypeOK, TimeInv
<1>2. ASSUME NEW p \in Pollers, Wake(p) PROVE TimeInv'
  BY <1>0, <1>2 DEF Wake, TypeOK, TimeInv
<1>3. ASSUME NEW p \in Pollers, CheckEmpty(p) PROVE TimeInv'
  BY <1>0, <1>3 DEF CheckEmpty, TypeOK, TimeInv
<1>4. ASSUME NEW p \in Pollers, ListExpiredCb(p) PROVE TimeInv'
  <2>1. /\ ppc[p] = "list" /\ m_previouseTime' = now_ms[p]
        /\ UNCHANGED <<clock, backs, now_ms>>
        /\ \A q \in Pollers : ppc'[q] = ppc[q] \/ ppc'[q] = "schedule"
    BY <1>0, <1>4 DEF ListExpiredCb, HandOut, TypeOK
  <2> QED BY <2>1 DEF TimeInv
<1>5. ASSUME NEW p \in Pollers, Schedule(p) PROVE TimeInv'
  BY <1>0, <1>5 DEF Schedule, TypeOK, TimeInv
<1>6. CASE Tick
  BY <1>0, <1>a, <1>6 DEF Tick, TypeOK, TimeInv
<1>7. ASSUME NEW c \in StartClock .. MaxClock, SetBack(c) PROVE TimeInv'
  <2>1. clock' \in Nat /\ clock' < clock /\ backs' # 0 /\ UNCHANGED <<ppc, now_ms>>
    BY <1>0, <1>7, TimerConstants DEF SetBack
  <2> QED BY <1>0, <1>a, <2>1 DEF TimeInv
<1>8. ASSUME UNCHANGED <<clock, backs, m_previouseTime, ppc, now_ms>>
      PROVE  TimeInv'
  BY <1>8 DEF TimeInv
<1>9. ASSUME StoppingPoll \/ UNCHANGED vars \/ \E u \in Users : UserStep(u)
      PROVE  UNCHANGED <<clock, backs, m_previouseTime, ppc, now_ms>>
  <2>1. CASE StoppingPoll \/ UNCHANGED vars
    BY <2>1 DEF StoppingPoll, vars
  <2>2. ASSUME NEW u \in Users, UserStep(u)
        PROVE  UNCHANGED <<clock, backs, m_previouseTime, ppc, now_ms>>
    <3>1. CASE AddTimer(u) \/ Notify(u) \/ Reset(u)
      BY <3>1 DEF AddTimer, Notify, Reset
    <3>2. CASE UserStep(u) /\ ~(AddTimer(u) \/ Notify(u) \/ Reset(u))
      BY <3>2 DEF UserStep, NewTimer, Cancel, Refresh, ResetTest
    <3> QED BY <2>2, <3>1, <3>2
  <2> QED BY <1>9, <2>1, <2>2
<1> QED
  BY <1>1, <1>2, <1>3, <1>4, <1>5, <1>6, <1>7, <1>8, <1>9 DEF Next, PollStep

\* Without a step back of the system time no rollover is detected, although the
\* pollers may store their readings in m_previouseTime out of order.
LEMMA NoFalseRollover ==
    ASSUME TypeInv, TimeInv, backs = 0, NEW p \in Pollers, ppc[p] = "list"
    PROVE  ~Rollover(now_ms[p])
<1>1. /\ clock \in Nat /\ m_previouseTime \in Nat /\ now_ms[p] \in Nat
      /\ MaxLag \in Nat /\ Hour \in Nat /\ MaxLag <= Hour
  BY TimerConstants DEF TypeInv, TypeOK
<1>2. m_previouseTime <= clock /\ clock - now_ms[p] <= MaxLag
  BY DEF TimeInv
<1> QED BY <1>1, <1>2 DEF Rollover

\* listExpiredCb takes only nodes whose deadline is not later than the clock.
LEMMA NotEarlyStep ==
    TypeInv /\ QueueInv /\ TimeInv /\ [Next]_vars =>
      [backs = 0 =>
         \A p \in Pollers : \A t \in cbs'[p] \ cbs[p] : m_next[t] <= clock]_vars
<1> SUFFICES ASSUME TypeInv, QueueInv, TimeInv, [Next]_vars, backs = 0,
                    NEW q \in Pollers, NEW t \in cbs'[q] \ cbs[q]
             PROVE  m_next[t] <= clock
  OBVIOUS
<1>0. TypeOK
  BY DEF TypeInv
<1>1. ASSUME UNCHANGED cbs PROVE FALSE
  BY <1>1
<1>2. ASSUME NEW p \in Pollers, Schedule(p) PROVE FALSE
  BY <1>0, <1>2 DEF Schedule, TypeOK
<1>3. ASSUME NEW p \in Pollers, ListExpiredCb(p) PROVE m_next[t] <= clock
  <2>1. ppc[p] = "list" /\ now_ms[p] <= clock /\ ~Rollover(now_ms[p])
    BY <1>3, NoFalseRollover DEF ListExpiredCb, TimeInv
  <2>2. PICK a \in Timers \cup {0} : HandOut(p, Expired(now_ms[p], a))
    BY <1>1, <1>3 DEF ListExpiredCb
  <2>3. q = p /\ t \in {e[2] : e \in Expired(now_ms[p], a)}
    BY <1>0, <2>2 DEF HandOut, TypeOK
  <2>4. PICK e \in m_timers : t = e[2] /\ e[1] <= now_ms[p]
    <3>1. \A e \in m_timers : e[1] \in Nat
      BY <1>0 DEF TypeOK
    <3>2. now_ms[p] \in Nat
      BY <1>0 DEF TypeOK
    <3> QED BY <2>1, <2>3, <3>1, <3>2 DEF Expired
  <2>5. m_next[t] = e[1] /\ e[1] \in Nat /\ now_ms[p] \in Nat /\ clock \in Nat
    BY <1>0, <2>4, TimerConstants DEF QueueInv, NodesCurrent, TypeOK
  <2> QED BY <2>1, <2>4, <2>5
<1>4. ASSUME NEW u \in Users, UserStep(u) PROVE UNCHANGED cbs
  BY <1>4 DEF UserStep, NewTimer, AddTimer, Notify, Cancel, Refresh, ResetTest,
              Reset, pollVars
<1>5. ASSUME NEW p \in Pollers, GetNextTimer(p) \/ Wake(p) \/ CheckEmpty(p)
      PROVE  UNCHANGED cbs
  BY <1>5 DEF GetNextTimer, Wake, CheckEmpty
<1>6. ASSUME \/ StoppingPoll \/ Tick \/ UNCHANGED vars
             \/ \E c \in StartClock .. MaxClock : SetBack(c)
      PROVE  UNCHANGED cbs
  BY <1>6 DEF StoppingPoll, Tick, SetBack, vars, pollVars
<1> QED BY <1>1, <1>2, <1>3, <1>4, <1>5, <1>6 DEF Next, PollStep

\* listExpiredCb never hands out a callback before its deadline unless the
\* system time was set back.
THEOREM NeverEarly == Spec => NotEarly
BY TypeInit, TypeStep, QueueInit, QueueStep, TimeInit, TimeStep, NotEarlyStep,
   PTL DEF Spec, NotEarly

-----------------------------------------------------------------------------
(* Sleeping pollers. *)

\* Every period fits an int, so that idle() hands epoll_wait no negative value.
ShortDurations == \A d \in Durations : d < IntMod \div 2

\* Periods are those users asked for, and while the system time has not been
\* set back every timer was started in the past.
PeriodInv ==
    /\ \A t \in created : m_ms[t] \in Durations
    /\ \A u \in Users : upc[u] = "reset" => ums[u] \in Durations
    /\ backs = 0 => \A t \in created : m_next[t] <= clock + m_ms[t]

\* There are no timers at first, so no period is out of range.
LEMMA PeriodInit == Init => PeriodInv
BY DEF Init, PeriodInv

\* No step gives a timer a period other than one a user asked for.
LEMMA PeriodStep ==
    TypeInv /\ QueueInv /\ TimeInv /\ PeriodInv /\ [Next]_vars => PeriodInv'
<1> SUFFICES ASSUME TypeInv, QueueInv, TimeInv, PeriodInv, [Next]_vars
             PROVE  PeriodInv'
  OBVIOUS
<1>0. TypeOK /\ clock \in Nat /\ backs \in Nat /\ Durations \subseteq Nat
  BY TimerConstants DEF TypeInv, TypeOK
<1> USE DEF timerVars, userVars, pollVars, ghostVars
<1>1. ASSUME NEW u \in Users, NEW t \in Timers, NEW ms \in Durations,
             NEW r \in BOOLEAN, NewTimer(u, t, ms, r)
      PROVE  PeriodInv'
  BY <1>0, <1>1 DEF NewTimer, TypeOK, PeriodInv
<1>2. ASSUME NEW u \in Users, AddTimer(u) PROVE PeriodInv'
  <2>1. \A v \in Users : upc'[v] = "reset" => upc[v] = "reset"
    BY <1>0, <1>2 DEF AddTimer, InsertLocked, TypeOK
  <2> QED BY <1>2, <2>1 DEF AddTimer, PeriodInv
<1>3. ASSUME NEW u \in Users, Notify(u) PROVE PeriodInv'
  BY <1>0, <1>3 DEF Notify, TypeOK, PeriodInv
<1>4. ASSUME NEW u \in Users, NEW t \in Timers, Cancel(u, t) PROVE PeriodInv'
  BY <1>4 DEF Cancel, PeriodInv
<1>5. ASSUME NEW u \in Users, NEW t \in Timers, Refresh(u, t) PROVE PeriodInv'
  BY <1>0, <1>5 DEF Refresh, TypeOK, PeriodInv
<1>6. ASSUME NEW u \in Users, NEW t \in Timers, NEW ms \in Durations,
             NEW f \in BOOLEAN, ResetTest(u, t, ms, f)
      PROVE  PeriodInv'
  BY <1>0, <1>6 DEF ResetTest, TypeOK, PeriodInv
<1>7. ASSUME NEW u \in Users, Reset(u) PROVE PeriodInv'
  <2> DEFINE t == ut[u]
             start == IF ufn[u] THEN clock ELSE m_next[t] - m_ms[t]
             next == start + ums[u]
  <2>1. /\ upc[u] = "reset" /\ t \in created /\ t \in Timers
        /\ ums[u] \in Durations /\ UNCHANGED <<clock, backs, created>>
    BY <1>0, <1>7 DEF Reset, PeriodInv, TypeInv, BusyOnCreated, TypeOK
  <2>2. \A v \in Users : upc'[v] = "reset" => upc[v] = "reset" /\ v # u
    BY <1>0, <1>7 DEF Reset, InsertLocked, TypeOK
  <2>3. \A v \in Users \ {u} : ums'[v] = ums[v]
    BY <1>0, <1>7 DEF Reset, TypeOK
  <2>4. CASE m_cb[t] /\ InSet(t)
    <3>1. /\ m_ms' = [m_ms EXCEPT ![t] = ums[u]]
          /\ m_next' = [m_next EXCEPT ![t] = next]
      BY <1>7, <2>4 DEF Reset
    <3>2. backs = 0 => next <= clock + ums[u]
      <4>1. m_next[t] \in Nat /\ m_ms[t] \in Nat /\ ums[u] \in Nat
        BY <1>0, <2>1 DEF TypeOK
      <4>2. backs = 0 => m_next[t] <= clock + m_ms[t]
        BY <2>1 DEF PeriodInv
      <4> QED BY <1>0, <4>1, <4>2
    <3> HIDE DEF next, t
    <3>3. /\ m_ms'[t] = ums[u] /\ m_next'[t] = next
          /\ \A s \in Timers \ {t} : m_ms'[s] = m_ms[s] /\ m_next'[s] = m_next[s]
      BY <1>0, <2>1, <3>1 DEF TypeOK
    <3>4. created \subseteq Timers
      BY <1>0 DEF TypeOK
    <3> QED BY <2>1, <2>2, <2>3, <3>2, <3>3, <3>4 DEF PeriodInv
  <2>5. CASE ~(m_cb[t] /\ InSet(t))
    <3>1. UNCHANGED <<m_ms, m_next>>
      BY <1>7, <2>5 DEF Reset
    <3> QED BY <2>1, <2>2, <2>3, <3>1 DEF PeriodInv
  <2> QED BY <2>4, <2>5
<1>8. ASSUME NEW p \in Pollers, ListExpiredCb(p) PROVE PeriodInv'
  <2>1. /\ UNCHANGED <<clock, backs, created, m_ms, upc, ums>>
        /\ backs = 0 => now_ms[p] <= clock
    BY <1>8 DEF ListExpiredCb, TimeInv
  <2>2. \A t \in Timers : m_next'[t] \in {m_next[t], now_ms[p] + m_ms[t]}
    BY <1>0, <1>8 DEF ListExpiredCb, HandOut, TypeOK
  <2>3. \A t \in created : m_ms[t] \in Nat /\ m_next[t] \in Nat /\ t \in Timers
    BY <1>0 DEF TypeOK
  <2>4. now_ms[p] \in Nat
    BY <1>0 DEF TypeOK
  <2> QED BY <1>0, <2>1, <2>2, <2>3, <2>4 DEF PeriodInv
<1>9. CASE Tick
  <2>1. \A t \in created : m_ms[t] \in Nat /\ m_next[t] \in Nat
    BY <1>0 DEF TypeOK
  <2> QED BY <1>0, <1>9, <2>1 DEF Tick, PeriodInv
<1>10. ASSUME NEW c \in StartClock .. MaxClock, SetBack(c) PROVE PeriodInv'
  BY <1>0, <1>10 DEF SetBack, PeriodInv
<1>11. ASSUME UNCHANGED <<clock, backs, created, m_ms, m_next, upc, ums>>
       PROVE  PeriodInv'
  BY <1>11 DEF PeriodInv
<1>12. ASSUME \/ StoppingPoll \/ UNCHANGED vars
              \/ \E p \in Pollers : \/ GetNextTimer(p) \/ Wake(p)
                                    \/ CheckEmpty(p) \/ Schedule(p)
       PROVE  UNCHANGED <<clock, backs, created, m_ms, m_next, upc, ums>>
  BY <1>12 DEF StoppingPoll, vars, GetNextTimer, Wake, CheckEmpty, Schedule
<1> QED
  BY <1>1, <1>2, <1>3, <1>4, <1>5, <1>6, <1>7, <1>8, <1>9, <1>10, <1>11, <1>12
     DEF Next, UserStep, PollStep

\* Some poller will compute its timeout anew, without waiting for a deadline.
Attended ==
    \/ wakeup
    \/ \E u \in Users : upc[u] = "notify"
    \/ \E p \in Pollers : ppc[p] # "wait"

\* m_tickled stands for a notification that is under way or has arrived.
WakeInv ==
    backs = 0 /\ fault = "none" =>
      /\ m_tickled => Attended
      /\ \A t \in Timers : InSet(t) => Covered(t)

\* With an empty queue there is nothing to wake up for.
LEMMA WakeInit == Init => WakeInv
BY DEF Init, WakeInv, InSet

\* A poller that is about to compute its timeout covers every timer.
LEMMA AttendedCovers == Attended => \A t \in Timers : Covered(t)
BY DEF Attended, Covered, Watched, Notifying

\* addTimer(val, lock) leaves every timer covered: a new first timer is
\* notified unless somebody is up already, any other one is no more urgent
\* than the timer before it.
LEMMA WakeInsert ==
    ASSUME TypeInv, QueueInv, backs = 0, fault = "none", WakeInv,
           NEW u \in Users, NEW t \in Timers, NEW n \in Nat,
           upc[u] # "notify",
           InsertLocked(u, <<n, t>>, {e \in m_timers : e[2] # t}),
           m_next' = [m_next EXCEPT ![t] = n],
           UNCHANGED <<clock, wakeup, ppc, wake>>
    PROVE  /\ m_tickled' => Attended'
           /\ \A x \in Timers : InSet(x)' => Covered(x)'
<1> DEFINE s == {e \in m_timers : e[2] # t}
           front == IsFront(<<n, t>>, s) /\ ~m_tickled
<1>0. TypeOK /\ clock \in Nat
  BY TimerConstants DEF TypeInv, TypeOK
<1>1. /\ m_timers' = s \cup {<<n, t>>}
      /\ m_tickled' = (m_tickled \/ front)
      /\ upc' = [upc EXCEPT ![u] = IF front THEN "notify" ELSE "idle"]
  BY DEF InsertLocked
<1>2. \A e \in m_timers : e[1] \in Nat /\ e[2] \in Timers /\ e = <<e[1], e[2]>>
                          /\ e[1] = m_next[e[2]] /\ InSet(e[2])
  <2>1. \A e \in m_timers : e[1] \in Nat /\ e[2] \in Timers /\ e = <<e[1], e[2]>>
    BY <1>0 DEF TypeOK
  <2> QED BY <2>1 DEF QueueInv, NodesCurrent, InSet, Node
<1>3. m_next'[t] = n /\ \A x \in Timers \ {t} : m_next'[x] = m_next[x]
  BY <1>0 DEF TypeOK
<1>4. Attended => Attended'
  BY <1>0, <1>1 DEF Attended, TypeOK
<1>5. front => Attended'
  BY <1>0, <1>1 DEF Attended, TypeOK
<1>6. m_tickled' => Attended'
  BY <1>1, <1>4, <1>5 DEF WakeInv
<1>7. ASSUME NEW x \in Timers, InSet(x)' PROVE Covered(x)'
  <2>1. CASE Attended'
    BY <2>1 DEF Attended, Covered, Watched, Notifying
  <2>2. CASE ~Attended' /\ x # t
    <3>1. InSet(x)
      BY <1>1, <1>3, <1>7, <2>2 DEF InSet, Node
    <3>2. Covered(x) /\ ~Attended
      BY <1>4, <2>2, <3>1 DEF WakeInv
    <3> QED BY <1>3, <2>2, <3>2 DEF Covered, Watched, Notifying, Attended
  <2>3. CASE ~Attended' /\ x = t
    <3>1. ~IsFront(<<n, t>>, s)
      BY <1>1, <1>5, <1>6, <2>3
    <3>2. PICK f \in s : ~Less(<<n, t>>, f)
      BY <3>1 DEF IsFront
    <3>3. f[1] \in Nat /\ f[1] = m_next[f[2]] /\ f[2] \in Timers /\ InSet(f[2])
      BY <1>2
    <3>4. f[1] <= n
      BY <3>2, <3>3 DEF Less
    <3>5. Covered(f[2]) /\ ~Attended
      BY <1>4, <2>3, <3>3 DEF WakeInv
    <3>6. PICK p \in Pollers : wake[p] <= m_next[f[2]] \/ wake[p] <= clock
      BY <3>5 DEF Covered, Watched, Notifying, Attended
    <3>7. wake[p] \in Nat
      BY <1>0 DEF TypeOK
    <3>8. wake[p] <= n \/ wake[p] <= clock
      BY <3>3, <3>4, <3>6, <3>7
    <3> QED BY <1>3, <2>3, <3>8 DEF Covered, Watched, Notifying
  <2> QED BY <2>1, <2>2, <2>3
<1> QED BY <1>6, <1>7

\* A poller that goes to sleep wakes up for every timer in the queue.
LEMMA WaitCovers ==
    ASSUME ShortDurations, TypeInv, QueueInv, PeriodInv, backs = 0,
           NEW t \in Timers, InSet(t)
    PROVE  \/ WaitEnd(UntilFirst) <= m_next[t]
           \/ WaitEnd(UntilFirst) <= clock
<1>0. /\ TypeOK /\ clock \in Nat /\ MAX_TIMEOUT \in Nat /\ IntMod \in Nat
      /\ MAX_TIMEOUT < IntMod \div 2
  BY TimerConstants DEF TypeInv, TypeOK
<1>1. PICK e \in m_timers :
        /\ IsFront(e, m_timers)
        /\ UntilFirst = IF clock >= e[1] THEN 0 ELSE e[1] - clock
        /\ UntilFirst \in Nat
  <2>1. m_timers # {} /\ m_timers \subseteq Nat \X Timers
    BY <1>0 DEF InSet, TypeOK
  <2> QED BY <1>0, <2>1, UntilFirstValue
<1>2. e[1] \in Nat /\ e[2] \in created /\ e[2] \in Timers /\ e[1] = m_next[e[2]]
  BY <1>0, <1>1 DEF TypeOK, QueueInv, NodesCurrent
<1>3. e[1] <= m_next[t] /\ m_next[t] \in Nat
  BY <1>0, <1>1, <1>2 DEF IsFront, Less, InSet, Node, TypeOK
<1>4. m_ms[e[2]] \in Nat /\ m_ms[e[2]] < IntMod \div 2 /\ e[1] <= clock + m_ms[e[2]]
  BY <1>0, <1>2 DEF PeriodInv, ShortDurations, TypeOK
<1>5. UntilFirst < IntMod \div 2
  BY <1>0, <1>1, <1>2, <1>4
<1>6. ToInt(UntilFirst) = UntilFirst
  BY <1>1, <1>5, ToIntValue
<1> QED BY <1>0, <1>1, <1>2, <1>3, <1>6 DEF WaitEnd

\* No operation leaves a timer that all pollers would sleep past.
LEMMA WakeStep ==
    ASSUME ShortDurations
    PROVE  TypeInv /\ QueueInv /\ PeriodInv /\ WakeInv /\ [Next]_vars => WakeInv'
<1> SUFFICES ASSUME TypeInv, QueueInv, PeriodInv, WakeInv, [Next]_vars,
                    backs' = 0, fault' = "none"
             PROVE  /\ m_tickled' => Attended'
                    /\ \A t \in Timers : InSet(t)' => Covered(t)'
  BY DEF WakeInv
<1> USE DEF timerVars, userVars, pollVars, ghostVars
<1>0. TypeOK /\ clock \in Nat /\ backs \in Nat /\ BusyOnCreated /\ PeriodFits
  BY TimerConstants DEF TypeInv, TypeOK
<1>1. backs = 0 /\ (Next => fault = "none") /\ (UNCHANGED vars => fault = "none")
  <2>1. backs' = backs \/ backs' = backs + 1
    <3>1. ASSUME NEW u \in Users, UserStep(u) PROVE backs' = backs
      BY <3>1 DEF UserStep, NewTimer, AddTimer, Notify, Cancel, Refresh, ResetTest, Reset
    <3>2. ASSUME NEW p \in Pollers, PollStep(p) PROVE backs' = backs
      BY <3>2 DEF PollStep, GetNextTimer, Wake, CheckEmpty, ListExpiredCb, Schedule
    <3>3. CASE StoppingPoll \/ Tick \/ UNCHANGED vars
      BY <3>3 DEF StoppingPoll, Tick, vars
    <3> QED BY <3>1, <3>2, <3>3 DEF Next, SetBack
  <2> QED BY <1>0, <2>1 DEF Next, vars
<1>2. fault = "none"
  BY <1>1
<1>3. /\ m_tickled => Attended
      /\ \A t \in Timers : InSet(t) => Covered(t)
  BY <1>1, <1>2 DEF WakeInv
<1> DEFINE Goal == /\ m_tickled' => Attended'
                   /\ \A t \in Timers : InSet(t)' => Covered(t)'
<1>4. ASSUME NEW u \in Users, NEW t \in Timers, NEW ms \in Durations,
             NEW r \in BOOLEAN, NewTimer(u, t, ms, r)
      PROVE  Goal
  <2>1. /\ t \notin created /\ upc[u] = "idle"
        /\ UNCHANGED <<clock, m_timers, m_tickled, wakeup, ppc, wake>>
        /\ \A x \in Timers \ {t} : m_next'[x] = m_next[x]
        /\ \A v \in Users \ {u} : upc'[v] = upc[v]
    BY <1>0, <1>4 DEF NewTimer, TypeOK
  <2>2. Attended => Attended'
    BY <2>1 DEF Attended
  <2>3. \A x \in Timers : InSet(x)' => x # t /\ InSet(x)
    <3>1. \A e \in m_timers : e[2] # t
      BY <2>1 DEF QueueInv, NodesCurrent
    <3> QED BY <2>1, <3>1 DEF InSet, Node
  <2>4. \A x \in Timers : x # t /\ Covered(x) => Covered(x)'
    BY <2>1 DEF Covered, Watched, Notifying
  <2> QED BY <1>3, <2>1, <2>2, <2>3, <2>4
<1>5. ASSUME NEW u \in Users, AddTimer(u) PROVE Goal
  <2> DEFINE t == ut[u]
  <2>1. /\ upc[u] = "insert" /\ t \in Timers /\ ~InSet(t) /\ m_next[t] \in Nat
        /\ UNCHANGED <<clock, wakeup, ppc, wake>>
    BY <1>0, <1>5 DEF AddTimer, QueueInv, InsertingAlone, TypeOK
  <2>2. m_timers = {e \in m_timers : e[2] # t}
    <3>1. \A e \in m_timers : e = <<e[1], e[2]>>
      BY <1>0 DEF TypeOK
    <3> QED BY <2>1, <3>1 DEF InSet, Node, QueueInv, NodesCurrent
  <2>3. InsertLocked(u, <<m_next[t], t>>, {e \in m_timers : e[2] # t})
    BY <1>5, <2>2 DEF AddTimer, Node
  <2>4. m_next' = [m_next EXCEPT ![t] = m_next[t]]
    BY <1>0, <1>5 DEF AddTimer, TypeOK
  <2> HIDE DEF t
  <2> QED BY <1>1, <1>2, <2>1, <2>3, <2>4, WakeInsert
<1>6. ASSUME NEW u \in Users, Notify(u) PROVE Goal
  <2>1. wakeup'
    BY <1>6 DEF Notify
  <2> QED BY <2>1 DEF Attended, Covered, Watched, Notifying
<1>7. ASSUME NEW u \in Users, NEW t \in Timers, Cancel(u, t) PROVE Goal
  <2>1. /\ m_timers' \subseteq m_timers
        /\ UNCHANGED <<clock, m_next, m_tickled, wakeup, ppc, wake, upc>>
    BY <1>7 DEF Cancel
  <2> QED BY <1>3, <2>1 DEF InSet, Node, Covered, Watched, Notifying, Attended
<1>8. ASSUME NEW u \in Users, NEW t \in Timers, Refresh(u, t) PROVE Goal
  <2>1. /\ UNCHANGED <<clock, m_tickled, wakeup, ppc, wake, upc>>
        /\ InSet(t) /\ m_next'[t] = clock + m_ms[t] /\ t \in created
        /\ \A x \in Timers \ {t} : m_next'[x] = m_next[x]
        /\ m_timers' = (m_timers \ {Node(t)}) \cup {<<clock + m_ms[t], t>>}
    BY <1>0, <1>8 DEF Refresh, TypeOK
  <2>2. /\ m_next[t] <= m_next'[t] /\ m_next[t] \in Nat /\ m_next'[t] \in Nat
    BY <1>0, <1>1, <2>1 DEF PeriodInv, TypeOK
  <2>3. \A x \in Timers : InSet(x)' => InSet(x)
    BY <2>1 DEF InSet, Node
  <2>4. \A p \in Pollers : wake[p] \in Nat
    BY <1>0 DEF TypeOK
  <2>5. \A x \in Timers : Covered(x) => Covered(x)'
    <3> SUFFICES ASSUME NEW x \in Timers, Covered(x) PROVE Covered(x)'
      OBVIOUS
    <3>1. m_next[x] <= m_next'[x] /\ m_next[x] \in Nat /\ m_next'[x] \in Nat
      BY <1>0, <2>1, <2>2 DEF TypeOK
    <3>2. \A p \in Pollers : wake[p] <= m_next[x] => wake[p] <= m_next'[x]
      BY <2>4, <3>1
    <3> QED BY <2>1, <3>2 DEF Covered, Watched, Notifying
  <2> QED BY <1>3, <2>1, <2>3, <2>5 DEF Attended
<1>9. ASSUME NEW u \in Users, NEW t \in Timers, NEW ms \in Durations,
             NEW f \in BOOLEAN, ResetTest(u, t, ms, f)
      PROVE  Goal
  <2>1. /\ UNCHANGED <<clock, m_timers, m_next, m_tickled, wakeup, ppc, wake>>
        /\ upc[u] = "idle" /\ \A v \in Users \ {u} : upc'[v] = upc[v]
    BY <1>0, <1>9 DEF ResetTest, TypeOK
  <2>2. Attended => Attended'
    BY <2>1 DEF Attended
  <2>3. \A x \in Timers : Covered(x) => Covered(x)'
    BY <2>1 DEF Covered, Watched, Notifying
  <2> QED BY <1>3, <2>1, <2>2, <2>3 DEF InSet, Node
<1>10. ASSUME NEW u \in Users, Reset(u) PROVE Goal
  <2> DEFINE t == ut[u]
             start == IF ufn[u] THEN clock ELSE m_next[t] - m_ms[t]
             next == start + ums[u]
  <2>1. /\ upc[u] = "reset" /\ t \in Timers
        /\ UNCHANGED <<clock, wakeup, ppc, wake>>
    BY <1>0, <1>10 DEF Reset, TypeOK
  <2>2. CASE m_cb[t] /\ InSet(t)
    <3>1. /\ m_next' = [m_next EXCEPT ![t] = next]
          /\ InsertLocked(u, <<next, t>>, m_timers \ {Node(t)})
      BY <1>10, <2>2 DEF Reset
    <3>2. m_timers \ {Node(t)} = {e \in m_timers : e[2] # t}
      <4>1. \A e \in m_timers : e = <<e[1], e[2]>>
        BY <1>0 DEF TypeOK
      <4> QED BY <4>1 DEF QueueInv, NodesCurrent, Node
    <3>3. InsertLocked(u, <<next, t>>, {e \in m_timers : e[2] # t})
      BY <3>1, <3>2, Zenon
    <3>4. next \in Nat
      <4>1. /\ m_next[t] \in Nat /\ m_ms[t] \in Nat /\ m_ms[t] <= m_next[t]
            /\ ums[u] \in Nat
        BY <1>0, <2>1 DEF TypeOK, PeriodFits
      <4> QED BY <1>0, <4>1
    <3> HIDE DEF next, t
    <3> QED BY <1>1, <1>2, <2>1, <3>1, <3>3, <3>4, WakeInsert
  <2>3. CASE ~(m_cb[t] /\ InSet(t))
    <3>1. /\ UNCHANGED <<m_next, m_timers, m_tickled>>
          /\ \A v \in Users \ {u} : upc'[v] = upc[v]
      BY <1>0, <1>10, <2>3 DEF Reset, TypeOK
    <3>2. Attended => Attended'
      BY <2>1, <3>1 DEF Attended
    <3>3. \A x \in Timers : Covered(x) => Covered(x)'
      BY <2>1, <3>1 DEF Covered, Watched, Notifying
    <3> QED BY <1>3, <3>1, <3>2, <3>3 DEF InSet, Node
  <2> QED BY <2>2, <2>3
<1>11. ASSUME NEW p \in Pollers, GetNextTimer(p) PROVE Goal
  <2>1. /\ ~m_tickled' /\ UNCHANGED <<clock, m_timers, m_next>>
        /\ m_timers # {} => wake'[p] = WaitEnd(UntilFirst)
    BY <1>0, <1>11 DEF GetNextTimer, TypeOK
  <2>2. ASSUME NEW t \in Timers, InSet(t)' PROVE Covered(t)'
    <3>1. InSet(t) /\ m_timers # {}
      BY <2>1, <2>2 DEF InSet, Node
    <3>2. wake'[p] <= m_next'[t] \/ wake'[p] <= clock'
      BY <1>1, <2>1, <3>1, WaitCovers
    <3> QED BY <3>2 DEF Covered, Watched, Notifying
  <2> QED BY <2>1, <2>2
<1>12. ASSUME NEW p \in Pollers,
              Wake(p) \/ CheckEmpty(p) \/ ListExpiredCb(p) \/ Schedule(p)
       PROVE  Goal
  <2>1. ppc'[p] # "wait"
    BY <1>0, <1>12 DEF Wake, CheckEmpty, ListExpiredCb, HandOut, Schedule, TypeOK
  <2> QED BY <2>1 DEF Attended, Covered, Watched, Notifying
<1>13. CASE StoppingPoll
  BY <1>3, <1>13 DEF StoppingPoll, InSet, Node, Covered, Watched, Notifying
<1>14. CASE Tick
  <2>1. /\ clock' = clock + 1
        /\ UNCHANGED <<m_timers, m_next, m_tickled, wakeup, ppc, wake, upc>>
    BY <1>14 DEF Tick
  <2>2. \A p \in Pollers : wake[p] <= clock => wake[p] <= clock'
    BY <1>0, <2>1 DEF TypeOK
  <2> QED BY <1>3, <2>1, <2>2 DEF InSet, Node, Covered, Watched, Notifying, Attended
<1>15. CASE UNCHANGED vars
  BY <1>3, <1>15 DEF vars, InSet, Node, Covered, Watched, Notifying, Attended
<1>16. ASSUME NEW c \in StartClock .. MaxClock, SetBack(c) PROVE FALSE
  BY <1>0, <1>16 DEF SetBack
<1> QED
  BY <1>4, <1>5, <1>6, <1>7, <1>8, <1>9, <1>10, <1>11, <1>12, <1>13, <1>14,
     <1>15, <1>16 DEF Next, UserStep, PollStep

\* If every period fits an int, no timer in the queue is forgotten by pollers
\* that all sleep past its deadline, although m_tickled suppresses
\* notifications and refresh() and recurring timers never send one.
THEOREM WakeupCorrect ==
    ASSUME ShortDurations
    PROVE  Spec => []NoMissedWakeup
<1> DEFINE Inv == TypeInv /\ QueueInv /\ TimeInv /\ PeriodInv /\ WakeInv
<1>1. Init => Inv
  BY TypeInit, QueueInit, TimeInit, PeriodInit, WakeInit
<1>2. Inv /\ [Next]_vars => Inv'
  BY TypeStep, QueueStep, TimeStep, PeriodStep, WakeStep
<1>3. Inv => NoMissedWakeup
  BY DEF WakeInv, NoMissedWakeup
<1> QED BY <1>1, <1>2, <1>3, PTL DEF Spec
=============================================================================
