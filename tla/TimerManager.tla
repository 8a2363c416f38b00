---------------------------- MODULE TimerManager ----------------------------
(***************************************************************************)
(* The timer queue of myhttp (myhttp/timer.cpp) together with the part of  *)
(* IOManager::idle (myhttp/iomanager.cpp) that sleeps until the first      *)
(* deadline and collects the expired callbacks.                            *)
(*                                                                         *)
(* Users are threads that create, cancel, refresh and reset timers;        *)
(* Pollers are the scheduler threads running idle().  A step is what runs  *)
(* under one acquisition of m_mutex, or what runs outside of it between    *)
(* two acquisitions: the Timer constructor and the first test of reset()   *)
(* run unlocked, listExpiredCb() reads the clock, then takes the read lock *)
(* and then, separately, the write lock, and addTimer() calls              *)
(* onTimerInsertedAtFront() after it has released the lock.                *)
(***************************************************************************)
EXTENDS Integers, FiniteSets

CONSTANTS
    Timers,      \* the Timer objects; a natural number stands for the address
    Users,       \* threads that use the timer interface
    Pollers,     \* scheduler threads that run IOManager::idle
    Durations,   \* the periods (ms) users ask for
    StartClock,  \* GetCurrentMS() when the manager is constructed
    MaxClock,    \* bound: the wall clock stops here
    MaxBack,     \* bound: how often the wall clock is set back
    MaxLag,      \* bound: how long a poller is preempted inside listExpiredCb
    Hour,        \* the 60 * 60 * 1000 of detectClockRollover
    MAX_TIMEOUT, \* the 3000 of idle()
    IntMod       \* 2^32: the number of values of an int

ASSUME TimerConstants ==
    /\ Timers \subseteq Nat /\ Timers # {}
    /\ Durations \subseteq Nat
    /\ {StartClock, MaxClock, MaxBack, MaxLag, Hour, MAX_TIMEOUT} \subseteq Nat
    /\ IntMod \in Nat /\ IntMod > 1
    /\ Hour <= StartClock      \* m_previouseTime - Hour does not wrap
    /\ StartClock <= MaxClock
    /\ MaxLag <= Hour
    /\ MAX_TIMEOUT < IntMod \div 2

VARIABLES
    clock,            \* GetCurrentMS()
    backs,            \* how often the clock has been set back
    m_timers,         \* the std::set: pairs <<key at insertion, timer>>
    m_tickled,
    m_previouseTime,
    created,          \* Timer objects whose constructor has run
    handles,          \* Timer objects whose addTimer() has returned
    m_cb,             \* m_cb[t]: the callback is not null
    m_recurring,
    m_ms,
    m_next,
    upc, ut, ums,     \* per user: step, timer and period argument
    ufn,              \* per user: reset()'s from_now argument
    ppc,              \* per poller: step of idle()
    wake,             \* per poller: when its epoll_wait times out
    now_ms,           \* per poller: the local of listExpiredCb
    cbs,              \* per poller: the timers whose callbacks it was handed
    pipe,             \* m_tickleFds: a byte was written and not yet reported
    wakeup,           \* onTimerInsertedAtFront was called and no poller has
                      \* returned from its wait since
    delivered,        \* per one-shot timer: callbacks scheduled, up to 2
    cancelled,        \* per one-shot timer: cancel() has returned true
    fault             \* undefined behaviour met, if any

timerVars == <<created, handles, m_cb, m_recurring, m_ms, m_next>>
userVars == <<upc, ut, ums, ufn>>
pollVars == <<ppc, wake, now_ms, cbs>>
ghostVars == <<pipe, wakeup, delivered, cancelled>>
vars == <<clock, backs, m_timers, m_tickled, m_previouseTime, timerVars,
          userVars, pollVars, ghostVars, fault>>

Forever == MaxClock + MAX_TIMEOUT + IntMod \* epoll_wait with a negative timeout

Init ==
    /\ clock = StartClock /\ backs = 0
    /\ m_timers = {} /\ m_tickled = FALSE /\ m_previouseTime = StartClock
    /\ created = {} /\ handles = {}
    /\ m_cb = [t \in Timers |-> FALSE]
    /\ m_recurring = [t \in Timers |-> FALSE]
    /\ m_ms = [t \in Timers |-> 0]
    /\ m_next = [t \in Timers |-> 0]
    /\ upc = [u \in Users |-> "idle"]
    /\ ut = [u \in Users |-> CHOOSE t \in Timers : TRUE]
    /\ ums = [u \in Users |-> 0]
    /\ ufn = [u \in Users |-> FALSE]
    /\ ppc = [p \in Pollers |-> "awake"]
    /\ wake = [p \in Pollers |-> 0]
    /\ now_ms = [p \in Pollers |-> 0]
    /\ cbs = [p \in Pollers |-> {}]
    /\ pipe = FALSE /\ wakeup = FALSE
    /\ delivered = [t \in Timers |-> 0]
    /\ cancelled = [t \in Timers |-> FALSE]
    /\ fault = "none"

-----------------------------------------------------------------------------
(* The std::set<Timer::ptr, Comparator>. *)

\* Timer::Comparator: by deadline, then by address.
Less(e, f) == e[1] < f[1] \/ (e[1] = f[1] /\ e[2] < f[2])

\* What m_timers.find(timer) looks for: the node whose key is the CURRENT
\* m_next of the timer.  It is found only if the key has not changed since.
Node(t) == <<m_next[t], t>>

InSet(t) == Node(t) \in m_timers

IsFront(e, s) == \A f \in s : e = f \/ Less(e, f)

-----------------------------------------------------------------------------
(* Timer and TimerManager operations of a user thread. *)

\* new Timer(ms, cb, recurring, this), before addTimer takes the lock.
NewTimer(u, t, ms, recurring) ==
    /\ upc[u] = "idle" /\ t \notin created
    /\ created' = created \cup {t}
    /\ m_cb' = [m_cb EXCEPT ![t] = TRUE]
    /\ m_recurring' = [m_recurring EXCEPT ![t] = recurring]
    /\ m_ms' = [m_ms EXCEPT ![t] = ms]
    /\ m_next' = [m_next EXCEPT ![t] = clock + ms]
    /\ upc' = [upc EXCEPT ![u] = "insert"]
    /\ ut' = [ut EXCEPT ![u] = t]
    /\ UNCHANGED <<clock, backs, m_timers, m_tickled, m_previouseTime, handles,
                   ums, ufn, pollVars, ghostVars, fault>>

\* addTimer(val, lock): insert node e into s and, when it is the front and no
\* notification is outstanding, go on to notify outside of the lock.
InsertLocked(u, e, s) ==
    LET at_front == IsFront(e, s) /\ ~m_tickled IN
    /\ m_timers' = s \cup {e}
    /\ m_tickled' = (m_tickled \/ at_front)
    /\ upc' = [upc EXCEPT ![u] = IF at_front THEN "notify" ELSE "idle"]
    /\ handles' = IF at_front THEN handles ELSE handles \cup {e[2]}

\* The locked half of addTimer(ms, cb, recurring).
AddTimer(u) ==
    /\ upc[u] = "insert"
    /\ InsertLocked(u, Node(ut[u]), m_timers)
    /\ UNCHANGED <<clock, backs, m_previouseTime, created, m_cb, m_recurring,
                   m_ms, m_next, ut, ums, ufn, pollVars, ghostVars, fault>>

\* IOManager::tickle(): nothing when hasIdleThreads(), a byte into the pipe
\* otherwise.  A poller in epoll_wait or listExpiredCb is inside the idle
\* fiber; one that is "awake" may be there or in a task.
Tickle ==
    IF \E p \in Pollers : ppc[p] # "awake"
    THEN UNCHANGED pipe
    ELSE pipe' \in {pipe, TRUE}

\* onTimerInsertedAtFront(), after which addTimer or reset returns.
Notify(u) ==
    /\ upc[u] = "notify"
    /\ Tickle
    /\ wakeup' = TRUE
    /\ handles' = handles \cup {ut[u]}
    /\ upc' = [upc EXCEPT ![u] = "idle"]
    /\ UNCHANGED <<clock, backs, m_timers, m_tickled, m_previouseTime, created,
                   m_cb, m_recurring, m_ms, m_next, ut, ums, ufn, pollVars,
                   delivered, cancelled, fault>>

\* Mutant: cancel() drops the callback but forgets to erase the node.
CancelKeepsNode(u, t) ==
    /\ upc[u] = "idle" /\ t \in handles /\ m_cb[t]
    /\ m_cb' = [m_cb EXCEPT ![t] = FALSE]
    /\ cancelled' = [cancelled EXCEPT ![t] = ~m_recurring[t]]
    /\ UNCHANGED <<clock, backs, m_timers, m_tickled, m_previouseTime, created,
                   handles, m_recurring, m_ms, m_next, userVars, pollVars,
                   pipe, wakeup, delivered, fault>>

\* Timer::cancel().  find() is not compared with end(): erasing end() is
\* undefined.
Cancel(u, t) ==
    /\ upc[u] = "idle" /\ t \in handles /\ m_cb[t]
    /\ m_cb' = [m_cb EXCEPT ![t] = FALSE]
    /\ IF InSet(t)
       THEN m_timers' = m_timers \ {Node(t)} /\ UNCHANGED fault
       ELSE fault' = "erase_end" /\ UNCHANGED m_timers
    /\ cancelled' = [cancelled EXCEPT ![t] = ~m_recurring[t]]
    /\ UNCHANGED <<clock, backs, m_tickled, m_previouseTime, created, handles,
                   m_recurring, m_ms, m_next, userVars, pollVars, pipe,
                   wakeup, delivered>>

\* Mutant: refresh() changes the deadline before it looks up its node, which
\* is then neither found nor erased.
RefreshKeyFirst(u, t) ==
    /\ upc[u] = "idle" /\ t \in handles /\ m_cb[t]
    /\ m_next' = [m_next EXCEPT ![t] = clock + m_ms[t]]
    /\ UNCHANGED <<clock, backs, m_timers, m_tickled, m_previouseTime, created,
                   handles, m_cb, m_recurring, m_ms, userVars, pollVars,
                   ghostVars, fault>>

\* Timer::refresh(): re-inserted directly, without addTimer(val, lock).
Refresh(u, t) ==
    /\ upc[u] = "idle" /\ t \in handles /\ m_cb[t] /\ InSet(t)
    /\ m_next' = [m_next EXCEPT ![t] = clock + m_ms[t]]
    /\ m_timers' = (m_timers \ {Node(t)}) \cup {<<clock + m_ms[t], t>>}
    /\ UNCHANGED <<clock, backs, m_tickled, m_previouseTime, created, handles,
                   m_cb, m_recurring, m_ms, userVars, pollVars, ghostVars,
                   fault>>

\* The test of Timer::reset(), which reads m_ms without the lock.
ResetTest(u, t, ms, from_now) ==
    /\ upc[u] = "idle" /\ t \in handles
    /\ ~(ms = m_ms[t] /\ ~from_now)
    /\ upc' = [upc EXCEPT ![u] = "reset"]
    /\ ut' = [ut EXCEPT ![u] = t]
    /\ ums' = [ums EXCEPT ![u] = ms]
    /\ ufn' = [ufn EXCEPT ![u] = from_now]
    /\ UNCHANGED <<clock, backs, m_timers, m_tickled, m_previouseTime,
                   timerVars, pollVars, ghostVars, fault>>

\* Mutant: reset() subtracts the deadline from the period.
ResetSwapped(u) ==
    LET t == ut[u]
        start == IF ufn[u] THEN clock ELSE m_ms[t] - m_next[t]
        next == start + ums[u]
    IN
    /\ upc[u] = "reset"
    /\ m_cb[t] /\ InSet(t)
    /\ m_ms' = [m_ms EXCEPT ![t] = ums[u]]
    /\ m_next' = [m_next EXCEPT ![t] = next]
    /\ InsertLocked(u, <<next, t>>, m_timers \ {Node(t)})
    /\ UNCHANGED <<clock, backs, m_previouseTime, created, m_cb, m_recurring,
                   ut, ums, ufn, pollVars, ghostVars, fault>>

\* The locked half of Timer::reset().
Reset(u) ==
    LET t == ut[u]
        start == IF ufn[u] THEN clock ELSE m_next[t] - m_ms[t]
        next == start + ums[u]
    IN
    /\ upc[u] = "reset"
    /\ IF m_cb[t] /\ InSet(t)
       THEN /\ m_ms' = [m_ms EXCEPT ![t] = ums[u]]
            /\ m_next' = [m_next EXCEPT ![t] = next]
            /\ InsertLocked(u, <<next, t>>, m_timers \ {Node(t)})
       ELSE /\ upc' = [upc EXCEPT ![u] = "idle"]
            /\ UNCHANGED <<m_ms, m_next, m_timers, m_tickled, handles>>
    /\ ums' = [ums EXCEPT ![u] = 0] /\ ufn' = [ufn EXCEPT ![u] = FALSE]
    /\ UNCHANGED <<clock, backs, m_previouseTime, created, m_cb, m_recurring,
                   ut, pollVars, ghostVars, fault>>

-----------------------------------------------------------------------------
(* IOManager::idle: getNextTimer, epoll_wait, listExpiredCb, schedule. *)

\* (int)n
ToInt(n) ==
    LET m == n % IntMod
    IN  IF m >= IntMod \div 2 THEN m - IntMod ELSE m

\* The value getNextTimer() returns for a non-empty queue.
UntilFirst ==
    LET first == CHOOSE e \in m_timers : IsFront(e, m_timers)
    IN  IF clock >= first[1] THEN 0 ELSE first[1] - clock

\* idle()'s bound on the timeout it hands to epoll_wait, and when epoll_wait
\* then returns; a negative int means that it does not time out.
WaitEnd(next_timeout) ==
    IF ToInt(next_timeout) > MAX_TIMEOUT THEN clock + MAX_TIMEOUT
    ELSE IF ToInt(next_timeout) < 0 THEN Forever
    ELSE clock + ToInt(next_timeout)

\* Mutant: getNextTimer() does not clear m_tickled.
GetNextTimerKeepsTickled(p) ==
    /\ ppc[p] = "awake"
    /\ wake' = [wake EXCEPT ![p] =
                  IF m_timers = {} THEN clock + MAX_TIMEOUT
                  ELSE WaitEnd(UntilFirst)]
    /\ ppc' = [ppc EXCEPT ![p] = "wait"]
    /\ UNCHANGED <<clock, backs, m_timers, m_tickled, m_previouseTime,
                   timerVars, userVars, now_ms, cbs, ghostVars, fault>>

\* stopping(next_timeout) calls getNextTimer(), and epoll_wait begins.
GetNextTimer(p) ==
    /\ ppc[p] = "awake"
    /\ m_tickled' = FALSE
    /\ wake' = [wake EXCEPT ![p] =
                  IF m_timers = {} THEN clock + MAX_TIMEOUT
                  ELSE WaitEnd(UntilFirst)]
    /\ ppc' = [ppc EXCEPT ![p] = "wait"]
    /\ UNCHANGED <<clock, backs, m_timers, m_previouseTime, timerVars, userVars,
                   now_ms, cbs, ghostVars, fault>>

\* Scheduler::stop() polls IOManager::stopping(), which also calls
\* getNextTimer() but does not wait afterwards.
StoppingPoll ==
    /\ m_tickled
    /\ m_tickled' = FALSE
    /\ UNCHANGED <<clock, backs, m_timers, m_previouseTime, timerVars, userVars,
                   pollVars, ghostVars, fault>>

\* epoll_wait returns (time out, pipe or I/O event) and listExpiredCb() reads
\* the clock.
Wake(p) ==
    /\ ppc[p] = "wait"
    /\ pipe' = FALSE /\ wakeup' = FALSE
    /\ now_ms' = [now_ms EXCEPT ![p] = clock]
    /\ wake' = [wake EXCEPT ![p] = 0]
    /\ ppc' = [ppc EXCEPT ![p] = "check"]
    /\ UNCHANGED <<clock, backs, m_timers, m_tickled, m_previouseTime,
                   timerVars, userVars, cbs, delivered, cancelled, fault>>

\* listExpiredCb() under the read lock: nothing to do when there is no timer.
CheckEmpty(p) ==
    /\ ppc[p] = "check"
    /\ ppc' = [ppc EXCEPT ![p] = IF m_timers = {} THEN "awake" ELSE "list"]
    /\ UNCHANGED <<clock, backs, m_timers, m_tickled, m_previouseTime,
                   timerVars, userVars, wake, now_ms, cbs, ghostVars, fault>>

\* Mutant: any reading older than m_previouseTime counts as a rollover.
RolloverNoMargin(now) == now < m_previouseTime

\* detectClockRollover
Rollover(now) ==
    now < m_previouseTime /\ now < m_previouseTime - Hour

\* Mutant: only the timers due at this very millisecond.
ExpiredExact(now, a) ==
    IF Rollover(now) THEN m_timers ELSE {e \in m_timers : e[1] = now}

\* The nodes before upper_bound(now_timer), or all of them after a rollover.
\* now_timer is a fresh object, so its address a is arbitrary.
Expired(now, a) ==
    IF Rollover(now) THEN m_timers
    ELSE {e \in m_timers : e[1] < now \/ (e[1] = now /\ e[2] <= a)}

\* The expired nodes leave the queue and their callbacks go to poller p; a
\* recurring timer is inserted again, a one-shot timer loses its callback.
HandOut(p, nodes) ==
    LET expired == {e[2] : e \in nodes}
        again == {t \in expired : m_recurring[t]}
    IN
    /\ m_timers' = (m_timers \ nodes)
                      \cup {<<now_ms[p] + m_ms[t], t>> : t \in again}
    /\ m_next' = [t \in Timers |-> IF t \in again THEN now_ms[p] + m_ms[t]
                                   ELSE m_next[t]]
    /\ m_cb' = [t \in Timers |-> m_cb[t] /\ t \notin expired \ again]
    /\ cbs' = [cbs EXCEPT ![p] = expired]
    /\ ppc' = [ppc EXCEPT ![p] = "schedule"]
    /\ UNCHANGED fault

\* listExpiredCb() under the write lock, taken anew: the queue may have become
\* empty since CheckEmpty, and then *m_timers.begin() is undefined.
ListExpiredCb(p) ==
    /\ ppc[p] = "list"
    /\ m_previouseTime' = now_ms[p]
    /\ IF m_timers = {} /\ ~Rollover(now_ms[p])
       THEN /\ fault' = "deref_empty"
            /\ UNCHANGED <<m_timers, m_cb, m_next, cbs, ppc>>
       ELSE \E a \in Timers \cup {0} : HandOut(p, Expired(now_ms[p], a))
    /\ UNCHANGED <<clock, backs, m_tickled, created, handles, m_recurring, m_ms,
                   userVars, wake, now_ms, ghostVars>>

\* schedule(cbs.begin(), cbs.end()); cbs.clear().  Until it polls again the
\* thread handles events and runs tasks.
Schedule(p) ==
    /\ ppc[p] = "schedule"
    /\ delivered' = [t \in Timers |->
                       IF t \in cbs[p] /\ ~m_recurring[t] /\ delivered[t] < 2
                       THEN delivered[t] + 1 ELSE delivered[t]]
    /\ cbs' = [cbs EXCEPT ![p] = {}]
    /\ now_ms' = [now_ms EXCEPT ![p] = 0]
    /\ ppc' = [ppc EXCEPT ![p] = "awake"]
    /\ UNCHANGED <<clock, backs, m_timers, m_tickled, m_previouseTime,
                   timerVars, userVars, wake, pipe, wakeup, cancelled, fault>>

-----------------------------------------------------------------------------
(* The wall clock. *)

\* Time passes.  No poller is preempted for more than MaxLag between reading
\* the clock and taking the lock in listExpiredCb.
Tick ==
    /\ clock < MaxClock
    /\ \A p \in Pollers :
         ppc[p] \in {"check", "list"} => clock - now_ms[p] < MaxLag
    /\ clock' = clock + 1
    /\ UNCHANGED <<backs, m_timers, m_tickled, m_previouseTime, timerVars,
                   userVars, pollVars, ghostVars, fault>>

\* The system time is set back.
SetBack(c) ==
    /\ backs < MaxBack /\ c < clock
    /\ clock' = c
    /\ backs' = backs + 1
    /\ UNCHANGED <<m_timers, m_tickled, m_previouseTime, timerVars, userVars,
                   pollVars, ghostVars, fault>>

UserStep(u) ==
    \/ \E t \in Timers, ms \in Durations, r \in BOOLEAN : NewTimer(u, t, ms, r)
    \/ AddTimer(u)
    \/ Notify(u)
    \/ \E t \in Timers : Cancel(u, t)
    \/ \E t \in Timers : Refresh(u, t)
    \/ \E t \in Timers, ms \in Durations, f \in BOOLEAN : ResetTest(u, t, ms, f)
    \/ Reset(u)

PollStep(p) ==
    \/ GetNextTimer(p)
    \/ Wake(p)
    \/ CheckEmpty(p)
    \/ ListExpiredCb(p)
    \/ Schedule(p)

Next ==
    /\ fault = "none"
    /\ \/ \E u \in Users : UserStep(u)
       \/ \E p \in Pollers : PollStep(p)
       \/ StoppingPoll
       \/ Tick
       \/ \E c \in StartClock .. MaxClock : SetBack(c)

Spec == Init /\ [][Next]_vars

\* A wait is over when its time has come or the pipe is readable.  Time goes
\* on after the clock has reached the bound MaxClock.
Due(p) ==
    /\ ppc[p] = "wait"
    /\ wake[p] <= clock \/ (clock = MaxClock /\ wake[p] < Forever) \/ pipe

\* A thread that is past its wait goes on, a wait that is over returns, and
\* time passes.  Nothing makes a user act, except to finish a call.

Fairness ==
    /\ \A p \in Pollers :
         /\ WF_vars(fault = "none" /\ Due(p) /\ Wake(p))
         /\ WF_vars(fault = "none" /\ (GetNextTimer(p) \/ CheckEmpty(p)
                                        \/ ListExpiredCb(p) \/ Schedule(p)))
    /\ \A u \in Users :
         WF_vars(fault = "none" /\ (AddTimer(u) \/ Notify(u) \/ Reset(u)))
    /\ WF_vars(fault = "none" /\ Tick)

FairSpec == Spec /\ Fairness
-----------------------------------------------------------------------------
(* Properties. *)

Phases == {"idle", "insert", "notify", "reset"}
Stages == {"awake", "wait", "check", "list", "schedule"}

\* Type invariant: the ranges of the fields of Timer and TimerManager and of
\* the locals of the threads that use them.
TypeOK ==
    /\ clock \in StartClock .. MaxClock /\ backs \in 0 .. MaxBack
    /\ m_timers \subseteq Nat \X Timers
    /\ m_tickled \in BOOLEAN /\ m_previouseTime \in Nat
    /\ created \subseteq Timers /\ handles \subseteq created
    /\ m_cb \in [Timers -> BOOLEAN] /\ m_recurring \in [Timers -> BOOLEAN]
    /\ m_ms \in [Timers -> Nat] /\ m_next \in [Timers -> Nat]
    /\ upc \in [Users -> Phases] /\ ut \in [Users -> Timers]
    /\ ums \in [Users -> Nat] /\ ufn \in [Users -> BOOLEAN]
    /\ ppc \in [Pollers -> Stages] /\ wake \in [Pollers -> Nat]
    /\ now_ms \in [Pollers -> Nat] /\ cbs \in [Pollers -> SUBSET Timers]
    /\ pipe \in BOOLEAN /\ wakeup \in BOOLEAN
    /\ delivered \in [Timers -> 0 .. 2] /\ cancelled \in [Timers -> BOOLEAN]
    /\ fault \in {"none", "erase_end", "deref_empty"}

Inserting(t) == \E u \in Users : upc[u] = "insert" /\ ut[u] = t

\* The timers with a callback are exactly the timers in the set, each under
\* its current deadline and once: so the find() of cancel(), whose result is
\* erased without being compared with end(), always finds its node, and
\* refresh() and reset() never leave a second node of a timer behind.
QueueMatchesCallbacks ==
    fault = "none" =>
      /\ \A e \in m_timers : e = Node(e[2])
      /\ \A t \in created : m_cb[t] <=> (InSet(t) \/ Inserting(t))

\* cancel() never erases end().
NoEraseEnd == fault # "erase_end"

\* The callback of a one-shot timer is scheduled at most once, and not at all
\* when cancel() has returned true, whichever poller was listing meanwhile.
OneShotOnce ==
    \A t \in Timers : ~m_recurring[t] =>
      /\ delivered[t] <= 1
      /\ cancelled[t] => delivered[t] = 0

\* listExpiredCb hands out a callback only once its deadline has passed, as
\* long as the system time was never set back: two pollers that store their
\* clock readings in m_previouseTime out of order do not look like a rollover.
NotEarly ==
    [][backs = 0 =>
         \A p \in Pollers : \A t \in cbs'[p] \ cbs[p] : m_next[t] <= clock]_vars

\* A poller will look at timer t in time: one that has not computed its
\* timeout yet, or one whose wait ends by the deadline.
Watched(t) ==
    \E p \in Pollers : \/ ppc[p] # "wait"
                       \/ wake[p] <= m_next[t]
                       \/ wake[p] <= clock

Notifying == \E u \in Users : upc[u] = "notify"

\* ... or onTimerInsertedAtFront() is being called or was called for it.
Covered(t) == wakeup \/ Notifying \/ Watched(t)

\* The timer queue asks for a wake-up whenever the pollers would sleep past a
\* deadline: m_tickled suppresses the onTimerInsertedAtFront() of a new first
\* timer only when an earlier one is still on its way or a poller is awake,
\* and refresh() and the recurring timers of listExpiredCb, which never
\* notify, do not need to.
NoMissedWakeup ==
    (backs = 0 /\ fault = "none") => \A t \in Timers : InSet(t) => Covered(t)

Overdue(t) == m_cb[t] /\ t \in handles /\ m_next[t] < clock

\* A timer whose deadline has passed is eventually handed out, cancelled or
\* given a later deadline.
OverdueHandled ==
    \A t \in Timers : Overdue(t) ~> (~Overdue(t) \/ fault # "none")
=============================================================================
