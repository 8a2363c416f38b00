----------------------------- MODULE Scheduler -----------------------------
(***************************************************************************)
(* The N:M fiber scheduler: Scheduler::run, schedule, start, stop          *)
(* (myhttp/scheduler.{h,cpp}) and the fiber switches they rest on          *)
(* (myhttp/fiber.cpp), with the stopping() and the waking of fibers that   *)
(* IOManager::idle contributes (myhttp/iomanager.cpp).                     *)
(*                                                                         *)
(* A task is a callback or a fiber given to schedule().  What a task does  *)
(* between two switches is abstracted to what the scheduler can see: it    *)
(* schedules other callbacks, yields READY, waits for an event or timer    *)
(* (HOLD), returns or throws.                                              *)
(***************************************************************************)
EXTENDS Integers, Sequences, FiniteSets

CONSTANTS
    Threads,      \* the worker threads of m_threads
    Cbs,          \* callbacks that may be scheduled, each once
    UserFibers,   \* Fiber objects made by the program
    PoolFibers,   \* Fiber objects run() makes for callbacks (a bound)
    None,         \* null pointer, and thread id -1
    MaxSchedule,  \* bound: how often a UserFiber is given to schedule()
    MaxYield,     \* bound: how often one task yields
    MaxStart,     \* bound: how often start() is called
    MayHold,      \* tasks may wait for events
    Pins          \* threads a task may be pinned to

Fibers == UserFibers \cup PoolFibers
Tasks == Cbs \cup UserFibers

ASSUME SchedulerConstants ==
    /\ None \notin Threads \cup Fibers \cup Cbs
    /\ UserFibers \cap PoolFibers = {} /\ Cbs \cap UserFibers = {}
    /\ Threads # {} /\ Pins \subseteq Threads
    /\ {MaxSchedule, MaxYield, MaxStart} \subseteq Nat
    /\ MayHold \in BOOLEAN

VARIABLES
    m_fibers,             \* queue of [fiber, task, thread]
    m_state,              \* Fiber::m_state; "FREE": no such object
    job,                  \* per fiber: the task whose code m_cb is
    m_activeThreadCount,
    m_idleThreadCount,
    m_stopping, m_autoStop,
    pc,                   \* per worker: step of run()
    ft,                   \* per worker: the local FiberAndThread
    cb_fiber,             \* per worker: the local Fiber::ptr
    idleTerm,             \* per worker: idle_fiber is TERM
    noWaiters,            \* per caller of IOManager::stopping(): its first half
    waiting,              \* fibers registered with an event or a timer
    ctl,                  \* step of the thread that calls start() and stop()
    starts,               \* calls of start()
    given,                \* per task: calls of schedule() for it
    yields,               \* per task: how often it has yielded
    done,                 \* tasks whose code has returned or thrown
    fault                 \* a failed MYHTTP_ASSERT

countVars == <<m_activeThreadCount, m_idleThreadCount>>
flagVars == <<m_stopping, m_autoStop, ctl, starts>>
taskVars == <<given, yields, done>>
vars == <<m_fibers, m_state, job, countVars, flagVars, pc, ft, cb_fiber,
          idleTerm, noWaiters, waiting, taskVars, fault>>

Main == None \* the caller of start() and stop()

Entry(fiber, task, thread) == [fiber |-> fiber, task |-> task, thread |-> thread]

\* FiberAndThread::reset()
NoEntry == Entry(None, None, None)

Init ==
    /\ m_fibers = <<>>
    /\ m_state = [f \in Fibers |-> IF f \in UserFibers THEN "INIT" ELSE "FREE"]
    /\ job = [f \in Fibers |-> IF f \in UserFibers THEN f ELSE None]
    /\ m_activeThreadCount = 0 /\ m_idleThreadCount = 0
    /\ m_stopping = TRUE /\ m_autoStop = FALSE
    /\ pc = [w \in Threads |-> "none"]
    /\ ft = [w \in Threads |-> NoEntry]
    /\ cb_fiber = [w \in Threads |-> None]
    /\ idleTerm = [w \in Threads |-> FALSE]
    /\ noWaiters = [w \in Threads \cup {Main} |-> FALSE]
    /\ waiting = {}
    /\ ctl = "new" /\ starts = 0
    /\ given = [t \in Tasks |-> 0]
    /\ yields = [t \in Tasks |-> 0]
    /\ done = {}
    /\ fault = "none"

\* The fiber a worker has swapped in: ft.fiber, or cb_fiber once ft is reset.
Cur(w) == IF ft[w].fiber # None THEN ft[w].fiber ELSE cb_fiber[w]

Goto(w, label) == pc' = [pc EXCEPT ![w] = label]

-----------------------------------------------------------------------------
(* schedule(): scheduleNoLock under m_mutex.  tickle() only affects how long *)
(* an idle worker waits.                                                     *)

Enqueue(e) == m_fibers' = Append(m_fibers, e)

\* schedule(cb, thread) or schedule(fiber, thread), by any caller.
Submit(t, thread) ==
    /\ given[t] < (IF t \in Cbs THEN 1 ELSE MaxSchedule)
    /\ Enqueue(IF t \in Cbs THEN Entry(None, t, thread)
               ELSE Entry(t, t, thread))
    /\ given' = [given EXCEPT ![t] = @ + 1]

-----------------------------------------------------------------------------
(* The thread that owns the scheduler: schedule, start, stop. *)

MainSchedules(t, thread) ==
    /\ ctl \in {"new", "started"}
    /\ Submit(t, thread)
    /\ UNCHANGED <<m_state, job, countVars, flagVars, pc, ft, cb_fiber,
                   idleTerm, noWaiters, waiting, yields, done, fault>>

\* start(): every Thread constructor returns once its run() is entered.
Start ==
    /\ ctl \in {"new", "stopped"} /\ starts < MaxStart /\ m_stopping
    /\ m_stopping' = FALSE
    /\ ctl' = "started" /\ starts' = starts + 1
    /\ pc' = [w \in Threads |-> "pick"]
    /\ idleTerm' = [w \in Threads |-> FALSE]
    /\ UNCHANGED <<m_fibers, m_state, job, countVars, m_autoStop, ft, cb_fiber,
                   noWaiters, waiting, taskVars, fault>>

\* stop(): sets the flags, tickles, and polls stopping().
Stop ==
    /\ ctl = "started"
    /\ m_autoStop' = TRUE /\ m_stopping' = TRUE
    /\ ctl' = "stopping"
    /\ UNCHANGED <<m_fibers, m_state, job, countVars, starts, pc, ft, cb_fiber,
                   idleTerm, noWaiters, waiting, taskVars, fault>>

\* IOManager::stopping(): first that there are no timers and no pending events,
Stopping1(c) == noWaiters' = [noWaiters EXCEPT ![c] = (waiting = {})]

\* then, under m_mutex, Scheduler::stopping().
Stopping2(c) ==
    /\ noWaiters[c]
    /\ m_autoStop /\ m_stopping /\ m_fibers = <<>> /\ m_activeThreadCount = 0

StopPoll1 ==
    /\ ctl = "stopping"
    /\ Stopping1(Main)
    /\ ctl' = "stopping2"
    /\ UNCHANGED <<m_fibers, m_state, job, countVars, m_stopping, m_autoStop,
                   starts, pc, ft, cb_fiber, idleTerm, waiting, taskVars, fault>>

\* The loop of stop() ends when stopping() holds; the threads are joined next.
StopPoll2 ==
    /\ ctl = "stopping2"
    /\ ctl' = IF Stopping2(Main) THEN "join" ELSE "stopping"
    /\ noWaiters' = [noWaiters EXCEPT ![Main] = FALSE]
    /\ UNCHANGED <<m_fibers, m_state, job, countVars, m_stopping, m_autoStop,
                   starts, pc, ft, cb_fiber, idleTerm, waiting, taskVars, fault>>

\* Mutant: stop() returns without joining the threads.
NoJoin ==
    /\ ctl = "join"
    /\ ctl' = "stopped"
    /\ UNCHANGED <<m_fibers, m_state, job, countVars, m_stopping, m_autoStop,
                   starts, pc, ft, cb_fiber, idleTerm, noWaiters, waiting,
                   taskVars, fault>>

\* The threads are joined and stop() returns.
Join ==
    /\ ctl = "join"
    /\ \A w \in Threads : pc[w] = "exit"
    /\ ctl' = "stopped"
    /\ UNCHANGED <<m_fibers, m_state, job, countVars, m_stopping, m_autoStop,
                   starts, pc, ft, cb_fiber, idleTerm, noWaiters, waiting,
                   taskVars, fault>>

-----------------------------------------------------------------------------
(* Scheduler::run() of worker w. *)

\* Mutant: only entries pinned to this very thread are taken.
TakesPinnedOnly(w, e) ==
    /\ e.thread = w
    /\ ~(e.fiber # None /\ m_state[e.fiber] = "EXEC")

\* An entry w may take: not pinned elsewhere and not an executing fiber.
Takes(w, e) ==
    /\ e.thread \in {None, w}
    /\ ~(e.fiber # None /\ m_state[e.fiber] = "EXEC")

RemoveAt(s, i) == SubSeq(s, 1, i - 1) \o SubSeq(s, i + 1, Len(s))

\* Mutant: the entry taken is not erased from m_fibers.
PickKeeps(w) ==
    LET ok == {i \in 1 .. Len(m_fibers) : Takes(w, m_fibers[i])} IN
    /\ pc[w] = "pick" /\ Len(m_fibers) < 4
    /\ IF ok = {}
       THEN UNCHANGED <<ft, m_activeThreadCount>>
       ELSE \E i \in ok :
              /\ \A j \in ok : i <= j
              /\ ft' = [ft EXCEPT ![w] = m_fibers[i]]
              /\ m_activeThreadCount' = m_activeThreadCount + 1
    /\ Goto(w, "dispatch")
    /\ UNCHANGED <<m_fibers, m_state, job, m_idleThreadCount, flagVars,
                   cb_fiber, idleTerm, noWaiters, waiting, taskVars, fault>>

\* The scan of m_fibers under m_mutex takes the first such entry.
Pick(w) ==
    LET ok == {i \in 1 .. Len(m_fibers) : Takes(w, m_fibers[i])} IN
    /\ pc[w] = "pick"
    /\ IF ok = {}
       THEN UNCHANGED <<m_fibers, ft, m_activeThreadCount>>
       ELSE \E i \in ok :
              /\ \A j \in ok : i <= j
              /\ ft' = [ft EXCEPT ![w] = m_fibers[i]]
              /\ m_fibers' = RemoveAt(m_fibers, i)
              /\ m_activeThreadCount' = m_activeThreadCount + 1
    /\ Goto(w, "dispatch")
    /\ UNCHANGED <<m_state, job, m_idleThreadCount, flagVars, cb_fiber,
                   idleTerm, noWaiters, waiting, taskVars, fault>>

Ended == {"TERM", "EXCEPT"}

OnCpu == {"running", "parking", "swapout"}
HasFiber == OnCpu \cup {"dispatch", "return", "settle"}

\* ft.fiber->swapIn(), which asserts that the fiber is not executing.  If
\* another worker has not switched out of the fiber yet, the context it would
\* resume has not been saved, and what follows is undefined.
SwapInFiber(w) ==
    LET f == ft[w].fiber IN
    /\ pc[w] = "dispatch"
    /\ f # None /\ m_state[f] \notin Ended
    /\ IF m_state[f] = "EXEC"
       THEN fault' = "swapIn" /\ UNCHANGED <<m_state, pc>>
       ELSE /\ m_state' = [m_state EXCEPT ![f] = "EXEC"]
            /\ Goto(w, "running")
            /\ fault' = IF \E v \in Threads \ {w} : pc[v] \in OnCpu /\ Cur(v) = f
                        THEN "context" ELSE fault
    /\ UNCHANGED <<m_fibers, job, countVars, flagVars, ft, cb_fiber, idleTerm,
                   noWaiters, waiting, taskVars>>

\* A callback runs in cb_fiber, which is reset if there is one and made
\* otherwise; reset() asserts that the fiber has ended or not begun.
SwapInCb(w) ==
    LET c == ft[w].task IN
    /\ pc[w] = "dispatch"
    /\ ft[w].fiber = None /\ c # None
    /\ \E g \in IF cb_fiber[w] # None THEN {cb_fiber[w]}
                ELSE {f \in PoolFibers : m_state[f] = "FREE"} :
         IF m_state[g] \in {"FREE", "INIT"} \cup Ended
         THEN /\ m_state' = [m_state EXCEPT ![g] = "EXEC"]
              /\ job' = [job EXCEPT ![g] = c]
              /\ cb_fiber' = [cb_fiber EXCEPT ![w] = g]
              /\ ft' = [ft EXCEPT ![w] = NoEntry]
              /\ Goto(w, "running")
              /\ UNCHANGED fault
         ELSE fault' = "reset" /\ UNCHANGED <<m_state, job, cb_fiber, ft, pc>>
    /\ UNCHANGED <<m_fibers, countVars, flagVars, idleTerm, noWaiters, waiting,
                   taskVars>>

\* Mutant: the idle branch counts the thread as active.
RunIdleActive(w) ==
    /\ pc[w] = "dispatch" /\ ft[w] = NoEntry /\ ~idleTerm[w]
    /\ Goto(w, "idle")
    /\ m_activeThreadCount' = m_activeThreadCount + 1
    /\ UNCHANGED <<m_fibers, m_state, job, m_idleThreadCount, flagVars, ft,
                   cb_fiber, idleTerm, noWaiters, waiting, taskVars, fault>>

\* Neither branch applies: nothing was taken, or the fiber taken has already
\* ended.  m_activeThreadCount keeps the increment of the latter.
RunIdle(w) ==
    /\ pc[w] = "dispatch"
    /\ \/ ft[w] = NoEntry
       \/ ft[w].fiber # None /\ m_state[ft[w].fiber] \in Ended
    /\ ft' = [ft EXCEPT ![w] = NoEntry]
    /\ IF idleTerm[w]
       THEN /\ Goto(w, "exit")
            /\ cb_fiber' = [cb_fiber EXCEPT ![w] = None]
            /\ m_state' = [f \in Fibers |-> IF f = cb_fiber[w] THEN "FREE"
                                            ELSE m_state[f]]
            /\ UNCHANGED m_idleThreadCount
       ELSE /\ Goto(w, "idle")
            /\ m_idleThreadCount' = m_idleThreadCount + 1
            /\ UNCHANGED <<cb_fiber, m_state>>
    /\ UNCHANGED <<m_fibers, job, m_activeThreadCount, flagVars, idleTerm,
                   noWaiters, waiting, taskVars, fault>>

-----------------------------------------------------------------------------
(* The fiber that worker w is running. *)

Runs(w) == pc[w] = "running"

\* The task calls schedule().
TaskSchedules(w, t, thread) ==
    /\ Runs(w)
    /\ Submit(t, thread)
    /\ UNCHANGED <<m_state, job, countVars, flagVars, pc, ft, cb_fiber,
                   idleTerm, noWaiters, waiting, yields, done, fault>>

\* Mutant: the fiber schedules itself before the context switch.
YieldSchedules(w) ==
    LET f == Cur(w) IN
    /\ Runs(w) /\ yields[job[f]] < MaxYield
    /\ yields' = [yields EXCEPT ![job[f]] = @ + 1]
    /\ m_state' = [m_state EXCEPT ![f] = "HOLD"]
    /\ Enqueue(Entry(f, job[f], None))
    /\ Goto(w, "swapout")
    /\ UNCHANGED <<job, countVars, flagVars, ft, cb_fiber, idleTerm,
                   noWaiters, waiting, given, done, fault>>

\* Fiber::YieldToReady() up to the context switch.
YieldToReady(w) ==
    LET f == Cur(w) IN
    /\ Runs(w) /\ yields[job[f]] < MaxYield
    /\ yields' = [yields EXCEPT ![job[f]] = @ + 1]
    /\ m_state' = [m_state EXCEPT ![f] = "READY"]
    /\ Goto(w, "swapout")
    /\ UNCHANGED <<m_fibers, job, countVars, flagVars, ft, cb_fiber, idleTerm,
                   noWaiters, waiting, given, done, fault>>

\* addEvent() or addTimer() with the current fiber, before YieldToHold().
Register(w) ==
    LET f == Cur(w) IN
    /\ Runs(w) /\ MayHold /\ yields[job[f]] < MaxYield
    /\ yields' = [yields EXCEPT ![job[f]] = @ + 1]
    /\ waiting' = waiting \cup {f}
    /\ Goto(w, "parking")
    /\ UNCHANGED <<m_fibers, m_state, job, countVars, flagVars, ft, cb_fiber,
                   idleTerm, noWaiters, given, done, fault>>

\* Fiber::YieldToHold() up to the context switch.
YieldToHold(w) ==
    /\ pc[w] = "parking"
    /\ m_state' = [m_state EXCEPT ![Cur(w)] = "HOLD"]
    /\ Goto(w, "swapout")
    /\ UNCHANGED <<m_fibers, job, countVars, flagVars, ft, cb_fiber, idleTerm,
                   noWaiters, waiting, taskVars, fault>>

\* Fiber::MainFunc() after m_cb has returned or thrown.
Finish(w, s) ==
    LET f == Cur(w) IN
    /\ Runs(w)
    /\ m_state' = [m_state EXCEPT ![f] = s]
    /\ done' = done \cup {job[f]}
    /\ Goto(w, "swapout")
    /\ UNCHANGED <<m_fibers, job, countVars, flagVars, ft, cb_fiber, idleTerm,
                   noWaiters, waiting, given, yields, fault>>

\* swapcontext() saves the fiber and continues run() after swapIn().
SwapOut(w) ==
    /\ pc[w] = "swapout"
    /\ Goto(w, "return")
    /\ UNCHANGED <<m_fibers, m_state, job, countVars, flagVars, ft, cb_fiber,
                   idleTerm, noWaiters, waiting, taskVars, fault>>

\* Mutant: the count is not decremented.
NoDecrement(w) ==
    /\ pc[w] = "return"
    /\ Goto(w, "settle")
    /\ UNCHANGED <<m_fibers, m_state, job, countVars, flagVars, ft, cb_fiber,
                   idleTerm, noWaiters, waiting, taskVars, fault>>

\* --m_activeThreadCount
Decrement(w) ==
    /\ pc[w] = "return"
    /\ m_activeThreadCount' = m_activeThreadCount - 1
    /\ Goto(w, "settle")
    /\ UNCHANGED <<m_fibers, m_state, job, m_idleThreadCount, flagVars, ft,
                   cb_fiber, idleTerm, noWaiters, waiting, taskVars, fault>>

\* run() looks at the state the fiber was left in.  A READY fiber is scheduled
\* again, for any thread; an ended cb_fiber is kept for the next callback and
\* any other ended fiber is released; everything else is marked HOLD.  All
\* this is unsynchronised: if another worker has taken the fiber meanwhile,
\* both use m_state at once and what follows is undefined.
Settle(w) ==
    LET f == Cur(w)
        isCb == ft[w].fiber = None
        ended == m_state[f] \in Ended
    IN
    /\ pc[w] = "settle"
    /\ IF m_state[f] = "READY"
       THEN Enqueue(Entry(f, job[f], None)) ELSE UNCHANGED m_fibers
    /\ m_state' = [m_state EXCEPT ![f] =
                     IF @ = "READY" THEN @
                     ELSE IF ~ended THEN "HOLD"
                     ELSE IF isCb THEN "INIT"
                     ELSE IF f \in PoolFibers THEN "FREE"
                     ELSE @]
    /\ job' = [job EXCEPT ![f] = IF ended /\ f \in PoolFibers THEN None ELSE @]
    /\ cb_fiber' = [cb_fiber EXCEPT ![w] = IF isCb /\ ~ended THEN None ELSE @]
    /\ ft' = [ft EXCEPT ![w] = NoEntry]
    /\ fault' = IF \E v \in Threads \ {w} : pc[v] \in HasFiber /\ Cur(v) = f
                THEN "context" ELSE fault
    /\ Goto(w, "pick")
    /\ UNCHANGED <<countVars, flagVars, idleTerm, noWaiters, waiting, taskVars>>

-----------------------------------------------------------------------------
(* IOManager::idle() of worker w: one round from swapIn to swapOut. *)

IdlePoll1(w) ==
    /\ pc[w] = "idle"
    /\ Stopping1(w)
    /\ Goto(w, "idle2")
    /\ UNCHANGED <<m_fibers, m_state, job, countVars, flagVars, ft, cb_fiber,
                   idleTerm, waiting, taskVars, fault>>

\* The idle fiber ends when stopping() holds, and waits otherwise.
IdlePoll2(w) ==
    /\ pc[w] = "idle2"
    /\ idleTerm' = [idleTerm EXCEPT ![w] = Stopping2(w)]
    /\ noWaiters' = [noWaiters EXCEPT ![w] = FALSE]
    /\ Goto(w, IF Stopping2(w) THEN "idleout" ELSE "epoll")
    /\ UNCHANGED <<m_fibers, m_state, job, countVars, flagVars, ft, cb_fiber,
                   waiting, taskVars, fault>>

\* An event or timer of fiber f is taken out of the event table or timer
\* queue, and then the fiber is scheduled.
IdleTake(w, f) ==
    /\ pc[w] = "epoll"
    /\ f \in waiting
    /\ waiting' = waiting \ {f}
    /\ ft' = [ft EXCEPT ![w] = Entry(f, job[f], None)]
    /\ Goto(w, "wake")
    /\ UNCHANGED <<m_fibers, m_state, job, countVars, flagVars, cb_fiber,
                   idleTerm, noWaiters, taskVars, fault>>

\* Mutant: the event is consumed and its fiber is not scheduled.
IdleDrops(w) ==
    /\ pc[w] = "wake"
    /\ ft' = [ft EXCEPT ![w] = NoEntry]
    /\ Goto(w, "epoll")
    /\ UNCHANGED <<m_fibers, m_state, job, countVars, flagVars, cb_fiber,
                   idleTerm, noWaiters, waiting, taskVars, fault>>

IdleSchedule(w) ==
    /\ pc[w] = "wake"
    /\ Enqueue(ft[w])
    /\ ft' = [ft EXCEPT ![w] = NoEntry]
    /\ Goto(w, "epoll")
    /\ UNCHANGED <<m_state, job, countVars, flagVars, cb_fiber, idleTerm,
                   noWaiters, waiting, taskVars, fault>>

\* swapOut(), or the end of idle(): back in run().
IdleOut(w) ==
    /\ pc[w] \in {"epoll", "idleout"}
    /\ m_idleThreadCount' = m_idleThreadCount - 1
    /\ Goto(w, "pick")
    /\ UNCHANGED <<m_fibers, m_state, job, m_activeThreadCount, flagVars, ft,
                   cb_fiber, idleTerm, noWaiters, waiting, taskVars, fault>>

-----------------------------------------------------------------------------

ToRun(w) == Pick(w) \/ SwapInFiber(w) \/ SwapInCb(w) \/ RunIdle(w)

FromFiber(w) ==
    \/ YieldToHold(w) \/ SwapOut(w) \/ Decrement(w) \/ Settle(w)
    \/ \E s \in Ended : Finish(w, s)

Idle(w) ==
    \/ IdlePoll1(w) \/ IdlePoll2(w) \/ IdleSchedule(w) \/ IdleOut(w)
    \/ \E f \in Fibers : IdleTake(w, f)

Worker(w) ==
    \/ ToRun(w) \/ FromFiber(w) \/ Idle(w)
    \/ YieldToReady(w) \/ Register(w)
    \/ \E t \in Cbs, p \in {None} \cup Pins : TaskSchedules(w, t, p)

Controller ==
    \/ \E t \in Tasks, p \in {None} \cup Pins : MainSchedules(t, p)
    \/ Start \/ Stop \/ StopPoll1 \/ StopPoll2 \/ Join

Next == fault = "none" /\ (Controller \/ \E w \in Threads : Worker(w))

Spec == Init /\ [][Next]_vars

\* A worker that can go on does; a task that runs comes to an end, since it
\* yields a bounded number of times; an awaited event eventually occurs and is
\* then reported by epoll_wait of some worker that keeps polling; stop() polls.
Fairness ==
    /\ \A w \in Threads :
         /\ WF_vars(fault = "none" /\ ToRun(w))
         /\ WF_vars(fault = "none" /\ FromFiber(w))
         /\ WF_vars(fault = "none" /\ (IdlePoll1(w) \/ IdlePoll2(w)
                                        \/ IdleSchedule(w) \/ IdleOut(w)))
    /\ \A f \in Fibers :
         SF_vars(fault = "none" /\ \E w \in Threads : IdleTake(w, f))
    /\ WF_vars(fault = "none" /\ (StopPoll1 \/ StopPoll2 \/ Join))

FairSpec == Spec /\ Fairness

-----------------------------------------------------------------------------
(* Properties. *)

Entries == [fiber : Fibers \cup {None}, task : Tasks \cup {None},
            thread : Threads \cup {None}]

Counted == OnCpu \cup {"return"}
InIdle == {"idle", "idle2", "epoll", "wake", "idleout"}
Steps == Counted \cup InIdle
           \cup {"none", "pick", "dispatch", "settle", "exit"}

\* Type invariant: the fields of Scheduler and Fiber and the locals of run(),
\* and neither thread count exceeds the number of threads.
TypeOK ==
    /\ m_fibers \in Seq(Entries)
    /\ m_state \in [Fibers -> {"FREE", "INIT", "HOLD", "EXEC", "TERM", "READY",
                               "EXCEPT"}]
    /\ job \in [Fibers -> Tasks \cup {None}]
    /\ m_activeThreadCount \in 0 .. Cardinality(Threads)
    /\ m_idleThreadCount \in 0 .. Cardinality(Threads)
    /\ m_stopping \in BOOLEAN /\ m_autoStop \in BOOLEAN
    /\ pc \in [Threads -> Steps] /\ ft \in [Threads -> Entries]
    /\ cb_fiber \in [Threads -> PoolFibers \cup {None}]
    /\ idleTerm \in [Threads -> BOOLEAN]
    /\ noWaiters \in [Threads \cup {Main} -> BOOLEAN]
    /\ waiting \subseteq Fibers
    /\ ctl \in {"new", "started", "stopping", "stopping2", "join", "stopped"}
    /\ starts \in 0 .. MaxStart
    /\ given \in [Tasks -> 0 .. (MaxSchedule + 1)]
    /\ yields \in [Tasks -> 0 .. MaxYield]
    /\ done \subseteq Tasks
    /\ fault \in {"none", "swapIn", "reset", "context"}

HasTask(w) == pc[w] \in Counted \/ (pc[w] = "dispatch" /\ ft[w] # NoEntry)

\* m_activeThreadCount is the number of workers between taking a task and
\* returning from it, m_idleThreadCount of those inside the idle fiber: so
\* stopping() never overlooks a task that is running.
CountsExact ==
    /\ m_activeThreadCount = Cardinality({w \in Threads : HasTask(w)})
    /\ m_idleThreadCount = Cardinality({w \in Threads : pc[w] \in InIdle})

\* A fiber executes on at most one worker: run() never takes a fiber that has
\* not finished leaving the worker it ran on.
FiberOnOneThread ==
    \A v, w \in Threads :
      v # w /\ pc[v] \in OnCpu /\ pc[w] \in OnCpu => Cur(v) # Cur(w)

\* Where a task that has not ended can be: in the queue, in the hands of a
\* worker, in a fiber that a worker runs or has just left, or in a fiber that
\* waits for an event.
Located(t) ==
    \/ \E i \in 1 .. Len(m_fibers) : m_fibers[i].task = t
    \/ \E w \in Threads : pc[w] \in {"dispatch", "wake"} /\ ft[w].task = t
    \/ \E w \in Threads : /\ pc[w] \in Counted \cup {"settle"}
                          /\ Cur(w) # None /\ job[Cur(w)] = t
    \/ \E f \in waiting : job[f] = t

\* No task that was scheduled and has not ended is forgotten.
NoTaskLost == \A t \in Tasks : given[t] > 0 /\ t \notin done => Located(t)

\* When stop() has returned, every task scheduled before it has ended,
\* although workers leave as soon as stopping() holds for them.
StopDrains == ctl = "stopped" => \A t \in Tasks : given[t] > 0 => t \in done

\* stop() returns.
StopReturns == (ctl = "stopping") ~> (ctl = "stopped")

\* A task scheduled on a started scheduler ends.
TaskEnds ==
    \A t \in Tasks : (given[t] > 0 /\ ctl # "new") ~> (t \in done)

\* The scheduler implements a task pool: every turn of a task begins with the
\* task ready, an ended task does not run again, and stop() closes the pool
\* only when every submitted task is done.
PoolStatus(t) ==
    IF \E w \in Threads : pc[w] \in {"running", "parking"} /\ job[Cur(w)] = t
    THEN "running"
    ELSE IF t \in done THEN "done"
    ELSE IF given[t] > 0 THEN "ready"
    ELSE "new"

Pool == INSTANCE TaskPool WITH
    status <- [t \in Tasks |-> PoolStatus(t)],
    open <- ctl \notin {"new", "stopped"}

\* Every behaviour of the scheduler is a behaviour of the task pool.
PoolSpec == Pool!Spec
=============================================================================
