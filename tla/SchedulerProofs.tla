-------------------------- MODULE SchedulerProofs --------------------------
(***************************************************************************)
(* Theorems about Scheduler, for any numbers of threads, callbacks and     *)
(* fibers, when a Fiber object is given to schedule() once (the scheduler  *)
(* itself schedules it again after every yield): the thread counts are     *)
(* exact and no task is lost.  If moreover no task waits for an event, a   *)
(* fiber executes on one thread at a time, and without pinned tasks stop() *)
(* returns only when every task has ended and Scheduler implements         *)
(* TaskPool.                                                               *)
(***************************************************************************)
EXTENDS Scheduler, FiniteSetTheorems, SequenceTheorems, TLAPS

-----------------------------------------------------------------------------
(* The inductive invariant. *)

States == {"FREE", "INIT", "HOLD", "EXEC", "TERM", "READY", "EXCEPT"}

TypeInv ==
    /\ m_fibers \in Seq(Entries)
    /\ m_state \in [Fibers -> States]
    /\ job \in [Fibers -> Tasks \cup {None}]
    /\ m_activeThreadCount \in Int /\ m_idleThreadCount \in Int
    /\ pc \in [Threads -> Steps] /\ ft \in [Threads -> Entries]
    /\ cb_fiber \in [Threads -> PoolFibers \cup {None}]
    /\ idleTerm \in [Threads -> BOOLEAN]
    /\ waiting \in SUBSET Fibers
    /\ given \in [Tasks -> Nat]

\* A worker that has left the code of its fiber, or is about to, still refers to the fiber
\* when somebody else may have been given it.
Leaving == {"parking", "swapout", "return", "settle"}
Resting == {"none", "pick", "idle", "idle2", "epoll", "idleout", "exit"}

\* The entries of the queue.
Queued == {m_fibers[i] : i \in 1 .. Len(m_fibers)}

\* What the place in run() says of the locals.
LocalInv ==
    /\ \A w \in Threads :
         /\ pc[w] \in Resting => ft[w] = NoEntry
         /\ pc[w] \in Leaving \cup {"running"} => Cur(w) # None
         /\ pc[w] = "wake" => ft[w].fiber # None
         /\ pc[w] \in {"none", "exit"} => cb_fiber[w] = None
         /\ ft[w] # NoEntry => ft[w].task # None
    /\ \A e \in Queued : e.task # None

\* Before start() and after stop() no worker runs.
ControlInv == ctl \in {"new", "stopped"} => \A w \in Threads : pc[w] \in {"none", "exit"}

InQ(f) == \E e \in Queued : e.fiber = f

\* Worker w may run fiber f next or runs it.
Has(w, f) ==
    /\ f # None
    /\ \/ ft[w].fiber = f /\ pc[w] \notin Leaving
       \/ cb_fiber[w] = f /\ (pc[w] \in Leaving => ft[w].fiber # None)
\* Worker w leaves fiber f.
Leaves(w, f) == pc[w] \in Leaving /\ Cur(w) = f
\* The cb_fiber of w is kept for the next callback.
Spare(w) ==
    /\ cb_fiber[w] # None
    /\ pc[w] \in Leaving \cup {"running"} => ft[w].fiber # None

\* Nobody can run f.
Unreachable(f) == ~InQ(f) /\ f \notin waiting /\ \A w \in Threads : ~Has(w, f)
Unused(f) == Unreachable(f) /\ \A w \in Threads : ~Leaves(w, f)

\* A fiber is in the queue once.
QueueOnce ==
    \A i, j \in 1 .. Len(m_fibers) :
      m_fibers[i].fiber = m_fibers[j].fiber /\ m_fibers[i].fiber # None => i = j

\* So is a callback that no fiber was given.
IsCb(e, c) == e.fiber = None /\ e.task = c
CbOnce ==
    \A i, j \in 1 .. Len(m_fibers), c \in Tasks :
      IsCb(m_fibers[i], c) /\ IsCb(m_fibers[j], c) => i = j

\* One place at most refers to a fiber that may run: the queue, the events and
\* timers, or a worker.
One(f) ==
    /\ \A v, w \in Threads : Has(v, f) /\ Has(w, f) => v = w
    /\ \A w \in Threads : Has(w, f) => ~InQ(f) /\ f \notin waiting
    /\ f \in waiting => ~InQ(f)
OneRef == QueueOnce /\ \A f \in Fibers : One(f)

\* What the state of a fiber says about that place.
StateOf(f) ==
    /\ m_state[f] = "FREE" => Unused(f)
    /\ f \in UserFibers /\ given[f] <= 0 => m_state[f] = "INIT" /\ Unused(f)
    /\ m_state[f] \in Ended => Unreachable(f)
    /\ m_state[f] = "READY" /\ (\E w \in Threads : Leaves(w, f)) => Unreachable(f)
SpareState(w) ==
    Spare(w) => /\ m_state[cb_fiber[w]] = "INIT" /\ ft[w].fiber # cb_fiber[w]
                /\ \A v \in Threads : ~Leaves(v, cb_fiber[w])
ExecState(w) == pc[w] \in {"running", "parking"} => m_state[Cur(w)] = "EXEC"
StateInv ==
    /\ \A f \in Fibers : StateOf(f)
    /\ \A w \in Threads : SpareState(w) /\ ExecState(w)
    /\ \A v, w \in Threads :
         v # w /\ pc[v] \in OnCpu /\ pc[w] \in OnCpu => Cur(v) # Cur(w)

\* The thread counts, and the sets they count.
CountInv ==
    /\ IsFiniteSet({w \in Threads : HasTask(w)})
    /\ IsFiniteSet({w \in Threads : pc[w] \in InIdle})
    /\ CountsExact

\* A fiber that is to run again is somewhere.
Awaited(f) ==
    \/ InQ(f) \/ f \in waiting
    \/ \E w \in Threads : pc[w] \in {"dispatch", "wake"} /\ ft[w].fiber = f
FiberPlace(f) ==
    /\ m_state[f] = "HOLD" => Awaited(f)
    /\ m_state[f] = "EXEC" =>
         \E w \in Threads : pc[w] \in {"running", "parking"} /\ Cur(w) = f
    /\ f \in UserFibers => job[f] = f
    /\ f \in waiting => job[f] # None
\* What worker w refers to has a task and, once it has ended, is done.
WorkerPlace(w) ==
    /\ pc[w] = "parking" => Awaited(Cur(w))
    /\ pc[w] \in Leaving => m_state[Cur(w)] \notin {"INIT", "FREE"}
    /\ pc[w] \in Leaving /\ m_state[Cur(w)] \in Ended => job[Cur(w)] \in done
    /\ pc[w] \in Leaving \cup {"running"} => job[Cur(w)] # None
    /\ ft[w].fiber # None => ft[w].task = job[ft[w].fiber]
QueuePlace == \A e \in Queued : e.fiber # None => e.task = job[e.fiber]
PlaceInv ==
    /\ \A f \in Fibers : FiberPlace(f)
    /\ \A w \in Threads : WorkerPlace(w)
    /\ QueuePlace

IInv ==
    /\ TypeInv /\ ControlInv /\ CountInv
    /\ fault = "none" => LocalInv /\ OneRef /\ StateInv /\ PlaceInv
    /\ NoTaskLost

\* Without waiting, a fiber that is left is left by one worker and is nowhere else.
Turn(f) ==
    /\ \A w \in Threads : Leaves(w, f) => Unreachable(f)
    /\ \A v, w \in Threads : Leaves(v, f) /\ Leaves(w, f) => v = w
TurnInv ==
    /\ waiting = {} /\ fault = "none"
    /\ \A w \in Threads : pc[w] # "parking"
    /\ \A f \in Fibers : Turn(f)

\* Without pinned tasks, a worker that is about to end, or has ended, leaves no entry: the
\* last one to look at the queue found none.
Done(w) == pc[w] = "exit" \/ (pc[w] = "dispatch" /\ ft[w] = NoEntry /\ idleTerm[w])
FlagInv ==
    /\ ctl \in {"new", "started"} => \A w \in Threads : ~idleTerm[w] /\ pc[w] # "exit"
    /\ ctl = "started" => ~m_stopping
    /\ ctl = "stopped" => \A w \in Threads : pc[w] = "exit"
Unpinned ==
    /\ \A e \in Queued : e.thread = None
    /\ \A w \in Threads : ft[w].thread = None
DrainInv == FlagInv /\ Unpinned /\ ((\A w \in Threads : Done(w)) => Queued = {})

-----------------------------------------------------------------------------
(* The queue. *)

\* Entry e is appended.
Adds(e) ==
    /\ Queued' = Queued \cup {e}
    /\ QueueOnce /\ (e.fiber # None => ~InQ(e.fiber)) => QueueOnce'
    /\ CbOnce /\ (\A d \in Queued, c \in Tasks : IsCb(e, c) => ~IsCb(d, c)) => CbOnce'
\* Entry e is erased.
Erases(e) ==
    /\ e \in Queued /\ Queued' \subseteq Queued /\ Queued \subseteq Queued' \cup {e}
    /\ QueueOnce => QueueOnce' /\ (e.fiber # None => \A d \in Queued' : d.fiber # e.fiber)
    /\ CbOnce => CbOnce' /\ \A d \in Queued', c \in Tasks : IsCb(e, c) => ~IsCb(d, c)

\* What Append does to the entries.
LEMMA AddFacts ==
    ASSUME TypeInv, NEW e \in Entries, Enqueue(e) PROVE m_fibers' \in Seq(Entries) /\ Adds(e)
<1> DEFINE n == Len(m_fibers)
<1>1. m_fibers \in Seq(Entries) /\ n \in Nat
    BY DEF TypeInv
<1>2. /\ m_fibers' \in Seq(Entries) /\ Len(m_fibers') = n + 1 /\ m_fibers'[n + 1] = e
      /\ \A i \in 1 .. n : m_fibers'[i] = m_fibers[i]
    BY <1>1 DEF Enqueue
<1> HIDE DEF n
<1>3. \A i : i \in 1 .. (n + 1) <=> i \in 1 .. n \/ i = n + 1
    BY <1>1
<1>4. n + 1 \notin 1 .. n
    BY <1>1
<1>5. Queued' = Queued \cup {e}
  <2>1. \A d : d \in Queued' <=> \E i \in 1 .. (n + 1) : d = m_fibers'[i]
    BY <1>2 DEF Queued
  <2>2. \A d : d \in Queued <=> \E i \in 1 .. n : d = m_fibers[i]
    BY DEF Queued, n
  <2>3. ASSUME NEW d PROVE d \in Queued' <=> d \in Queued \/ d = e
    BY <1>2, <1>3, <2>1, <2>2
  <2> QED
    BY <2>3
<1>6. ASSUME QueueOnce, e.fiber # None => ~InQ(e.fiber) PROVE QueueOnce'
  <2>1. SUFFICES ASSUME NEW i \in 1 .. (n + 1), NEW j \in 1 .. (n + 1),
                        m_fibers'[i].fiber = m_fibers'[j].fiber, m_fibers'[i].fiber # None
                 PROVE  i = j
    BY <1>2 DEF QueueOnce
  <2>2. \A k \in 1 .. n : m_fibers[k].fiber = e.fiber => e.fiber = None
    BY <1>6 DEF InQ, Queued, n
  <2>3. CASE i \in 1 .. n /\ j \in 1 .. n
    BY <1>2, <1>6, <2>1, <2>3 DEF QueueOnce, n
  <2>4. CASE i = n + 1 /\ j \in 1 .. n
    BY <1>2, <2>1, <2>2, <2>4
  <2>5. CASE j = n + 1 /\ i \in 1 .. n
    BY <1>2, <2>1, <2>2, <2>5
  <2> QED
    BY <1>3, <2>1, <2>3, <2>4, <2>5
<1>7. ASSUME CbOnce, \A d \in Queued, c \in Tasks : IsCb(e, c) => ~IsCb(d, c) PROVE CbOnce'
  <2>1. SUFFICES ASSUME NEW i \in 1 .. (n + 1), NEW j \in 1 .. (n + 1), NEW c \in Tasks,
                        IsCb(m_fibers'[i], c), IsCb(m_fibers'[j], c)
                 PROVE  i = j
    BY <1>2 DEF CbOnce, IsCb
  <2>2. \A k \in 1 .. n : ~(IsCb(e, c) /\ IsCb(m_fibers[k], c))
    BY <1>7 DEF Queued, n
  <2>3. CASE i \in 1 .. n /\ j \in 1 .. n
    BY <1>2, <1>7, <2>1, <2>3 DEF CbOnce, n
  <2>4. CASE i = n + 1 /\ j \in 1 .. n
    BY <1>2, <2>1, <2>2, <2>4
  <2>5. CASE j = n + 1 /\ i \in 1 .. n
    BY <1>2, <2>1, <2>2, <2>5
  <2> QED
    BY <1>3, <2>1, <2>3, <2>4, <2>5
<1> QED
    BY <1>2, <1>5, <1>6, <1>7 DEF Adds

\* What erasing the entry at k does to them.
LEMMA EraseFacts ==
    ASSUME TypeInv, NEW k \in 1 .. Len(m_fibers), m_fibers' = RemoveAt(m_fibers, k)
    PROVE  m_fibers' \in Seq(Entries) /\ Erases(m_fibers[k])
<1> DEFINE n == Len(m_fibers)
           from(j) == IF j < k THEN j ELSE j + 1
<1>1. m_fibers \in Seq(Entries) /\ n \in Nat /\ k \in 1 .. n /\ k \in Int
    BY DEF TypeInv
<1>2. /\ m_fibers' \in Seq(Entries) /\ Len(m_fibers') = n - 1
      /\ \A j \in 1 .. (n - 1) : m_fibers'[j] = m_fibers[from(j)]
  <2> DEFINE a == SubSeq(m_fibers, 1, k - 1)
             b == SubSeq(m_fibers, k + 1, n)
  <2>1. /\ a \in Seq(Entries) /\ Len(a) = k - 1
        /\ \A j \in 1 .. (k - 1) : a[j] = m_fibers[j]
    BY <1>1
  <2>2. /\ b \in Seq(Entries) /\ Len(b) = n - k
        /\ \A j \in 1 .. (n - k) : b[j] = m_fibers[k + j]
    BY <1>1
  <2>3. m_fibers' = a \o b
    BY DEF RemoveAt
  <2> HIDE DEF a, b
  <2>4. /\ m_fibers' \in Seq(Entries) /\ Len(m_fibers') = n - 1
        /\ \A j \in 1 .. (n - 1) : m_fibers'[j] = IF j <= k - 1 THEN a[j] ELSE b[j - (k - 1)]
    <3>1. /\ a \o b \in Seq(Entries) /\ Len(a \o b) = Len(a) + Len(b)
          /\ \A j \in 1 .. (Len(a) + Len(b)) :
                (a \o b)[j] = IF j <= Len(a) THEN a[j] ELSE b[j - Len(a)]
        BY <2>1, <2>2, ConcatProperties
    <3>2. Len(a) + Len(b) = n - 1
        BY <1>1, <2>1, <2>2
    <3> QED
        BY <2>1, <2>3, <3>1, <3>2
  <2>5. ASSUME NEW j \in 1 .. (n - 1) PROVE m_fibers'[j] = m_fibers[from(j)]
    <3>1. CASE j < k
      <4>1. j \in 1 .. (k - 1) /\ j <= k - 1
        BY <1>1, <3>1
      <4> QED
        BY <2>1, <2>4, <3>1, <4>1
    <3>2. CASE ~(j < k)
      <4>1. j - (k - 1) \in 1 .. (n - k) /\ k + (j - (k - 1)) = j + 1 /\ ~(j <= k - 1)
        BY <1>1, <3>2
      <4> QED
        BY <2>2, <2>4, <3>2, <4>1
    <3> QED
        BY <3>1, <3>2
  <2> QED
    BY <2>4, <2>5
<1>3. /\ \A j \in 1 .. (n - 1) : from(j) \in 1 .. n /\ from(j) # k
      /\ \A i, j \in 1 .. (n - 1) : from(i) = from(j) => i = j
    BY <1>1
<1>4. \A i \in 1 .. n : i # k => \E j \in 1 .. (n - 1) : from(j) = i
  <2> TAKE i \in 1 .. n
  <2> HAVE i # k
  <2>1. CASE i < k
    <3>1. i \in 1 .. (n - 1) /\ from(i) = i
        BY <1>1, <2>1
    <3> QED
        BY <3>1
  <2>2. CASE ~(i < k)
    <3>1. i - 1 \in 1 .. (n - 1) /\ from(i - 1) = i
        BY <1>1, <2>2
    <3> QED
        BY <3>1
  <2> QED
    BY <2>1, <2>2
<1> HIDE DEF from, n
<1>5. \A d : d \in Queued' <=> \E j \in 1 .. (n - 1) : d = m_fibers[from(j)]
    BY <1>2 DEF Queued
<1>6. \A d : d \in Queued <=> \E i \in 1 .. n : d = m_fibers[i]
    BY DEF Queued, n
<1>7. m_fibers[k] \in Queued /\ Queued' \subseteq Queued
    BY <1>1, <1>3, <1>5, <1>6
<1>8. Queued \subseteq Queued' \cup {m_fibers[k]}
    BY <1>4, <1>5, <1>6
<1>9. QueueOnce <=> \A i, j \in 1 .. n : m_fibers[i].fiber = m_fibers[j].fiber
                                         /\ m_fibers[i].fiber # None => i = j
    BY DEF QueueOnce, n
<1>10. ASSUME QueueOnce PROVE QueueOnce'
  <2>1. SUFFICES ASSUME NEW i \in 1 .. (n - 1), NEW j \in 1 .. (n - 1),
                        m_fibers'[i].fiber = m_fibers'[j].fiber, m_fibers'[i].fiber # None
                 PROVE  i = j
    BY <1>2 DEF QueueOnce
  <2>2. from(i) = from(j)
    BY <1>2, <1>3, <1>9, <1>10, <2>1
  <2> QED
    BY <1>3, <2>2
<1>11. ASSUME QueueOnce, m_fibers[k].fiber # None, NEW d \in Queued', d.fiber = m_fibers[k].fiber
       PROVE  FALSE
  <2>1. PICK j \in 1 .. (n - 1) : d = m_fibers[from(j)]
    BY <1>5, <1>11
  <2> QED
    BY <1>1, <1>3, <1>9, <1>11, <2>1
<1>12. ASSUME CbOnce PROVE CbOnce'
  <2>1. SUFFICES ASSUME NEW i \in 1 .. (n - 1), NEW j \in 1 .. (n - 1), NEW c \in Tasks,
                        IsCb(m_fibers'[i], c), IsCb(m_fibers'[j], c)
                 PROVE  i = j
    BY <1>2 DEF CbOnce, IsCb
  <2>2. IsCb(m_fibers[from(i)], c) /\ IsCb(m_fibers[from(j)], c)
    BY <1>2, <2>1
  <2>3. from(i) = from(j)
    BY <1>3, <1>12, <2>2 DEF CbOnce, n
  <2> QED
    BY <1>3, <2>3
<1>13. ASSUME CbOnce, NEW d \in Queued', NEW c \in Tasks, IsCb(m_fibers[k], c), IsCb(d, c)
       PROVE  FALSE
  <2>1. PICK j \in 1 .. (n - 1) : d = m_fibers[from(j)]
    BY <1>5, <1>13
  <2> QED
    BY <1>1, <1>3, <1>13, <2>1 DEF CbOnce, n
<1>14. CbOnce => CbOnce' /\ \A d \in Queued', c \in Tasks : IsCb(m_fibers[k], c) => ~IsCb(d, c)
    BY <1>12, <1>13
<1> QED
    BY <1>2, <1>7, <1>8, <1>10, <1>11, <1>14 DEF Erases

-----------------------------------------------------------------------------
(* The steps, as the invariant sees them. *)

\* Worker w goes to step p of run(), with locals e and g.
Moves(w, p, e, g) ==
    /\ pc' \in [Threads -> Steps] /\ ft' \in [Threads -> Entries]
    /\ cb_fiber' \in [Threads -> PoolFibers \cup {None}]
    /\ pc'[w] = p /\ ft'[w] = e /\ cb_fiber'[w] = g
    /\ \A v \in Threads : v # w => pc'[v] = pc[v] /\ ft'[v] = ft[v] /\ cb_fiber'[v] = cb_fiber[v]
\* Fiber f gets state s.
Turns(f, s) ==
    /\ m_state' \in [Fibers -> States]
    /\ m_state'[f] = s /\ \A h \in Fibers : h # f => m_state'[h] = m_state[h]
\* Fiber f gets the code of c.
Gets(f, c) ==
    /\ job' \in [Fibers -> Tasks \cup {None}]
    /\ job'[f] = c /\ \A h \in Fibers : h # f => job'[h] = job[h]

\* No fiber is moved: workers rest, look at the queue in vain or go back to run().
Quiet ==
    /\ UNCHANGED <<m_fibers, m_state, job, ft, cb_fiber, waiting, given, done, fault>>
    /\ pc' \in [Threads -> Steps]
    /\ \A w \in Threads :
         \/ pc'[w] = pc[w]
         \/ /\ pc[w] \in Resting \cup {"dispatch"} /\ ft[w] = NoEntry
            /\ pc'[w] \in (Resting \cup {"dispatch"}) \ {"none", "exit"}
         \/ pc[w] = "swapout" /\ pc'[w] = "return"
         \/ pc[w] = "return" /\ pc'[w] = "settle"

\* The assertion of swapIn() fails: the fiber taken is executing.
Fails ==
    /\ UNCHANGED <<m_fibers, m_state, job, pc, ft, cb_fiber, waiting, given, done>>
    /\ fault' # "none"
    /\ \E w \in Threads : /\ pc[w] = "dispatch" /\ ft[w].fiber \in Fibers
                          /\ m_state[ft[w].fiber] = "EXEC"

Submits(t, p) ==
    /\ p \in {None} \cup Pins
    /\ Adds(Entry(IF t \in Cbs THEN None ELSE t, t, p)) /\ m_fibers' \in Seq(Entries)
    /\ t \in UserFibers => given[t] < MaxSchedule
    /\ t \in Cbs => given[t] < 1
    /\ given' \in [Tasks -> Nat] /\ given'[t] = given[t] + 1
    /\ \A u \in Tasks : u # t => given'[u] = given[u]
    /\ UNCHANGED <<m_state, job, pc, ft, cb_fiber, waiting, done, fault>>

Picks(w, e) ==
    /\ pc[w] = "pick" /\ Erases(e) /\ m_fibers' \in Seq(Entries)
    /\ Moves(w, "dispatch", e, cb_fiber[w])
    /\ UNCHANGED <<m_state, job, waiting, given, done, fault>>

SwapsIn(w, f) ==
    /\ pc[w] = "dispatch" /\ ft[w].fiber = f /\ m_state[f] \notin Ended \cup {"EXEC"}
    /\ Turns(f, "EXEC") /\ Moves(w, "running", ft[w], cb_fiber[w])
    /\ fault' = "none" => \A v \in Threads \ {w} : pc[v] \in OnCpu => Cur(v) # f
    /\ fault' # "none" => \E v \in Threads \ {w} : pc[v] \in OnCpu /\ Cur(v) = f
    /\ UNCHANGED <<m_fibers, job, waiting, given, done>>

SwapsInCb(w, c, g) ==
    /\ pc[w] = "dispatch" /\ ft[w].fiber = None /\ ft[w].task = c /\ c # None
    /\ g = cb_fiber[w] \/ (cb_fiber[w] = None /\ m_state[g] = "FREE")
    /\ Turns(g, "EXEC") /\ Gets(g, c) /\ Moves(w, "running", NoEntry, g)
    /\ UNCHANGED <<m_fibers, waiting, given, done, fault>>

Exits(w) ==
    /\ pc[w] = "dispatch" /\ ft[w] = NoEntry /\ idleTerm[w] /\ Moves(w, "exit", NoEntry, None)
    /\ m_state' \in [Fibers -> States]
    /\ \A f \in Fibers : m_state'[f] = IF f = cb_fiber[w] THEN "FREE" ELSE m_state[f]
    /\ UNCHANGED <<m_fibers, job, waiting, given, done, fault>>

Readies(w, f) ==
    /\ pc[w] = "running" /\ Cur(w) = f /\ Turns(f, "READY")
    /\ Moves(w, "swapout", ft[w], cb_fiber[w])
    /\ UNCHANGED <<m_fibers, job, waiting, given, done, fault>>

Registers(w, f) ==
    /\ MayHold /\ pc[w] = "running" /\ Cur(w) = f /\ waiting' = waiting \cup {f}
    /\ Moves(w, "parking", ft[w], cb_fiber[w])
    /\ UNCHANGED <<m_fibers, m_state, job, given, done, fault>>

Parks(w, f) ==
    /\ pc[w] = "parking" /\ Cur(w) = f /\ Turns(f, "HOLD")
    /\ Moves(w, "swapout", ft[w], cb_fiber[w])
    /\ UNCHANGED <<m_fibers, job, waiting, given, done, fault>>

Finishes(w, f, s) ==
    /\ pc[w] = "running" /\ Cur(w) = f /\ s \in Ended /\ Turns(f, s)
    /\ done' = done \cup {job[f]} /\ Moves(w, "swapout", ft[w], cb_fiber[w])
    /\ UNCHANGED <<m_fibers, job, waiting, given, fault>>

\* Another worker has f when w settles it.
Contended(w, f) == \E v \in Threads \ {w} : pc[v] \in HasFiber /\ Cur(v) = f

SettlesReady(w, f) ==
    /\ pc[w] = "settle" /\ Cur(w) = f /\ m_state[f] = "READY" /\ m_fibers' \in Seq(Entries)
    /\ Adds(Entry(f, job[f], None))
    /\ \E g \in PoolFibers \cup {None} :
         /\ g = IF ft[w].fiber = None THEN None ELSE cb_fiber[w]
         /\ Moves(w, "pick", NoEntry, g)
    /\ fault' = "none" <=> ~Contended(w, f)
    /\ UNCHANGED <<m_state, job, waiting, given, done>>

SettlesHeld(w, f) ==
    /\ pc[w] = "settle" /\ Cur(w) = f /\ m_state[f] \notin {"READY"} \cup Ended
    /\ Turns(f, "HOLD")
    /\ \E g \in PoolFibers \cup {None} :
         /\ g = IF ft[w].fiber = None THEN None ELSE cb_fiber[w]
         /\ Moves(w, "pick", NoEntry, g)
    /\ fault' = "none" <=> ~Contended(w, f)
    /\ UNCHANGED <<m_fibers, job, waiting, given, done>>

SettlesEnded(w, f, s, c) ==
    /\ pc[w] = "settle" /\ Cur(w) = f /\ m_state[f] \in Ended
    /\ Turns(f, s) /\ Gets(f, c)
    /\ IF ft[w].fiber = None THEN s = "INIT"
       ELSE IF f \in PoolFibers THEN s = "FREE" ELSE s = m_state[f]
    /\ f \in UserFibers => c = job[f]
    /\ f \in PoolFibers => c = None
    /\ Moves(w, "pick", NoEntry, cb_fiber[w])
    /\ fault' = "none" <=> ~Contended(w, f)
    /\ UNCHANGED <<m_fibers, waiting, given, done>>

WakeTakes(w, f) ==
    /\ pc[w] = "epoll" /\ f \in waiting /\ waiting' = waiting \ {f}
    /\ Moves(w, "wake", Entry(f, job[f], None), cb_fiber[w])
    /\ UNCHANGED <<m_fibers, m_state, job, given, done, fault>>

WakeAdds(w) ==
    /\ pc[w] = "wake" /\ Adds(ft[w]) /\ m_fibers' \in Seq(Entries)
    /\ Moves(w, "epoll", NoEntry, cb_fiber[w])
    /\ UNCHANGED <<m_state, job, waiting, given, done, fault>>

\* A step of worker w, and of anybody.
WorkerStep(w) ==
    \/ \E e \in Entries : Picks(w, e)
    \/ \E f \in Fibers : \/ SwapsIn(w, f) \/ Readies(w, f) \/ Registers(w, f) \/ Parks(w, f)
                         \/ SettlesReady(w, f) \/ SettlesHeld(w, f) \/ WakeTakes(w, f)
    \/ \E f \in Fibers, s \in States : Finishes(w, f, s)
    \/ \E f \in Fibers, s \in States, c \in Tasks \cup {None} : SettlesEnded(w, f, s, c)
    \/ \E g \in PoolFibers, c \in Tasks : SwapsInCb(w, c, g)
    \/ Exits(w) \/ WakeAdds(w)
AnyStep ==
    \/ Quiet \/ Fails
    \/ \E t \in Tasks, p \in Threads \cup {None} : Submits(t, p)
    \/ \E w \in Threads : WorkerStep(w)

\* Entries.
LEMMA EntryFacts ==
    /\ \A f \in Fibers \cup {None}, t \in Tasks \cup {None}, p \in Threads \cup {None} :
         /\ Entry(f, t, p) \in Entries
         /\ Entry(f, t, p).fiber = f /\ Entry(f, t, p).task = t /\ Entry(f, t, p).thread = p
    /\ NoEntry \in Entries /\ NoEntry.fiber = None /\ NoEntry.task = None
    /\ \A e \in Entries : /\ e.fiber \in Fibers \cup {None} /\ e.task \in Tasks \cup {None}
                          /\ e.fiber = None /\ e.task = None /\ e.thread = None => e = NoEntry
BY DEF Entry, Entries, NoEntry

\* The fiber of a worker that has one.
LEMMA CurFacts ==
    ASSUME TypeInv, LocalInv, NEW w \in Threads
    PROVE  /\ ft[w].fiber \in Fibers \cup {None} /\ cb_fiber[w] \in PoolFibers \cup {None}
           /\ Cur(w) \in Fibers \cup {None}
           /\ pc[w] \in Leaving \cup {"running"} => Cur(w) \in Fibers
<1>1. ft[w] \in Entries /\ cb_fiber[w] \in PoolFibers \cup {None}
    BY DEF TypeInv
<1>2. ft[w].fiber \in Fibers \cup {None}
    BY <1>1, EntryFacts
<1>3. Cur(w) \in Fibers \cup {None}
    BY <1>1, <1>2 DEF Cur, Fibers
<1> QED
    BY <1>1, <1>2, <1>3 DEF LocalInv

\* A worker's assignments to its locals.
LEMMA MoveFacts ==
    ASSUME TypeInv, NEW w \in Threads, NEW p \in Steps, NEW e \in Entries,
           NEW g \in PoolFibers \cup {None}, pc' = [pc EXCEPT ![w] = p],
           ft' = [ft EXCEPT ![w] = e], cb_fiber' = [cb_fiber EXCEPT ![w] = g]
    PROVE  Moves(w, p, e, g)
<1>1. /\ pc \in [Threads -> Steps] /\ ft \in [Threads -> Entries]
      /\ cb_fiber \in [Threads -> PoolFibers \cup {None}]
    BY DEF TypeInv
<1>2. pc' \in [Threads -> Steps] /\ pc'[w] = p /\ \A v \in Threads : v # w => pc'[v] = pc[v]
    BY <1>1
<1>3. ft' \in [Threads -> Entries] /\ ft'[w] = e /\ \A v \in Threads : v # w => ft'[v] = ft[v]
    BY <1>1
<1>4. /\ cb_fiber' \in [Threads -> PoolFibers \cup {None}] /\ cb_fiber'[w] = g
      /\ \A v \in Threads : v # w => cb_fiber'[v] = cb_fiber[v]
    BY <1>1
<1> QED
    BY <1>2, <1>3, <1>4 DEF Moves

\* The same, when they keep their values.
LEMMA StayFacts ==
    ASSUME TypeInv, NEW w \in Threads
    PROVE  /\ ft[w] \in Entries /\ cb_fiber[w] \in PoolFibers \cup {None}
           /\ UNCHANGED ft => ft' = [ft EXCEPT ![w] = ft[w]]
           /\ UNCHANGED cb_fiber => cb_fiber' = [cb_fiber EXCEPT ![w] = cb_fiber[w]]
BY DEF TypeInv

\* The states of fibers.
LEMMA TurnFacts ==
    ASSUME TypeInv, NEW f \in Fibers, NEW s \in States, m_state' = [m_state EXCEPT ![f] = s]
    PROVE  Turns(f, s)
BY DEF TypeInv, Turns

\* Labels.
LEMMA StepFacts ==
    /\ {"pick", "dispatch", "running", "swapout", "parking", "settle", "return", "epoll", "wake",
        "exit", "idle", "idle2", "idleout"} \subseteq Steps
    /\ {"FREE", "INIT", "HOLD", "EXEC", "TERM", "READY", "EXCEPT"} \subseteq States
    /\ Ended \subseteq States
BY DEF Steps, Counted, OnCpu, InIdle, States, Ended

\* schedule().
LEMMA SubmitFacts ==
    ASSUME TypeInv, NEW t \in Tasks, NEW p \in {None} \cup Pins, Submit(t, p),
           UNCHANGED <<m_state, job, pc, ft, cb_fiber, waiting, done, fault>>
    PROVE  Submits(t, p)
<1> DEFINE h == IF t \in Cbs THEN None ELSE t
           e == Entry(h, t, p)
<1>1. h \in Fibers \cup {None} /\ p \in Threads \cup {None}
    BY SchedulerConstants DEF Tasks, Fibers
<1>2. Enqueue(e)
    BY DEF Submit
<1>3. e \in Entries
    BY <1>1, EntryFacts
<1> HIDE DEF e
<1>4. Adds(e) /\ m_fibers' \in Seq(Entries)
    BY <1>2, <1>3, AddFacts
<1>5. given \in [Tasks -> Nat] /\ given' = [given EXCEPT ![t] = @ + 1]
    BY DEF Submit, TypeInv
<1>6. /\ given' \in [Tasks -> Nat] /\ given'[t] = given[t] + 1
      /\ \A u \in Tasks : u # t => given'[u] = given[u]
    BY <1>5
<1>7. (t \in UserFibers => given[t] < MaxSchedule) /\ (t \in Cbs => given[t] < 1)
    BY SchedulerConstants DEF Submit
<1> QED
    BY <1>4, <1>6, <1>7 DEF Submits, e

\* Steps that move no fiber.
LEMMA QuietFacts ==
    ASSUME TypeInv, NEW w \in Threads, NEW p \in Steps, pc' = [pc EXCEPT ![w] = p],
           UNCHANGED <<m_fibers, m_state, job, ft, cb_fiber, waiting, given, done, fault>>,
           \/ /\ pc[w] \in Resting \cup {"dispatch"} /\ ft[w] = NoEntry
              /\ p \in (Resting \cup {"dispatch"}) \ {"none", "exit"}
           \/ pc[w] = "swapout" /\ p = "return"
           \/ pc[w] = "return" /\ p = "settle"
    PROVE  Quiet
<1>1. pc \in [Threads -> Steps]
    BY DEF TypeInv
<1>2. pc' \in [Threads -> Steps] /\ pc'[w] = p /\ \A v \in Threads : v # w => pc'[v] = pc[v]
    BY <1>1
<1> QED
    BY <1>2 DEF Quiet

\* The controller.
LEMMA ControllerSteps == ASSUME TypeInv, LocalInv, ControlInv, Controller PROVE AnyStep
<1>1. ASSUME NEW t \in Tasks, NEW p \in {None} \cup Pins, MainSchedules(t, p) PROVE AnyStep
  <2>1. p \in Threads \cup {None}
    BY SchedulerConstants
  <2>2. Submits(t, p)
    BY <1>1, <2>1, SubmitFacts DEF MainSchedules
  <2> QED
    BY <2>1, <2>2 DEF AnyStep
<1>2. CASE Start
  <2>1. pc' = [w \in Threads |-> "pick"] /\ \A w \in Threads : pc[w] \in {"none", "exit"}
    BY <1>2 DEF Start, ControlInv
  <2>2. pc' \in [Threads -> Steps] /\ \A w \in Threads : pc'[w] = "pick"
    BY <2>1, StepFacts
  <2>3. \A w \in Threads : ft[w] = NoEntry
    BY <2>1 DEF LocalInv, Resting
  <2>4. Quiet
    BY <1>2, <2>1, <2>2, <2>3 DEF Start, Quiet, Resting, taskVars
  <2> QED
    BY <2>4 DEF AnyStep
<1>3. CASE Stop \/ StopPoll1 \/ StopPoll2 \/ Join
  <2>1. pc \in [Threads -> Steps]
    BY DEF TypeInv
  <2> QED
    BY <1>3, <2>1 DEF Stop, StopPoll1, StopPoll2, Join, Quiet, AnyStep, taskVars
<1> QED
    BY <1>1, <1>2, <1>3 DEF Controller

\* Pick, swapIn and the idle branch.
LEMMA ToRunSteps ==
    ASSUME TypeInv, LocalInv, StateInv, fault = "none", NEW w \in Threads, ToRun(w)
    PROVE  AnyStep
<1> USE StepFacts
<1>0. /\ ft[w] \in Entries /\ cb_fiber[w] \in PoolFibers \cup {None}
      /\ ft[w].fiber \in Fibers \cup {None} /\ ft[w].task \in Tasks \cup {None}
      /\ NoEntry \in Entries /\ NoEntry.fiber = None
    BY StayFacts, EntryFacts
<1>1. CASE Pick(w)
  <2> DEFINE ok == {i \in 1 .. Len(m_fibers) : Takes(w, m_fibers[i])}
  <2>1. pc[w] = "pick" /\ ft[w] = NoEntry /\ pc' = [pc EXCEPT ![w] = "dispatch"]
    BY <1>1 DEF Pick, Goto, LocalInv, Resting
  <2>2. CASE ok = {}
    <3>1. Quiet
        BY <1>1, <2>1, <2>2, QuietFacts DEF Pick, Resting, taskVars
    <3> QED
        BY <3>1 DEF AnyStep
  <2>3. CASE ok # {}
    <3>1. PICK i \in ok : ft' = [ft EXCEPT ![w] = m_fibers[i]] /\ m_fibers' = RemoveAt(m_fibers, i)
        BY <1>1, <2>3 DEF Pick
    <3> DEFINE e == m_fibers[i]
    <3>2. i \in 1 .. Len(m_fibers) /\ e \in Entries
        BY <3>1 DEF TypeInv
    <3>3. Erases(e) /\ m_fibers' \in Seq(Entries)
        BY <3>1, <3>2, EraseFacts
    <3>4. UNCHANGED <<m_state, job, cb_fiber, waiting, given, done, fault>>
        BY <1>1 DEF Pick, taskVars
    <3>5. ft' = [ft EXCEPT ![w] = e]
        BY <3>1
    <3> HIDE DEF e
    <3>6. cb_fiber' = [cb_fiber EXCEPT ![w] = cb_fiber[w]]
        BY <3>4, StayFacts
    <3>7. Moves(w, "dispatch", e, cb_fiber[w])
        BY <1>0, <2>1, <3>2, <3>5, <3>6, MoveFacts
    <3>8. Picks(w, e)
        BY <2>1, <3>3, <3>4, <3>7 DEF Picks
    <3> QED
        BY <3>2, <3>8 DEF AnyStep, WorkerStep
  <2> QED
    BY <2>2, <2>3
<1>2. CASE SwapInFiber(w)
  <2> DEFINE f == ft[w].fiber
  <2>1. f \in Fibers /\ pc[w] = "dispatch" /\ m_state[f] \notin Ended
        /\ UNCHANGED <<m_fibers, job, ft, cb_fiber, waiting, given, done>>
    BY <1>0, <1>2 DEF SwapInFiber, taskVars
  <2>2. CASE m_state[f] = "EXEC"
    BY <1>2, <2>1, <2>2 DEF SwapInFiber, Fails, AnyStep
  <2>3. CASE m_state[f] # "EXEC"
    <3>1. /\ m_state' = [m_state EXCEPT ![f] = "EXEC"] /\ pc' = [pc EXCEPT ![w] = "running"]
          /\ fault' = IF \E v \in Threads \ {w} : pc[v] \in OnCpu /\ Cur(v) = f
                      THEN "context" ELSE fault
        BY <1>2, <2>3 DEF SwapInFiber, Goto
    <3>2. Moves(w, "running", ft[w], cb_fiber[w])
        BY <1>0, <2>1, <3>1, StayFacts, MoveFacts
    <3>3. Turns(f, "EXEC")
        BY <2>1, <3>1, TurnFacts
    <3>4. SwapsIn(w, f)
        BY <2>1, <2>3, <3>1, <3>2, <3>3 DEF SwapsIn
    <3> QED
        BY <2>1, <3>4 DEF AnyStep, WorkerStep
  <2> QED
    BY <2>2, <2>3
<1>3. CASE SwapInCb(w)
  <2> DEFINE c == ft[w].task
             G == IF cb_fiber[w] # None THEN {cb_fiber[w]}
                  ELSE {f \in PoolFibers : m_state[f] = "FREE"}
  <2>1. /\ pc[w] = "dispatch" /\ ft[w].fiber = None /\ c # None /\ c \in Tasks
        /\ UNCHANGED <<m_fibers, waiting, given, done>>
    BY <1>0, <1>3 DEF SwapInCb, taskVars
  <2>2. PICK g \in G :
         IF m_state[g] \in {"FREE", "INIT"} \cup Ended
         THEN /\ m_state' = [m_state EXCEPT ![g] = "EXEC"]
              /\ job' = [job EXCEPT ![g] = c]
              /\ cb_fiber' = [cb_fiber EXCEPT ![w] = g]
              /\ ft' = [ft EXCEPT ![w] = NoEntry]
              /\ pc' = [pc EXCEPT ![w] = "running"]
              /\ UNCHANGED fault
         ELSE fault' = "reset" /\ UNCHANGED <<m_state, job, cb_fiber, ft, pc>>
    BY <1>3 DEF SwapInCb, Goto
  <2>3. g \in PoolFibers /\ (g = cb_fiber[w] \/ (cb_fiber[w] = None /\ m_state[g] = "FREE"))
    BY <1>0
  <2>4. g \in Fibers
    BY <2>3 DEF Fibers
  <2>5. CASE m_state[g] \in {"FREE", "INIT"} \cup Ended
    <3>1. Moves(w, "running", NoEntry, g)
        BY <1>0, <2>2, <2>3, <2>5, MoveFacts
    <3>2. Turns(g, "EXEC")
        BY <2>2, <2>4, <2>5, TurnFacts
    <3>3. Gets(g, c)
        BY <2>1, <2>2, <2>4, <2>5 DEF TypeInv, Gets
    <3>4. SwapsInCb(w, c, g)
        BY <2>1, <2>2, <2>3, <2>5, <3>1, <3>2, <3>3 DEF SwapsInCb
    <3> QED
        BY <2>1, <2>3, <3>4 DEF AnyStep, WorkerStep
  <2>6. CASE m_state[g] \notin {"FREE", "INIT"} \cup Ended
    <3>1. Spare(w) /\ g = cb_fiber[w]
        BY <2>1, <2>3, <2>6 DEF Spare, Leaving
    <3> QED
        BY <2>6, <3>1 DEF StateInv, SpareState
  <2> QED
    BY <2>5, <2>6
<1>4. CASE RunIdle(w)
  <2>1. pc[w] = "dispatch" /\ ft' = [ft EXCEPT ![w] = NoEntry]
        /\ UNCHANGED <<m_fibers, job, waiting, given, done, fault>>
    BY <1>4 DEF RunIdle, taskVars
  <2>2. ft[w] = NoEntry
    <3>1. SUFFICES ASSUME ft[w].fiber # None, m_state[ft[w].fiber] \in Ended PROVE FALSE
        BY <1>4 DEF RunIdle
    <3>2. Has(w, ft[w].fiber)
        BY <2>1, <3>1 DEF Has, Leaving
    <3> QED
        BY <1>0, <3>1, <3>2 DEF StateInv, StateOf, Unreachable
  <2>3. CASE ~idleTerm[w]
    <3>1. /\ UNCHANGED <<m_fibers, m_state, job, cb_fiber, waiting, given, done, fault>>
          /\ pc' = [pc EXCEPT ![w] = "idle"]
        BY <1>4, <2>1, <2>3 DEF RunIdle, Goto
    <3>2. UNCHANGED ft
        BY <2>1, <2>2 DEF TypeInv
    <3>3. Quiet
        BY <2>1, <2>2, <3>1, <3>2, QuietFacts DEF Resting
    <3> QED
        BY <3>3 DEF AnyStep
  <2>4. CASE idleTerm[w]
    <3>1. /\ pc' = [pc EXCEPT ![w] = "exit"] /\ cb_fiber' = [cb_fiber EXCEPT ![w] = None]
          /\ m_state' = [f \in Fibers |-> IF f = cb_fiber[w] THEN "FREE" ELSE m_state[f]]
        BY <1>4, <2>4 DEF RunIdle, Goto
    <3>2. Moves(w, "exit", NoEntry, None)
        BY <1>0, <2>1, <3>1, MoveFacts
    <3>3. m_state' \in [Fibers -> States]
          /\ \A f \in Fibers : m_state'[f] = IF f = cb_fiber[w] THEN "FREE" ELSE m_state[f]
        BY <3>1 DEF TypeInv
    <3>4. Exits(w)
        BY <2>1, <2>2, <2>4, <3>2, <3>3 DEF Exits
    <3> QED
        BY <3>4 DEF AnyStep, WorkerStep
  <2> QED
    BY <2>3, <2>4
<1> QED
    BY <1>1, <1>2, <1>3, <1>4 DEF ToRun

\* The fiber switches.
LEMMA FiberSteps ==
    ASSUME TypeInv, LocalInv, fault = "none", NEW w \in Threads,
           FromFiber(w) \/ YieldToReady(w) \/ Register(w)
    PROVE  AnyStep
<1> USE StepFacts
<1> DEFINE f == Cur(w)
<1>0. /\ ft[w] \in Entries /\ cb_fiber[w] \in PoolFibers \cup {None}
      /\ NoEntry \in Entries /\ NoEntry.fiber = None
      /\ pc[w] \in Leaving \cup {"running"} => f \in Fibers
    BY StayFacts, EntryFacts, CurFacts
<1> HIDE DEF f
<1>1. ASSUME NEW p \in Steps, pc' = [pc EXCEPT ![w] = p], UNCHANGED <<ft, cb_fiber>>
      PROVE  Moves(w, p, ft[w], cb_fiber[w])
    BY <1>0, <1>1, StayFacts, MoveFacts
<1>2. ASSUME f \in Fibers,
             \/ Readies(w, f) \/ Registers(w, f) \/ Parks(w, f)
             \/ SettlesReady(w, f) \/ SettlesHeld(w, f)
      PROVE  AnyStep
    BY <1>2 DEF AnyStep, WorkerStep
<1>3. CASE YieldToReady(w)
  <2>1. /\ pc[w] = "running" /\ m_state' = [m_state EXCEPT ![f] = "READY"]
        /\ pc' = [pc EXCEPT ![w] = "swapout"]
        /\ UNCHANGED <<m_fibers, job, ft, cb_fiber, waiting, given, done, fault>>
    BY <1>3 DEF YieldToReady, Runs, Goto, f
  <2>2. f \in Fibers
    BY <1>0, <2>1
  <2>3. Turns(f, "READY") /\ Moves(w, "swapout", ft[w], cb_fiber[w])
    BY <1>1, <2>1, <2>2, TurnFacts
  <2>4. Readies(w, f)
    BY <2>1, <2>3 DEF Readies, f
  <2> QED
    BY <1>2, <2>2, <2>4
<1>4. CASE Register(w)
  <2>1. /\ MayHold /\ pc[w] = "running" /\ waiting' = waiting \cup {f}
        /\ pc' = [pc EXCEPT ![w] = "parking"]
        /\ UNCHANGED <<m_fibers, m_state, job, ft, cb_fiber, given, done, fault>>
    BY <1>4 DEF Register, Runs, Goto, f
  <2>2. f \in Fibers
    BY <1>0, <2>1
  <2>3. Moves(w, "parking", ft[w], cb_fiber[w])
    BY <1>1, <2>1
  <2>4. Registers(w, f)
    BY <2>1, <2>3 DEF Registers, f
  <2> QED
    BY <1>2, <2>2, <2>4
<1>5. CASE YieldToHold(w)
  <2>1. /\ pc[w] = "parking" /\ m_state' = [m_state EXCEPT ![f] = "HOLD"]
        /\ pc' = [pc EXCEPT ![w] = "swapout"]
        /\ UNCHANGED <<m_fibers, job, ft, cb_fiber, waiting, given, done, fault>>
    BY <1>5 DEF YieldToHold, Goto, taskVars, f
  <2>2. f \in Fibers
    BY <1>0, <2>1 DEF Leaving
  <2>3. Turns(f, "HOLD") /\ Moves(w, "swapout", ft[w], cb_fiber[w])
    BY <1>1, <2>1, <2>2, TurnFacts
  <2>4. Parks(w, f)
    BY <2>1, <2>3 DEF Parks, f
  <2> QED
    BY <1>2, <2>2, <2>4
<1>6. ASSUME NEW s \in Ended, Finish(w, s) PROVE AnyStep
  <2>1. /\ pc[w] = "running" /\ m_state' = [m_state EXCEPT ![f] = s]
        /\ pc' = [pc EXCEPT ![w] = "swapout"] /\ done' = done \cup {job[f]}
        /\ UNCHANGED <<m_fibers, job, ft, cb_fiber, waiting, given, fault>>
    BY <1>6 DEF Finish, Runs, Goto, f
  <2>2. f \in Fibers /\ s \in States
    BY <1>0, <2>1
  <2>3. Turns(f, s) /\ Moves(w, "swapout", ft[w], cb_fiber[w])
    BY <1>1, <2>1, <2>2, TurnFacts
  <2>4. Finishes(w, f, s)
    BY <2>1, <2>3 DEF Finishes, f
  <2> QED
    BY <2>2, <2>4 DEF AnyStep, WorkerStep
<1>7. CASE SwapOut(w) \/ Decrement(w)
  <2>1. Quiet
    BY <1>7, QuietFacts DEF SwapOut, Decrement, Goto, taskVars
  <2> QED
    BY <2>1 DEF AnyStep
<1>8. CASE Settle(w)
  <2> DEFINE isCb == ft[w].fiber = None
             ended == m_state[f] \in Ended
             g == IF isCb /\ ~ended THEN None ELSE cb_fiber[w]
             s == IF m_state[f] = "READY" THEN m_state[f]
                  ELSE IF ~ended THEN "HOLD"
                  ELSE IF isCb THEN "INIT"
                  ELSE IF f \in PoolFibers THEN "FREE"
                  ELSE m_state[f]
             c == IF ended /\ f \in PoolFibers THEN None ELSE job[f]
  <2>1. pc[w] = "settle" /\ f \in Fibers
    BY <1>0, <1>8 DEF Settle, Leaving
  <2>2. /\ m_state \in [Fibers -> States] /\ job \in [Fibers -> Tasks \cup {None}]
        /\ cb_fiber \in [Threads -> PoolFibers \cup {None}]
    BY DEF TypeInv
  <2>3. /\ m_state' = [m_state EXCEPT ![f] = s] /\ job' = [job EXCEPT ![f] = c]
        /\ cb_fiber' = [cb_fiber EXCEPT ![w] = g] /\ ft' = [ft EXCEPT ![w] = NoEntry]
        /\ pc' = [pc EXCEPT ![w] = "pick"]
    BY <1>8, <2>2 DEF Settle, Goto, f
  <2>4. /\ IF m_state[f] = "READY" THEN Enqueue(Entry(f, job[f], None)) ELSE UNCHANGED m_fibers
        /\ fault' = "none" <=> ~Contended(w, f)
        /\ UNCHANGED <<waiting, given, done>>
    BY <1>8 DEF Settle, Contended, taskVars, f
  <2>5. s \in States /\ c \in Tasks \cup {None} /\ g \in PoolFibers \cup {None}
    BY <1>0, <2>1, <2>2
  <2>6. Turns(f, s) /\ Gets(f, c)
    BY <2>1, <2>2, <2>3, <2>5 DEF Turns, Gets
  <2>7. Moves(w, "pick", NoEntry, g)
    BY <1>0, <2>3, <2>5, MoveFacts
  <2>8. CASE m_state[f] = "READY"
    <3>1. s = m_state[f] /\ c = job[f] /\ g = IF ft[w].fiber = None THEN None ELSE cb_fiber[w]
        BY <2>8 DEF Ended
    <3>2. UNCHANGED <<m_state, job>>
        BY <2>1, <2>2, <2>3, <3>1
    <3>3. Entry(f, job[f], None) \in Entries
        BY <2>1, <2>2, EntryFacts
    <3>4. Adds(Entry(f, job[f], None)) /\ m_fibers' \in Seq(Entries)
        BY <2>4, <2>8, <3>3, AddFacts
    <3> HIDE DEF g
    <3>5. SettlesReady(w, f)
        BY <2>1, <2>4, <2>5, <2>7, <2>8, <3>1, <3>2, <3>4 DEF SettlesReady, f
    <3> QED
        BY <1>2, <2>1, <3>5
  <2>9. CASE m_state[f] # "READY" /\ ~ended
    <3>1. s = "HOLD" /\ c = job[f] /\ g = IF ft[w].fiber = None THEN None ELSE cb_fiber[w]
        BY <2>9
    <3>2. UNCHANGED job
        BY <2>1, <2>2, <2>3, <3>1
    <3> HIDE DEF g, s
    <3>3. SettlesHeld(w, f)
        BY <2>1, <2>4, <2>5, <2>6, <2>7, <2>9, <3>1, <3>2 DEF SettlesHeld, f
    <3> QED
        BY <1>2, <2>1, <3>3
  <2>10. CASE ended
    <3>1. m_state[f] # "READY" /\ g = cb_fiber[w]
        BY <2>10 DEF Ended
    <3>2. IF ft[w].fiber = None THEN s = "INIT"
          ELSE IF f \in PoolFibers THEN s = "FREE" ELSE s = m_state[f]
        BY <2>10, <3>1
    <3>3. (f \in UserFibers => c = job[f]) /\ (f \in PoolFibers => c = None)
        BY <2>10, SchedulerConstants
    <3> HIDE DEF g, s, c
    <3>4. SettlesEnded(w, f, s, c)
        BY <2>1, <2>4, <2>6, <2>7, <2>10, <3>1, <3>2, <3>3 DEF SettlesEnded, f
    <3> QED
        BY <2>1, <2>5, <3>4 DEF AnyStep, WorkerStep
  <2> QED
    BY <2>8, <2>9, <2>10
<1> QED
    BY <1>3, <1>4, <1>5, <1>6, <1>7, <1>8 DEF FromFiber

\* The idle fiber.
LEMMA IdleSteps ==
    ASSUME TypeInv, LocalInv, fault = "none", NEW w \in Threads, Idle(w) PROVE AnyStep
<1> USE StepFacts
<1>0. /\ ft[w] \in Entries /\ cb_fiber[w] \in PoolFibers \cup {None} /\ NoEntry \in Entries
    BY StayFacts, EntryFacts
<1>1. CASE IdlePoll1(w) \/ IdlePoll2(w) \/ IdleOut(w)
  <2>1. /\ pc[w] \in Resting /\ ft[w] = NoEntry
        /\ UNCHANGED <<m_fibers, m_state, job, ft, cb_fiber, waiting, given, done, fault>>
    BY <1>1 DEF IdlePoll1, IdlePoll2, IdleOut, LocalInv, Resting, taskVars
  <2>2. \E p \in {"idle2", "idleout", "epoll", "pick"} : pc' = [pc EXCEPT ![w] = p]
    BY <1>1 DEF IdlePoll1, IdlePoll2, IdleOut, Goto
  <2>3. Quiet
    BY <2>1, <2>2, QuietFacts DEF Resting
  <2> QED
    BY <2>3 DEF AnyStep
<1>2. ASSUME NEW f \in Fibers, IdleTake(w, f) PROVE AnyStep
  <2>1. /\ pc[w] = "epoll" /\ f \in waiting /\ waiting' = waiting \ {f}
        /\ ft' = [ft EXCEPT ![w] = Entry(f, job[f], None)] /\ pc' = [pc EXCEPT ![w] = "wake"]
        /\ UNCHANGED <<m_fibers, m_state, job, cb_fiber, given, done, fault>>
    BY <1>2 DEF IdleTake, Goto, taskVars
  <2>2. Entry(f, job[f], None) \in Entries
    BY EntryFacts DEF TypeInv
  <2>3. Moves(w, "wake", Entry(f, job[f], None), cb_fiber[w])
    BY <1>0, <2>1, <2>2, StayFacts, MoveFacts
  <2>4. WakeTakes(w, f)
    BY <2>1, <2>3 DEF WakeTakes
  <2> QED
    BY <2>4 DEF AnyStep, WorkerStep
<1>3. CASE IdleSchedule(w)
  <2>1. /\ pc[w] = "wake" /\ Enqueue(ft[w]) /\ ft' = [ft EXCEPT ![w] = NoEntry]
        /\ pc' = [pc EXCEPT ![w] = "epoll"]
        /\ UNCHANGED <<m_state, job, cb_fiber, waiting, given, done, fault>>
    BY <1>3 DEF IdleSchedule, Goto, taskVars
  <2>2. Moves(w, "epoll", NoEntry, cb_fiber[w])
    BY <1>0, <2>1, StayFacts, MoveFacts
  <2>3. Adds(ft[w]) /\ m_fibers' \in Seq(Entries)
    BY <1>0, <2>1, AddFacts
  <2>4. WakeAdds(w)
    BY <2>1, <2>2, <2>3 DEF WakeAdds
  <2> QED
    BY <2>4 DEF AnyStep, WorkerStep
<1> QED
    BY <1>1, <1>2, <1>3 DEF Idle

\* All steps.
LEMMA NextSteps ==
    ASSUME TypeInv, ControlInv, LocalInv, StateInv, fault = "none", [Next]_vars PROVE AnyStep
<1>1. ASSUME NEW w \in Threads, Worker(w) PROVE AnyStep
  <2>1. ASSUME NEW t \in Cbs, NEW p \in {None} \cup Pins, TaskSchedules(w, t, p) PROVE AnyStep
    <3>1. p \in Threads \cup {None} /\ t \in Tasks
        BY SchedulerConstants DEF Tasks
    <3>2. Submits(t, p)
        BY <2>1, <3>1, SubmitFacts DEF TaskSchedules
    <3> QED
        BY <3>1, <3>2 DEF AnyStep
  <2> QED
    BY <1>1, <2>1, ToRunSteps, FiberSteps, IdleSteps DEF Worker
<1>2. CASE UNCHANGED vars
  <2>1. pc \in [Threads -> Steps]
    BY DEF TypeInv
  <2> QED
    BY <1>2, <2>1 DEF vars, taskVars, Quiet, AnyStep
<1> QED
    BY <1>1, <1>2, ControllerSteps DEF Next

-----------------------------------------------------------------------------
(* Types, control and counts. *)

\* Types.
LEMMA NextType == ASSUME TypeInv, AnyStep, [Next]_vars PROVE TypeInv'
<1> DEFINE workers == /\ pc' \in [Threads -> Steps] /\ ft' \in [Threads -> Entries]
                      /\ cb_fiber' \in [Threads -> PoolFibers \cup {None}]
<1>1. UNCHANGED <<pc, ft, cb_fiber>> => workers
    BY DEF TypeInv
<1>2. workers
  <2>1. CASE Quiet
    BY <2>1 DEF Quiet, TypeInv
  <2>2. ASSUME NEW w \in Threads, NEW p, NEW e, NEW g, Moves(w, p, e, g) PROVE workers
    BY <2>2 DEF Moves
  <2> HIDE DEF workers
  <2> QED
    BY <1>1, <2>1, <2>2
    DEF AnyStep, WorkerStep, Fails, Submits, Picks, SwapsIn, SwapsInCb, Exits, Readies, Registers,
        Parks, Finishes, SettlesReady, SettlesHeld, SettlesEnded, WakeTakes, WakeAdds
<1>3. m_fibers' \in Seq(Entries)
  <2>1. UNCHANGED m_fibers \/ m_fibers' \in Seq(Entries)
    BY DEF AnyStep, WorkerStep, Quiet, Fails, Submits, Picks, SwapsIn, SwapsInCb, Exits, Readies,
           Registers, Parks, Finishes, SettlesReady, SettlesHeld, SettlesEnded, WakeTakes, WakeAdds
  <2> QED
    BY <2>1 DEF TypeInv
<1>4. m_state' \in [Fibers -> States]
  <2>1. UNCHANGED m_state \/ m_state' \in [Fibers -> States]
    BY DEF AnyStep, WorkerStep, Quiet, Fails, Submits, Picks, SwapsIn, SwapsInCb, Exits, Readies,
           Registers, Parks, Finishes, SettlesReady, SettlesHeld, SettlesEnded, WakeTakes,
           WakeAdds, Turns
  <2> QED
    BY <2>1 DEF TypeInv
<1>5. job' \in [Fibers -> Tasks \cup {None}]
  <2>1. UNCHANGED job \/ job' \in [Fibers -> Tasks \cup {None}]
    BY DEF AnyStep, WorkerStep, Quiet, Fails, Submits, Picks, SwapsIn, SwapsInCb, Exits, Readies,
           Registers, Parks, Finishes, SettlesReady, SettlesHeld, SettlesEnded, WakeTakes,
           WakeAdds, Gets
  <2> QED
    BY <2>1 DEF TypeInv
<1>6. waiting' \in SUBSET Fibers
  <2>1. \/ UNCHANGED waiting
        \/ \E f \in Fibers : waiting' = waiting \cup {f} \/ waiting' = waiting \ {f}
    BY DEF AnyStep, WorkerStep, Quiet, Fails, Submits, Picks, SwapsIn, SwapsInCb, Exits, Readies,
           Registers, Parks, Finishes, SettlesReady, SettlesHeld, SettlesEnded, WakeTakes, WakeAdds
  <2> QED
    BY <2>1 DEF TypeInv
<1>7. given' \in [Tasks -> Nat]
  <2>1. UNCHANGED given \/ given' \in [Tasks -> Nat]
    BY DEF AnyStep, WorkerStep, Quiet, Fails, Submits, Picks, SwapsIn, SwapsInCb, Exits, Readies,
           Registers, Parks, Finishes, SettlesReady, SettlesHeld, SettlesEnded, WakeTakes, WakeAdds
  <2> QED
    BY <2>1 DEF TypeInv
<1>8. m_activeThreadCount' \in Int /\ m_idleThreadCount' \in Int
  <2>1. m_activeThreadCount' \in {m_activeThreadCount, m_activeThreadCount + 1, m_activeThreadCount - 1}
        /\ m_idleThreadCount' \in {m_idleThreadCount, m_idleThreadCount + 1, m_idleThreadCount - 1}
    BY DEF Next, vars, countVars, Controller, MainSchedules, Start, Stop, StopPoll1, StopPoll2, Join,
           Worker, ToRun, FromFiber, Idle, Pick, SwapInFiber, SwapInCb, RunIdle, YieldToHold,
           SwapOut, Decrement, Settle, Finish, IdlePoll1, IdlePoll2, IdleSchedule, IdleOut,
           IdleTake, YieldToReady, Register, TaskSchedules
  <2> QED
    BY <2>1 DEF TypeInv
<1>9. idleTerm' \in [Threads -> BOOLEAN]
  <2>1. \/ UNCHANGED idleTerm
        \/ idleTerm' = [w \in Threads |-> FALSE]
        \/ \E w \in Threads, b \in BOOLEAN : idleTerm' = [idleTerm EXCEPT ![w] = b]
    <3>1. ASSUME NEW w \in Threads, IdlePoll2(w)
          PROVE  \E b \in BOOLEAN : idleTerm' = [idleTerm EXCEPT ![w] = b]
      <4>1. Stopping2(w) \in BOOLEAN
        BY DEF Stopping2
      <4> QED
        BY <3>1, <4>1 DEF IdlePoll2
    <3> QED
        BY <3>1
        DEF Next, vars, Controller, MainSchedules, Start, Stop, StopPoll1, StopPoll2, Join,
            Worker, ToRun, FromFiber, Idle, Pick, SwapInFiber, SwapInCb, RunIdle, YieldToHold,
            SwapOut, Decrement, Settle, Finish, IdlePoll1, IdleSchedule, IdleOut,
            IdleTake, YieldToReady, Register, TaskSchedules
  <2> QED
    BY <2>1 DEF TypeInv
<1> QED
    BY <1>2, <1>3, <1>4, <1>5, <1>6, <1>7, <1>8, <1>9 DEF TypeInv

\* Who runs when.
LEMMA NextControl == ASSUME TypeInv, ControlInv, [Next]_vars PROVE ControlInv'
<1>1. CASE Controller
  <2>1. UNCHANGED pc \/ Start
    BY <1>1 DEF Controller, MainSchedules, Stop, StopPoll1, StopPoll2, Join
  <2>2. CASE Start
    BY <2>2 DEF Start, ControlInv
  <2>3. CASE Join
    BY <2>3 DEF Join, ControlInv
  <2>4. CASE (\E t \in Tasks, p \in {None} \cup Pins : MainSchedules(t, p)) \/ Stop \/ StopPoll1
             \/ StopPoll2
    BY <2>4 DEF MainSchedules, Stop, StopPoll1, StopPoll2, ControlInv, flagVars
  <2> QED
    BY <1>1, <2>2, <2>3, <2>4 DEF Controller
<1>2. ASSUME NEW w \in Threads, Worker(w) PROVE ControlInv'
  <2>1. pc[w] \notin {"none", "exit"}
    BY <1>2 DEF Worker, ToRun, FromFiber, Idle, Pick, SwapInFiber, SwapInCb, RunIdle, YieldToHold,
           SwapOut, Decrement, Settle, Finish, IdlePoll1, IdlePoll2, IdleSchedule, IdleOut,
           IdleTake, YieldToReady, Register, TaskSchedules, Runs
  <2>2. UNCHANGED ctl
    BY <1>2 DEF Worker, ToRun, FromFiber, Idle, Pick, SwapInFiber, SwapInCb, RunIdle, YieldToHold,
           SwapOut, Decrement, Settle, Finish, IdlePoll1, IdlePoll2, IdleSchedule, IdleOut,
           IdleTake, YieldToReady, Register, TaskSchedules, flagVars
  <2> QED
    BY <2>1, <2>2 DEF ControlInv
<1>3. CASE UNCHANGED vars
    BY <1>3 DEF vars, flagVars, ControlInv
<1> QED
    BY <1>1, <1>2, <1>3 DEF Next

\* Locals.
LEMMA NextLocal == ASSUME TypeInv, LocalInv, PlaceInv, AnyStep PROVE LocalInv'
<1> DEFINE L(w) ==
             /\ pc'[w] \in Resting => ft'[w] = NoEntry
             /\ pc'[w] \in Leaving \cup {"running"} => Cur(w)' # None
             /\ pc'[w] = "wake" => ft'[w].fiber # None
             /\ pc'[w] \in {"none", "exit"} => cb_fiber'[w] = None
             /\ ft'[w] # NoEntry => ft'[w].task # None
           Q == \A e \in Queued' : e.task # None
<1> USE EntryFacts DEF Resting, Leaving
<1>1. \A w \in Threads : pc'[w] = pc[w] /\ ft'[w] = ft[w] /\ cb_fiber'[w] = cb_fiber[w] => L(w)
    BY DEF LocalInv, Cur
<1>2. ASSUME NEW w \in Threads, NEW p, NEW e, NEW g, Moves(w, p, e, g), L(w)
      PROVE  \A v \in Threads : L(v)
    BY <1>1, <1>2 DEF Moves
<1>3. None \notin Tasks /\ None \notin Fibers /\ None \notin PoolFibers
    BY SchedulerConstants DEF Tasks, Fibers
<1>4. UNCHANGED m_fibers => Q
    BY DEF LocalInv, Queued
<1>5. ASSUME NEW e, Adds(e), e.task # None PROVE Q
    BY <1>5 DEF Adds, LocalInv
<1>6. \A w \in Threads : ft[w] \in Entries /\ cb_fiber[w] \in PoolFibers \cup {None}
    BY StayFacts
<1>7. \A f \in Fibers : job[f] \in Tasks \cup {None}
    BY DEF TypeInv
<1>8. SUFFICES (\A w \in Threads : L(w)) /\ Q
    BY DEF LocalInv
<1>9. CASE Quiet
  <2>1. ASSUME NEW w \in Threads PROVE L(w)
    BY <1>1, <1>9 DEF Quiet, LocalInv, Cur
  <2> QED
    BY <1>4, <1>9, <2>1 DEF Quiet
<1>10. CASE Fails
    BY <1>1, <1>4, <1>10 DEF Fails
<1>11. ASSUME NEW t \in Tasks, NEW p \in Threads \cup {None}, Submits(t, p) PROVE (\A w \in Threads : L(w)) /\ Q
  <2>1. UNCHANGED <<pc, ft, cb_fiber>>
    BY <1>11 DEF Submits
  <2> DEFINE h == IF t \in Cbs THEN None ELSE t
             e == Entry(h, t, p)
  <2>2. h \in Fibers \cup {None}
    BY DEF Tasks, Fibers
  <2>3. Adds(e)
    BY <1>11 DEF Submits
  <2>4. e.task = t
    BY <2>2
  <2> HIDE DEF e
  <2>5. Q
    BY <1>3, <1>5, <2>3, <2>4
  <2> QED
    BY <1>1, <2>1, <2>5
<1>12. ASSUME NEW w \in Threads, WorkerStep(w) PROVE (\A v \in Threads : L(v)) /\ Q
  <2>0. L(w) /\ (\E p, e, g : Moves(w, p, e, g)) /\ Q => (\A v \in Threads : L(v)) /\ Q
    BY <1>2
  <2>1. ASSUME NEW e \in Entries, Picks(w, e) PROVE (\A v \in Threads : L(v)) /\ Q
    <3>1. Q /\ e.task # None
        BY <2>1 DEF Picks, Erases, LocalInv
    <3>2. L(w)
        BY <2>1, <3>1 DEF Picks, Moves
    <3> QED
        BY <2>0, <2>1, <3>1, <3>2 DEF Picks
  <2>2. ASSUME NEW f \in Fibers, SwapsIn(w, f) PROVE (\A v \in Threads : L(v)) /\ Q
    <3>1. L(w)
        BY <1>3, <2>2 DEF SwapsIn, Moves, Cur, LocalInv
    <3> QED
        BY <1>4, <2>0, <2>2, <3>1 DEF SwapsIn
  <2>3. ASSUME NEW f \in Fibers, Readies(w, f) \/ Registers(w, f) \/ Parks(w, f)
        PROVE (\A v \in Threads : L(v)) /\ Q
    <3>1. /\ pc[w] \in Leaving \cup {"running"} /\ UNCHANGED m_fibers
          /\ \E p \in {"swapout", "parking"} : Moves(w, p, ft[w], cb_fiber[w])
        BY <2>3 DEF Readies, Registers, Parks
    <3>2. L(w)
        BY <3>1 DEF Moves, Cur, LocalInv
    <3> QED
        BY <1>4, <2>0, <3>1, <3>2
  <2>4. ASSUME NEW f \in Fibers, NEW s \in States, Finishes(w, f, s)
        PROVE (\A v \in Threads : L(v)) /\ Q
    <3>1. /\ pc[w] = "running" /\ UNCHANGED m_fibers /\ Moves(w, "swapout", ft[w], cb_fiber[w])
        BY <2>4 DEF Finishes
    <3>2. L(w)
        BY <3>1 DEF Moves, Cur, LocalInv
    <3> QED
        BY <1>4, <2>0, <3>1, <3>2
  <2>5. ASSUME NEW g, Moves(w, "pick", NoEntry, g) PROVE L(w)
    BY <2>5 DEF Moves
  <2>6. ASSUME NEW f \in Fibers, SettlesReady(w, f) PROVE (\A v \in Threads : L(v)) /\ Q
    <3>1. job[f] # None
        BY <2>6 DEF SettlesReady, PlaceInv, WorkerPlace
    <3>2. Entry(f, job[f], None).task = job[f]
        BY <1>7
    <3>3. Q
        BY <1>5, <2>6, <3>1, <3>2 DEF SettlesReady
    <3> QED
        BY <2>0, <2>5, <2>6, <3>3 DEF SettlesReady
  <2>7. ASSUME NEW f \in Fibers, SettlesHeld(w, f) PROVE (\A v \in Threads : L(v)) /\ Q
    BY <1>4, <2>0, <2>5, <2>7 DEF SettlesHeld
  <2>8. ASSUME NEW f \in Fibers, NEW s \in States, NEW c \in Tasks \cup {None}, SettlesEnded(w, f, s, c)
        PROVE (\A v \in Threads : L(v)) /\ Q
    BY <1>4, <2>0, <2>5, <2>8 DEF SettlesEnded
  <2>9. ASSUME NEW g \in PoolFibers, NEW c \in Tasks, SwapsInCb(w, c, g)
        PROVE (\A v \in Threads : L(v)) /\ Q
    <3>1. L(w)
        BY <1>3, <2>9 DEF SwapsInCb, Moves, Cur
    <3> QED
        BY <1>4, <2>0, <2>9, <3>1 DEF SwapsInCb
  <2>10. CASE Exits(w)
    <3>1. L(w)
        BY <2>10 DEF Exits, Moves
    <3> QED
        BY <1>4, <2>0, <2>10, <3>1 DEF Exits
  <2>11. ASSUME NEW f \in Fibers, WakeTakes(w, f) PROVE (\A v \in Threads : L(v)) /\ Q
    <3>1. job[f] # None
        BY <2>11 DEF WakeTakes, PlaceInv, FiberPlace
    <3>2. Entry(f, job[f], None).task = job[f] /\ Entry(f, job[f], None).fiber = f
        BY <1>7
    <3>3. L(w)
        BY <1>3, <2>11, <3>1, <3>2 DEF WakeTakes, Moves
    <3> QED
        BY <1>4, <2>0, <2>11, <3>3 DEF WakeTakes
  <2>12. CASE WakeAdds(w)
    <3>1. L(w)
        BY <2>12 DEF WakeAdds, Moves
    <3>2. ft[w].task # None
        BY <1>3, <1>6, <2>12 DEF WakeAdds, LocalInv
    <3>3. Q
        BY <1>5, <2>12, <3>2 DEF WakeAdds
    <3> QED
        BY <2>0, <2>12, <3>1, <3>3 DEF WakeAdds
  <2> HIDE DEF L, Q
  <2> QED
    BY <1>12, <2>1, <2>2, <2>3, <2>4, <2>6, <2>7, <2>8, <2>9, <2>10, <2>11, <2>12 DEF WorkerStep
<1> HIDE DEF L, Q
<1> QED
    BY <1>9, <1>10, <1>11, <1>12 DEF AnyStep

-----------------------------------------------------------------------------
(* One reference, and what the states of fibers say. *)

\* No place begins to refer to fiber h.
Shrinks(h) ==
    /\ InQ(h)' => InQ(h)
    /\ h \in waiting' => h \in waiting
    /\ \A v \in Threads : Has(v, h)' => Has(v, h)
Keeps(h) ==
    /\ Shrinks(h) /\ m_state'[h] = m_state[h] /\ (h \in UserFibers => given'[h] = given[h])
    /\ \A v \in Threads : Leaves(v, h)' => Leaves(v, h)
\* Only worker w and fiber f change.
Effect(w, f) ==
    /\ \A h \in Fibers \ {f} : Keeps(h)
    /\ \A v \in Threads \ {w} : pc'[v] = pc[v] /\ ft'[v] = ft[v] /\ cb_fiber'[v] = cb_fiber[v]

\* What is left to show of such a step.
LEMMA EffectFacts ==
    ASSUME TypeInv, LocalInv, OneRef, StateInv, NEW w \in Threads, NEW f, Effect(w, f),
           QueueOnce', f \in Fibers => One(f)' /\ StateOf(f)', SpareState(w)', ExecState(w)',
           \A v \in Threads \ {w} : Spare(v) => cb_fiber[v] # f,
           \A v \in Threads \ {w} : /\ pc[v] \in {"running", "parking"} /\ Cur(v) = f
                                    => m_state'[f] = "EXEC",
           pc'[w] \in OnCpu =>
             \A v \in Threads \ {w} : pc[v] \in OnCpu => Cur(v) # Cur(w)'
    PROVE  OneRef' /\ StateInv'
<1>1. ASSUME NEW h \in Fibers, h # f PROVE One(h)' /\ StateOf(h)'
  <2>1. Keeps(h) /\ One(h) /\ StateOf(h)
    BY <1>1 DEF Effect, OneRef, StateInv
  <2>2. One(h)'
    BY <2>1 DEF Keeps, Shrinks, One
  <2>3. Unreachable(h) => Unreachable(h)'
    BY <2>1 DEF Keeps, Shrinks, Unreachable
  <2>4. Unused(h) => Unused(h)'
    BY <2>1, <2>3 DEF Keeps, Unused
  <2>5. (\E v \in Threads : Leaves(v, h)') => \E v \in Threads : Leaves(v, h)
    BY <2>1 DEF Keeps
  <2>6. m_state'[h] = m_state[h] /\ (h \in UserFibers => given'[h] = given[h])
    BY <2>1 DEF Keeps
  <2>7. StateOf(h)'
    BY <2>1, <2>3, <2>4, <2>5, <2>6 DEF StateOf
  <2> QED
    BY <2>2, <2>7
<1>2. ASSUME NEW v \in Threads, v # w PROVE SpareState(v)' /\ ExecState(v)'
  <2>1. pc'[v] = pc[v] /\ ft'[v] = ft[v] /\ cb_fiber'[v] = cb_fiber[v]
    BY <1>2 DEF Effect
  <2>2. Cur(v)' = Cur(v) /\ (Spare(v)' <=> Spare(v))
    BY <2>1 DEF Cur, Spare
  <2>3. SpareState(v)'
    <3>1. SUFFICES ASSUME Spare(v)
                   PROVE  /\ m_state'[cb_fiber[v]] = "INIT" /\ ft[v].fiber # cb_fiber[v]
                          /\ \A u \in Threads : ~Leaves(u, cb_fiber[v])'
        BY <2>1, <2>2 DEF SpareState
    <3>2. PICK h \in Fibers : h = cb_fiber[v] /\ h # f
      <4>1. cb_fiber[v] \in Fibers
        BY <3>1, CurFacts DEF Spare, Fibers
      <4> QED
        BY <1>2, <3>1, <4>1
    <3>3. SpareState(v) /\ Keeps(h)
        BY <3>2 DEF StateInv, Effect
    <3>4. /\ m_state[h] = "INIT" /\ ft[v].fiber # h /\ \A u \in Threads : ~Leaves(u, h)
        BY <3>1, <3>2, <3>3 DEF SpareState
    <3>5. cb_fiber'[v] = h
        BY <2>1, <3>2
    <3>6. \A u \in Threads : Leaves(u, h)' <=> Leaves(u, cb_fiber[v])'
        BY <3>5 DEF Leaves
    <3> QED
        BY <3>2, <3>3, <3>4, <3>6 DEF Keeps
  <2>4. ExecState(v)'
    <3>1. SUFFICES ASSUME pc[v] \in {"running", "parking"} PROVE m_state'[Cur(v)] = "EXEC"
        BY <2>1, <2>2 DEF ExecState
    <3>2. Cur(v) \in Fibers /\ m_state[Cur(v)] = "EXEC"
        BY <3>1, CurFacts DEF StateInv, ExecState, Leaving
    <3>3. CASE Cur(v) = f
        BY <1>2, <3>1, <3>3
    <3>4. CASE Cur(v) # f
        BY <3>2, <3>4 DEF Effect, Keeps
    <3> QED
        BY <3>3, <3>4
  <2> QED
    BY <2>3, <2>4
<1>3. ASSUME NEW u \in Threads, NEW v \in Threads, u # v, pc'[u] \in OnCpu, pc'[v] \in OnCpu
      PROVE  Cur(u)' # Cur(v)'
  <2>1. \A x \in Threads \ {w} : pc'[x] = pc[x] /\ Cur(x)' = Cur(x)
    BY DEF Effect, Cur
  <2>2. CASE u # w /\ v # w
    BY <1>3, <2>1, <2>2 DEF StateInv
  <2>3. CASE u = w
    BY <1>3, <2>1, <2>3
  <2>4. CASE v = w
    BY <1>3, <2>1, <2>4
  <2> QED
    BY <2>2, <2>3, <2>4
<1>4. OneRef'
    BY <1>1 DEF OneRef
<1>5. StateInv'
    BY <1>1, <1>2, <1>3 DEF StateInv
<1> QED
    BY <1>4, <1>5

\* What a worker has.
LEMMA HasFacts ==
    ASSUME TypeInv, LocalInv, NEW w \in Threads
    PROVE  /\ Spare(w) => cb_fiber[w] \in Fibers /\ Has(w, cb_fiber[w])
           /\ pc[w] = "running" => Cur(w) \in Fibers /\ Has(w, Cur(w))
           /\ pc[w] \in Leaving => Cur(w) \in Fibers /\ Leaves(w, Cur(w))
           /\ ft[w].fiber # None /\ pc[w] \notin Leaving =>
                ft[w].fiber \in Fibers /\ Has(w, ft[w].fiber)
           /\ None \notin Fibers
<1>1. None \notin Fibers /\ PoolFibers \subseteq Fibers
    BY SchedulerConstants DEF Fibers
<1>2. Spare(w) => cb_fiber[w] \in Fibers /\ Has(w, cb_fiber[w])
    BY <1>1, CurFacts DEF Spare, Has
<1>3. pc[w] = "running" => Cur(w) \in Fibers /\ Has(w, Cur(w))
    BY <1>1, CurFacts DEF Cur, Has, Leaving
<1>4. pc[w] \in Leaving => Cur(w) \in Fibers /\ Leaves(w, Cur(w))
    BY CurFacts DEF Leaves
<1>5. ft[w].fiber # None /\ pc[w] \notin Leaving => ft[w].fiber \in Fibers /\ Has(w, ft[w].fiber)
    BY CurFacts DEF Has
<1> QED
    BY <1>1, <1>2, <1>3, <1>4, <1>5

\* A fiber that somebody can run.
LEMMA ReachableFacts ==
    ASSUME NEW f \in Fibers, StateInv, ~Unreachable(f)
    PROVE  /\ m_state[f] \notin {"FREE"} \cup Ended /\ ~(f \in UserFibers /\ given[f] <= 0)
           /\ m_state[f] = "READY" => \A w \in Threads : ~Leaves(w, f)
BY DEF StateInv, StateOf, Unused

\* The workers that do not move.
Frame(w) ==
    /\ \A v \in Threads \ {w} : pc'[v] = pc[v] /\ ft'[v] = ft[v] /\ cb_fiber'[v] = cb_fiber[v]
    /\ \A v \in Threads \ {w}, h \in Fibers : /\ Has(v, h)' <=> Has(v, h)
                                              /\ Leaves(v, h)' <=> Leaves(v, h)
LEMMA FrameFacts == ASSUME NEW w \in Threads, NEW p, NEW e, NEW g, Moves(w, p, e, g) PROVE Frame(w)
<1>1. \A v \in Threads \ {w} : pc'[v] = pc[v] /\ ft'[v] = ft[v] /\ cb_fiber'[v] = cb_fiber[v]
    BY DEF Moves
<1> QED
    BY <1>1 DEF Frame, Has, Leaves, Cur

\* The queue that does not change.
LEMMA SameQueue ==
    ASSUME UNCHANGED m_fibers
    PROVE  /\ Queued' = Queued /\ QueueOnce' = QueueOnce
           /\ \A h \in Fibers : InQ(h)' <=> InQ(h)
BY DEF Queued, QueueOnce, InQ

\* A worker keeps its spare fiber.
LEMMA SpareKept ==
    ASSUME TypeInv, LocalInv, StateInv, NEW w \in Threads, NEW f, Effect(w, f),
           Spare(w)' => /\ Spare(w) /\ cb_fiber'[w] = cb_fiber[w] /\ cb_fiber[w] # f
                        /\ ft'[w].fiber # cb_fiber[w]
    PROVE  SpareState(w)'
<1>1. SUFFICES ASSUME Spare(w), cb_fiber'[w] = cb_fiber[w], cb_fiber[w] # f,
                      ft'[w].fiber # cb_fiber[w]
               PROVE  /\ m_state'[cb_fiber[w]] = "INIT"
                      /\ \A v \in Threads : ~Leaves(v, cb_fiber[w])'
    BY DEF SpareState
<1>2. PICK h \in Fibers : h = cb_fiber[w]
    BY <1>1, HasFacts
<1>3. SpareState(w) /\ Keeps(h)
    BY <1>1, <1>2 DEF StateInv, Effect
<1>4. m_state[h] = "INIT" /\ \A v \in Threads : ~Leaves(v, h)
    BY <1>1, <1>2, <1>3 DEF SpareState
<1>5. \A v \in Threads : ~Leaves(v, h)'
    BY <1>3, <1>4 DEF Keeps
<1>6. \A v \in Threads : ~Leaves(v, cb_fiber[w])'
    BY <1>1, <1>2, <1>5 DEF Leaves
<1> QED
    BY <1>2, <1>3, <1>4, <1>6 DEF Keeps

\* A fiber that is referred to, or left, or not used at all, is nobody else's spare.
LEMMA NotSpare ==
    ASSUME TypeInv, LocalInv, OneRef, StateInv, NEW w \in Threads, NEW f \in Fibers,
           Has(w, f) \/ Leaves(w, f) \/ InQ(f) \/ f \in waiting \/ Unreachable(f),
           NEW v \in Threads, v # w, Spare(v)
    PROVE  cb_fiber[v] # f
<1>1. SUFFICES ASSUME cb_fiber[v] = f PROVE FALSE
    OBVIOUS
<1>2. Has(v, f)
    BY <1>1, HasFacts
<1>3. SpareState(v) /\ One(f)
    BY DEF StateInv, OneRef
<1>4. ~Leaves(w, f)
    BY <1>1, <1>3 DEF SpareState
<1> QED
    BY <1>2, <1>3, <1>4 DEF One, Unreachable

\* An entry is taken.
LEMMA PicksInv ==
    ASSUME TypeInv, LocalInv, OneRef, StateInv, NEW w \in Threads, NEW e \in Entries, Picks(w, e)
    PROVE  OneRef' /\ StateInv' /\ Effect(w, e.fiber)
<1> DEFINE f == e.fiber
<1>1. /\ pc[w] = "pick" /\ Moves(w, "dispatch", e, cb_fiber[w]) /\ Erases(e)
      /\ UNCHANGED <<m_state, waiting, given>>
    BY DEF Picks
<1>2. ft[w].fiber = None /\ f \in Fibers \cup {None} /\ None \notin Fibers
    BY <1>1, EntryFacts, HasFacts DEF LocalInv, Resting
<1>3. Frame(w)
    BY <1>1, FrameFacts
<1>4. pc'[w] = "dispatch" /\ ft'[w].fiber = f /\ cb_fiber'[w] = cb_fiber[w]
    BY <1>1 DEF Moves
<1> HIDE DEF f
<1>5. \A h \in Fibers : /\ Has(w, h)' <=> Has(w, h) \/ h = f
                        /\ ~Leaves(w, h)' /\ ~Leaves(w, h)
    BY <1>1, <1>2, <1>4 DEF Has, Leaves, Leaving
<1>6. /\ \A h \in Fibers : InQ(h)' => InQ(h)
      /\ f # None => InQ(f) /\ ~InQ(f)'
      /\ QueueOnce'
    BY <1>1 DEF Erases, OneRef, InQ, f
<1>7. Effect(w, f)
    BY <1>1, <1>3, <1>5, <1>6 DEF Effect, Keeps, Shrinks, Frame
<1>8. ASSUME f \in Fibers
      PROVE  /\ \A v \in Threads : ~Has(v, f)
             /\ f \notin waiting /\ ~Unreachable(f)
    BY <1>2, <1>6, <1>8 DEF OneRef, One, Unreachable
<1>9. ASSUME f \in Fibers PROVE One(f)'
  <2>1. \A v \in Threads : Has(v, f)' => v = w
    BY <1>3, <1>8, <1>9 DEF Frame
  <2> QED
    BY <1>1, <1>2, <1>6, <1>8, <1>9, <2>1 DEF One
<1>10. ASSUME f \in Fibers PROVE StateOf(f)'
  <2>1. /\ m_state[f] \notin {"FREE"} \cup Ended /\ ~(f \in UserFibers /\ given[f] <= 0)
        /\ m_state[f] = "READY" => \A v \in Threads : ~Leaves(v, f)
    BY <1>8, <1>10, ReachableFacts
  <2>2. \A v \in Threads : Leaves(v, f)' => Leaves(v, f)
    BY <1>3, <1>5, <1>10 DEF Frame
  <2> QED
    BY <1>1, <2>1, <2>2 DEF StateOf
<1>11. \A v \in Threads \ {w} : Spare(v) => cb_fiber[v] # f
    BY <1>2, <1>6, NotSpare, HasFacts
<1>12. SpareState(w)'
  <2>1. Spare(w)' => Spare(w)
    BY <1>1, <1>4 DEF Spare, Leaving
  <2>2. Spare(w) => cb_fiber[w] # f
    BY <1>2, <1>8, HasFacts
  <2> QED
    BY <1>4, <1>7, <2>1, <2>2, SpareKept
<1>13. ExecState(w)' /\ pc'[w] \notin OnCpu
    BY <1>4 DEF ExecState, OnCpu
<1>14. ASSUME NEW v \in Threads \ {w}, pc[v] \in {"running", "parking"}, Cur(v) = f
       PROVE  m_state'[f] = "EXEC"
    BY <1>1, <1>14 DEF StateInv, ExecState
<1>17. OneRef' /\ StateInv'
    BY <1>6, <1>7, <1>9, <1>10, <1>11, <1>12, <1>13, <1>14, EffectFacts
<1> QED
    BY <1>7, <1>17 DEF f

\* A worker leaves the fiber it runs.
LEMMA DepartFacts ==
    ASSUME TypeInv, LocalInv, OneRef, StateInv, NEW w \in Threads, NEW f \in Fibers,
           NEW p \in Leaving, pc[w] = "running", Cur(w) = f, Moves(w, p, ft[w], cb_fiber[w])
    PROVE  /\ Frame(w) /\ Cur(w)' = f
           /\ \A h \in Fibers : /\ Has(w, h)' => Has(w, h)
                                /\ Leaves(w, h)' <=> h = f
           /\ Has(w, f) /\ (\A v \in Threads : ~Has(v, f)') /\ ~InQ(f) /\ f \notin waiting
           /\ m_state[f] = "EXEC" /\ ~(f \in UserFibers /\ given[f] <= 0)
           /\ \A v \in Threads \ {w} : pc[v] \in OnCpu => Cur(v) # f
           /\ \A v \in Threads \ {w} : Spare(v) => cb_fiber[v] # f
           /\ Spare(w)' => /\ Spare(w) /\ cb_fiber'[w] = cb_fiber[w] /\ cb_fiber[w] # f
                           /\ ft'[w].fiber # cb_fiber[w]
<1>1. Frame(w)
    BY FrameFacts
<1>2. pc'[w] = p /\ ft'[w] = ft[w] /\ cb_fiber'[w] = cb_fiber[w] /\ p \notin {"running"}
    BY DEF Moves, Leaving
<1>3. Cur(w)' = f
    BY <1>2 DEF Cur
<1>4. Has(w, f) /\ None \notin Fibers
    BY HasFacts
<1>5. cb_fiber[w] # None /\ ft[w].fiber # None => ft[w].fiber = f /\ cb_fiber[w] # f
    BY DEF StateInv, SpareState, Spare, Cur
<1>6. \A h \in Fibers : (Has(w, h)' => Has(w, h)) /\ (Leaves(w, h)' <=> h = f)
    BY <1>2, <1>3 DEF Has, Leaves, Leaving
<1>7. ~Has(w, f)'
    BY <1>2, <1>4, <1>5 DEF Has
<1>8. One(f)
    BY DEF OneRef
<1>9. (\A v \in Threads : ~Has(v, f)') /\ ~InQ(f) /\ f \notin waiting
    BY <1>1, <1>4, <1>7, <1>8 DEF One, Frame
<1>10. m_state[f] = "EXEC"
    BY DEF StateInv, ExecState
<1>11. ~(f \in UserFibers /\ given[f] <= 0)
    BY <1>4, ReachableFacts DEF Unreachable
<1>12. \A v \in Threads \ {w} : pc[v] \in OnCpu => Cur(v) # f
    BY DEF StateInv, OnCpu
<1>13. \A v \in Threads \ {w} : Spare(v) => cb_fiber[v] # f
    BY <1>4, NotSpare
<1>14. Spare(w)' => /\ Spare(w) /\ cb_fiber'[w] = cb_fiber[w] /\ cb_fiber[w] # f
                    /\ ft'[w].fiber # cb_fiber[w]
    BY <1>2, <1>5 DEF Spare, Leaving
<1> QED
    BY <1>1, <1>3, <1>4, <1>6, <1>9, <1>10, <1>11, <1>12, <1>13, <1>14

\* The task yields READY, or ends.
LEMMA LeavesInv ==
    ASSUME TypeInv, LocalInv, OneRef, StateInv, NEW w \in Threads, NEW f \in Fibers,
           NEW s \in States, Readies(w, f) \/ Finishes(w, f, s)
    PROVE  OneRef' /\ StateInv' /\ Effect(w, f) /\ Unreachable(f)'
<1>1. /\ pc[w] = "running" /\ Cur(w) = f /\ Moves(w, "swapout", ft[w], cb_fiber[w])
      /\ m_state'[f] \in {"READY"} \cup Ended /\ (\A h \in Fibers : h # f => m_state'[h] = m_state[h])
      /\ UNCHANGED <<m_fibers, waiting, given>>
    BY DEF Readies, Finishes, Turns
<1>2. "swapout" \in Leaving
    BY DEF Leaving
<1>3. /\ Frame(w) /\ Cur(w)' = f
      /\ \A h \in Fibers : (Has(w, h)' => Has(w, h)) /\ (Leaves(w, h)' <=> h = f)
      /\ (\A v \in Threads : ~Has(v, f)') /\ ~InQ(f) /\ f \notin waiting
      /\ ~(f \in UserFibers /\ given[f] <= 0)
      /\ \A v \in Threads \ {w} : pc[v] \in OnCpu => Cur(v) # f
      /\ \A v \in Threads \ {w} : Spare(v) => cb_fiber[v] # f
      /\ Spare(w)' => /\ Spare(w) /\ cb_fiber'[w] = cb_fiber[w] /\ cb_fiber[w] # f
                      /\ ft'[w].fiber # cb_fiber[w]
    BY <1>1, <1>2, DepartFacts
<1>4. QueueOnce' /\ \A h \in Fibers : InQ(h)' <=> InQ(h)
    BY <1>1, SameQueue DEF OneRef
<1>5. Effect(w, f)
    BY <1>1, <1>3, <1>4 DEF Effect, Keeps, Shrinks, Frame
<1>6. Unreachable(f)'
    BY <1>1, <1>3, <1>4 DEF Unreachable
<1>7. One(f)'
    BY <1>6 DEF One, Unreachable
<1>8. StateOf(f)'
    BY <1>1, <1>3, <1>6 DEF StateOf, Ended
<1>9. SpareState(w)'
    BY <1>3, <1>5, SpareKept
<1>10. ExecState(w)'
    BY <1>1 DEF ExecState, Moves
<1>11. \A v \in Threads \ {w} : pc[v] \in {"running", "parking"} => Cur(v) # f
    BY <1>3 DEF OnCpu
<1> QED
    BY <1>3, <1>4, <1>5, <1>6, <1>7, <1>8, <1>9, <1>10, <1>11, EffectFacts

\* The task waits for an event or a timer.
LEMMA RegistersInv ==
    ASSUME TypeInv, LocalInv, OneRef, StateInv, NEW w \in Threads, NEW f \in Fibers, Registers(w, f)
    PROVE  OneRef' /\ StateInv' /\ Effect(w, f)
<1>1. /\ pc[w] = "running" /\ Cur(w) = f /\ Moves(w, "parking", ft[w], cb_fiber[w])
      /\ waiting' = waiting \cup {f} /\ UNCHANGED <<m_fibers, m_state, given>>
    BY DEF Registers
<1>2. "parking" \in Leaving
    BY DEF Leaving
<1>3. /\ Frame(w) /\ Cur(w)' = f
      /\ \A h \in Fibers : (Has(w, h)' => Has(w, h)) /\ (Leaves(w, h)' <=> h = f)
      /\ (\A v \in Threads : ~Has(v, f)') /\ ~InQ(f) /\ f \notin waiting
      /\ m_state[f] = "EXEC" /\ ~(f \in UserFibers /\ given[f] <= 0)
      /\ \A v \in Threads \ {w} : pc[v] \in OnCpu => Cur(v) # f
      /\ \A v \in Threads \ {w} : Spare(v) => cb_fiber[v] # f
      /\ Spare(w)' => /\ Spare(w) /\ cb_fiber'[w] = cb_fiber[w] /\ cb_fiber[w] # f
                      /\ ft'[w].fiber # cb_fiber[w]
    BY <1>1, <1>2, DepartFacts
<1>4. QueueOnce' /\ \A h \in Fibers : InQ(h)' <=> InQ(h)
    BY <1>1, SameQueue DEF OneRef
<1>5. Effect(w, f)
    BY <1>1, <1>3, <1>4 DEF Effect, Keeps, Shrinks, Frame
<1>6. One(f)'
    BY <1>3, <1>4 DEF One
<1>7. StateOf(f)'
    BY <1>1, <1>3 DEF StateOf, Ended
<1>8. SpareState(w)'
    BY <1>3, <1>5, SpareKept
<1>9. ExecState(w)'
    BY <1>1, <1>3 DEF ExecState
<1>10. \A v \in Threads \ {w} : pc[v] \in {"running", "parking"} => Cur(v) # f
    BY <1>3 DEF OnCpu
<1> QED
    BY <1>3, <1>4, <1>5, <1>6, <1>7, <1>8, <1>9, <1>10, EffectFacts

\* It leaves the processor.
LEMMA ParksInv ==
    ASSUME TypeInv, LocalInv, OneRef, StateInv, NEW w \in Threads, NEW f \in Fibers, Parks(w, f)
    PROVE  OneRef' /\ StateInv' /\ Effect(w, f)
<1>1. /\ pc[w] = "parking" /\ Cur(w) = f /\ Moves(w, "swapout", ft[w], cb_fiber[w])
      /\ m_state'[f] = "HOLD" /\ (\A h \in Fibers : h # f => m_state'[h] = m_state[h])
      /\ UNCHANGED <<m_fibers, waiting, given>>
    BY DEF Parks, Turns
<1>2. Frame(w)
    BY <1>1, FrameFacts
<1>3. pc'[w] = "swapout" /\ ft'[w] = ft[w] /\ cb_fiber'[w] = cb_fiber[w]
    BY <1>1 DEF Moves
<1>4. \A h \in Fibers : (Has(w, h)' <=> Has(w, h)) /\ (Leaves(w, h)' <=> Leaves(w, h))
    BY <1>1, <1>3 DEF Has, Leaves, Leaving, Cur
<1>5. Leaves(w, f) /\ Cur(w)' = f
    BY <1>1, <1>3 DEF Leaves, Leaving, Cur
<1>6. QueueOnce' /\ \A h \in Fibers : InQ(h)' <=> InQ(h)
    BY <1>1, SameQueue DEF OneRef
<1>7. Effect(w, f)
    BY <1>1, <1>2, <1>4, <1>6 DEF Effect, Keeps, Shrinks, Frame
<1>8. \A v \in Threads : Has(v, f)' <=> Has(v, f)
    BY <1>2, <1>4 DEF Frame
<1>9. One(f)'
    BY <1>1, <1>6, <1>8 DEF OneRef, One
<1>10. ~(f \in UserFibers /\ given[f] <= 0)
    BY <1>5 DEF StateInv, StateOf, Unused
<1>11. StateOf(f)'
    BY <1>1, <1>10 DEF StateOf, Ended
<1>12. SpareState(w)'
  <2>1. Spare(w)' => Spare(w)
    BY <1>1, <1>3 DEF Spare, Leaving
  <2>2. Spare(w) => cb_fiber[w] # f /\ ft[w].fiber # cb_fiber[w]
    BY <1>5 DEF StateInv, SpareState
  <2> QED
    BY <1>3, <1>7, <2>1, <2>2, SpareKept
<1>13. ExecState(w)'
    BY <1>3 DEF ExecState
<1>14. \A v \in Threads \ {w} : pc[v] \in OnCpu => Cur(v) # f
    BY <1>1 DEF StateInv, OnCpu
<1>15. \A v \in Threads \ {w} : pc[v] \in {"running", "parking"} => Cur(v) # f
    BY <1>14 DEF OnCpu
<1>16. \A v \in Threads \ {w} : Spare(v) => cb_fiber[v] # f
    BY <1>5, NotSpare
<1> QED
    BY <1>5, <1>6, <1>7, <1>9, <1>11, <1>12, <1>13, <1>14, <1>15, <1>16, EffectFacts

\* A fiber is swapped in.
LEMMA SwapsInInv ==
    ASSUME TypeInv, LocalInv, OneRef, StateInv, NEW w \in Threads, NEW f \in Fibers,
           SwapsIn(w, f), fault' = "none"
    PROVE  OneRef' /\ StateInv' /\ Effect(w, f)
<1>1. /\ pc[w] = "dispatch" /\ ft[w].fiber = f /\ Moves(w, "running", ft[w], cb_fiber[w])
      /\ m_state'[f] = "EXEC" /\ (\A h \in Fibers : h # f => m_state'[h] = m_state[h])
      /\ \A v \in Threads \ {w} : pc[v] \in OnCpu => Cur(v) # f
      /\ UNCHANGED <<m_fibers, waiting, given>>
    BY DEF SwapsIn, Turns
<1>2. Frame(w)
    BY <1>1, FrameFacts
<1>3. /\ pc'[w] = "running" /\ ft'[w] = ft[w] /\ cb_fiber'[w] = cb_fiber[w]
      /\ None \notin Fibers
    BY <1>1, HasFacts DEF Moves
<1>4. \A h \in Fibers : (Has(w, h)' <=> Has(w, h)) /\ ~Leaves(w, h)'
    BY <1>1, <1>3 DEF Has, Leaves, Leaving
<1>5. Has(w, f) /\ Cur(w)' = f
    BY <1>1, <1>3 DEF Has, Leaving, Cur
<1>6. QueueOnce' /\ \A h \in Fibers : InQ(h)' <=> InQ(h)
    BY <1>1, SameQueue DEF OneRef
<1>7. Effect(w, f)
    BY <1>1, <1>2, <1>4, <1>6 DEF Effect, Keeps, Shrinks, Frame
<1>8. \A v \in Threads : Has(v, f)' <=> Has(v, f)
    BY <1>2, <1>4 DEF Frame
<1>9. One(f)'
    BY <1>1, <1>6, <1>8 DEF OneRef, One
<1>10. ~(f \in UserFibers /\ given[f] <= 0)
    BY <1>5, ReachableFacts DEF Unreachable
<1>11. StateOf(f)'
    BY <1>1, <1>10 DEF StateOf, Ended
<1>12. SpareState(w)'
  <2>1. Spare(w)' => Spare(w)
    BY <1>1, <1>3 DEF Spare, Leaving
  <2>2. Spare(w) => cb_fiber[w] # f /\ ft[w].fiber # cb_fiber[w]
    BY <1>1 DEF StateInv, SpareState
  <2> QED
    BY <1>3, <1>7, <2>1, <2>2, SpareKept
<1>13. ExecState(w)'
    BY <1>1, <1>5 DEF ExecState
<1>14. \A v \in Threads \ {w} : Spare(v) => cb_fiber[v] # f
    BY <1>5, NotSpare
<1> QED
    BY <1>1, <1>5, <1>6, <1>7, <1>9, <1>11, <1>12, <1>13, <1>14, EffectFacts

\* A worker that refers to a fiber other than the one it leaves.
LEMMA OnCpuFacts ==
    ASSUME TypeInv, LocalInv, NEW v \in Threads, pc[v] \in OnCpu
    PROVE  Cur(v) \in Fibers /\ (Has(v, Cur(v)) \/ Leaves(v, Cur(v)))
<1>1. pc[v] = "running" \/ pc[v] \in Leaving
    BY DEF OnCpu, Leaving
<1> QED
    BY <1>1, HasFacts

\* A callback begins.
LEMMA SwapsInCbInv ==
    ASSUME TypeInv, LocalInv, OneRef, StateInv, NEW w \in Threads, NEW c \in Tasks,
           NEW g \in PoolFibers, SwapsInCb(w, c, g)
    PROVE  OneRef' /\ StateInv' /\ Effect(w, g)
<1>1. /\ pc[w] = "dispatch" /\ ft[w].fiber = None /\ Moves(w, "running", NoEntry, g)
      /\ g = cb_fiber[w] \/ (cb_fiber[w] = None /\ m_state[g] = "FREE")
      /\ m_state'[g] = "EXEC" /\ (\A h \in Fibers : h # g => m_state'[h] = m_state[h])
      /\ UNCHANGED <<m_fibers, waiting, given>>
    BY DEF SwapsInCb, Turns
<1>2. Frame(w)
    BY <1>1, FrameFacts
<1>3. g \in Fibers /\ g \notin UserFibers /\ None \notin Fibers /\ g # None
    BY SchedulerConstants DEF Fibers
<1>4. pc'[w] = "running" /\ ft'[w].fiber = None /\ cb_fiber'[w] = g
    BY <1>1, EntryFacts DEF Moves
<1>5. \A h \in Fibers : (Has(w, h)' <=> h = g) /\ ~Leaves(w, h)'
    BY <1>3, <1>4 DEF Has, Leaves, Leaving
<1>6. Cur(w)' = g
    BY <1>4 DEF Cur
<1>7. QueueOnce' /\ \A h \in Fibers : InQ(h)' <=> InQ(h)
    BY <1>1, SameQueue DEF OneRef
<1>8. Effect(w, g)
    BY <1>1, <1>2, <1>5, <1>7 DEF Effect, Keeps, Shrinks, Frame
<1>9. /\ \A v \in Threads \ {w} : ~Has(v, g) /\ ~Leaves(v, g)
      /\ ~InQ(g) /\ g \notin waiting /\ (Has(w, g) \/ Unreachable(g))
  <2>1. CASE g = cb_fiber[w]
    <3>1. Spare(w)
        BY <1>1, <1>3, <2>1 DEF Spare, Leaving
    <3>2. Has(w, g) /\ One(g) /\ \A v \in Threads : ~Leaves(v, g)
        BY <1>3, <2>1, <3>1, HasFacts DEF StateInv, SpareState, OneRef
    <3> QED
        BY <3>2 DEF One
  <2>2. CASE m_state[g] = "FREE"
    BY <1>3, <2>2 DEF StateInv, StateOf, Unused, Unreachable
  <2> QED
    BY <1>1, <2>1, <2>2
<1>10. One(g)'
  <2>1. \A v \in Threads : Has(v, g)' => v = w
    BY <1>2, <1>3, <1>9 DEF Frame
  <2> QED
    BY <1>1, <1>3, <1>7, <1>9, <2>1 DEF One
<1>11. StateOf(g)'
    BY <1>1, <1>3 DEF StateOf, Ended
<1>12. SpareState(w)'
    BY <1>4 DEF SpareState, Spare
<1>13. ExecState(w)'
    BY <1>1, <1>6 DEF ExecState
<1>14. \A v \in Threads \ {w} : Spare(v) => cb_fiber[v] # g
    BY <1>3, <1>9, NotSpare
<1>15. \A v \in Threads \ {w} : pc[v] \in OnCpu => Cur(v) # g
    BY <1>9, OnCpuFacts
<1> QED
    BY <1>1, <1>3, <1>6, <1>7, <1>8, <1>10, <1>11, <1>12, <1>13, <1>14, <1>15, EffectFacts

\* A worker ends, and its spare fiber with it.
LEMMA ExitsInv ==
    ASSUME TypeInv, LocalInv, OneRef, StateInv, NEW w \in Threads, Exits(w)
    PROVE  OneRef' /\ StateInv' /\ Effect(w, cb_fiber[w])
<1>0. PICK f : f = cb_fiber[w]
    OBVIOUS
<1>1. /\ pc[w] = "dispatch" /\ ft[w] = NoEntry /\ Moves(w, "exit", NoEntry, None)
      /\ \A h \in Fibers : m_state'[h] = IF h = f THEN "FREE" ELSE m_state[h]
      /\ UNCHANGED <<m_fibers, waiting, given>>
    BY <1>0 DEF Exits
<1>2. Frame(w)
    BY <1>1, FrameFacts
<1>3. f \in PoolFibers \cup {None} /\ None \notin Fibers
    BY <1>0, CurFacts, HasFacts
<1>4. pc'[w] = "exit" /\ ft'[w].fiber = None /\ cb_fiber'[w] = None
    BY <1>1, EntryFacts DEF Moves
<1>5. \A h \in Fibers : ~Has(w, h)' /\ ~Leaves(w, h)'
    BY <1>3, <1>4 DEF Has, Leaves, Leaving
<1>6. QueueOnce' /\ \A h \in Fibers : InQ(h)' <=> InQ(h)
    BY <1>1, SameQueue DEF OneRef
<1>7. ASSUME f \in Fibers
      PROVE  /\ f \notin UserFibers /\ Has(w, f) /\ ~InQ(f) /\ f \notin waiting
             /\ \A v \in Threads : ~Leaves(v, f) /\ (v # w => ~Has(v, f))
  <2>1. Spare(w)
    BY <1>0, <1>1, <1>3, <1>7 DEF Spare, Leaving
  <2>2. Has(w, f) /\ One(f) /\ \A v \in Threads : ~Leaves(v, f)
    BY <1>0, <1>7, <2>1, HasFacts DEF StateInv, SpareState, OneRef
  <2>3. f \notin UserFibers
    BY <1>3, <1>7, SchedulerConstants
  <2> QED
    BY <2>2, <2>3 DEF One
<1>8. Effect(w, f)
    BY <1>1, <1>2, <1>5, <1>6 DEF Effect, Keeps, Shrinks, Frame
<1>9. ASSUME f \in Fibers PROVE One(f)' /\ StateOf(f)'
  <2>1. Unused(f)'
    BY <1>1, <1>2, <1>5, <1>6, <1>7, <1>9 DEF Unused, Unreachable, Frame
  <2>2. One(f)'
    BY <2>1 DEF Unused, Unreachable, One
  <2>3. m_state'[f] = "FREE" /\ f \notin UserFibers
    BY <1>1, <1>7, <1>9
  <2>4. StateOf(f)'
    BY <2>1, <2>3 DEF StateOf, Ended
  <2> QED
    BY <2>2, <2>4
<1>10. SpareState(w)' /\ ExecState(w)' /\ pc'[w] \notin OnCpu
    BY <1>4 DEF SpareState, Spare, ExecState, OnCpu
<1>11. \A v \in Threads \ {w} : Spare(v) => cb_fiber[v] # f
  <2>1. CASE f \in Fibers
    BY <1>7, <2>1, NotSpare
  <2>2. CASE f = None
    BY <2>2 DEF Spare
  <2> QED
    BY <1>3, <2>1, <2>2 DEF Fibers
<1>12. \A v \in Threads \ {w} : pc[v] \in {"running", "parking"} => Cur(v) # f
  <2>1. \A v \in Threads : pc[v] \in {"running", "parking"} => pc[v] \in OnCpu
    BY DEF OnCpu
  <2> QED
    BY <1>7, <2>1, OnCpuFacts
<1>17. OneRef' /\ StateInv'
    BY <1>6, <1>8, <1>9, <1>10, <1>11, <1>12, EffectFacts
<1> QED
    BY <1>0, <1>8, <1>17

\* A worker forgets the fiber it has left.
LEMMA ForgetFacts ==
    ASSUME TypeInv, LocalInv, OneRef, StateInv, NEW w \in Threads, NEW f \in Fibers,
           NEW g \in PoolFibers \cup {None}, pc[w] = "settle", Cur(w) = f, Moves(w, "pick", NoEntry, g)
    PROVE  /\ Frame(w) /\ pc'[w] = "pick" /\ ft'[w].fiber = None /\ cb_fiber'[w] = g
           /\ Leaves(w, f) /\ (\A h \in Fibers : ~Leaves(w, h)' /\ (Has(w, h)' <=> h = g))
           /\ ~(f \in UserFibers /\ given[f] <= 0)
           /\ ~Contended(w, f) => \A v \in Threads \ {w} : ~Leaves(v, f) /\ ~Leaves(v, f)'
           /\ \A v \in Threads \ {w} : Spare(v) => cb_fiber[v] # f
           /\ Spare(w) => Has(w, cb_fiber[w]) /\ cb_fiber[w] # f /\ cb_fiber[w] # None
           /\ ft[w].fiber # None /\ cb_fiber[w] # None => Spare(w)
           /\ ExecState(w)' /\ pc'[w] \notin OnCpu
<1>1. Frame(w) /\ None \notin Fibers
    BY FrameFacts, HasFacts
<1>2. pc'[w] = "pick" /\ ft'[w].fiber = None /\ cb_fiber'[w] = g
    BY EntryFacts DEF Moves
<1>3. Leaves(w, f)
    BY DEF Leaves, Leaving
<1>4. \A h \in Fibers : ~Leaves(w, h)' /\ (Has(w, h)' <=> h = g)
    BY <1>1, <1>2 DEF Leaves, Has, Leaving
<1>5. ~(f \in UserFibers /\ given[f] <= 0)
    BY <1>3 DEF StateInv, StateOf, Unused
<1>6. ASSUME ~Contended(w, f), NEW v \in Threads \ {w} PROVE ~Leaves(v, f) /\ ~Leaves(v, f)'
  <2>1. Leaving \subseteq HasFiber
    BY DEF Leaving, HasFiber, OnCpu
  <2>2. ~Leaves(v, f)
    BY <1>6, <2>1 DEF Contended, Leaves
  <2> QED
    BY <1>1, <1>6, <2>2 DEF Frame
<1>7. \A v \in Threads \ {w} : Spare(v) => cb_fiber[v] # f
    BY <1>3, NotSpare
<1>8. Spare(w) => Has(w, cb_fiber[w]) /\ cb_fiber[w] # f /\ cb_fiber[w] # None
    BY <1>1, <1>3, HasFacts DEF StateInv, SpareState
<1>9. ft[w].fiber # None /\ cb_fiber[w] # None => Spare(w)
    BY DEF Spare
<1>10. ExecState(w)' /\ pc'[w] \notin OnCpu
    BY <1>2 DEF ExecState, OnCpu
<1> QED
    BY <1>1, <1>2, <1>3, <1>4, <1>5, <1>6, <1>7, <1>8, <1>9, <1>10

\* A READY fiber is scheduled again.
LEMMA SettlesReadyInv ==
    ASSUME TypeInv, LocalInv, OneRef, StateInv, NEW w \in Threads, NEW f \in Fibers,
           SettlesReady(w, f), fault' = "none"
    PROVE  OneRef' /\ StateInv' /\ Effect(w, f)
<1>1. PICK g \in PoolFibers \cup {None} :
        /\ g = IF ft[w].fiber = None THEN None ELSE cb_fiber[w]
        /\ Moves(w, "pick", NoEntry, g)
    BY DEF SettlesReady
<1>2. /\ pc[w] = "settle" /\ Cur(w) = f /\ m_state[f] = "READY"
      /\ Adds(Entry(f, job[f], None)) /\ ~Contended(w, f) /\ UNCHANGED <<m_state, waiting, given>>
    BY DEF SettlesReady
<1>3. /\ Frame(w) /\ pc'[w] = "pick" /\ ft'[w].fiber = None /\ cb_fiber'[w] = g
      /\ Leaves(w, f) /\ (\A h \in Fibers : ~Leaves(w, h)' /\ (Has(w, h)' <=> h = g))
      /\ ~(f \in UserFibers /\ given[f] <= 0)
      /\ \A v \in Threads \ {w} : ~Leaves(v, f) /\ ~Leaves(v, f)'
      /\ \A v \in Threads \ {w} : Spare(v) => cb_fiber[v] # f
      /\ Spare(w) => Has(w, cb_fiber[w]) /\ cb_fiber[w] # f /\ cb_fiber[w] # None
      /\ ft[w].fiber # None /\ cb_fiber[w] # None => Spare(w)
      /\ ExecState(w)' /\ pc'[w] \notin OnCpu
    BY <1>1, <1>2, ForgetFacts
<1>4. Unreachable(f) /\ None \notin Fibers
    BY <1>2, <1>3, HasFacts DEF StateInv, StateOf
<1>5. Entry(f, job[f], None).fiber = f
    BY DEF Entry
<1>6. QueueOnce' /\ \A h \in Fibers : InQ(h)' <=> InQ(h) \/ h = f
  <2> DEFINE e == Entry(f, job[f], None)
  <2>1. e.fiber = f /\ Adds(e)
    BY <1>2, <1>5
  <2> HIDE DEF e
  <2>2. QueueOnce'
    BY <1>4, <2>1 DEF Adds, OneRef, Unreachable
  <2> QED
    BY <2>1, <2>2 DEF Adds, InQ
<1>7. g # None => Spare(w) /\ g = cb_fiber[w] /\ g # f
    BY <1>1, <1>3
<1>8. \A h \in Fibers : Has(w, h)' => Has(w, h)
    BY <1>3, <1>4, <1>7
<1>9. Effect(w, f)
    BY <1>2, <1>3, <1>6, <1>8 DEF Effect, Keeps, Shrinks, Frame
<1>10. One(f)'
  <2>1. \A v \in Threads : ~Has(v, f)'
    BY <1>3, <1>4, <1>8 DEF Frame, Unreachable
  <2> QED
    BY <1>2, <1>4, <2>1 DEF One, Unreachable
<1>11. StateOf(f)'
    BY <1>2, <1>3 DEF StateOf, Ended
<1>12. SpareState(w)'
  <2>1. Spare(w)' => g # None
    BY <1>3 DEF Spare
  <2> QED
    BY <1>3, <1>7, <1>9, <2>1, SpareKept
<1>13. ASSUME NEW v \in Threads \ {w}, pc[v] \in {"running", "parking"}, Cur(v) = f
       PROVE  m_state'[f] = "EXEC"
    BY <1>2, <1>13 DEF StateInv, ExecState
<1> QED
    BY <1>3, <1>6, <1>9, <1>10, <1>11, <1>12, <1>13, EffectFacts

\* A fiber that waits is left alone.
LEMMA SettlesHeldInv ==
    ASSUME TypeInv, LocalInv, OneRef, StateInv, NEW w \in Threads, NEW f \in Fibers,
           SettlesHeld(w, f), fault' = "none"
    PROVE  OneRef' /\ StateInv' /\ Effect(w, f)
<1>1. PICK g \in PoolFibers \cup {None} :
        /\ g = IF ft[w].fiber = None THEN None ELSE cb_fiber[w]
        /\ Moves(w, "pick", NoEntry, g)
    BY DEF SettlesHeld
<1>2. /\ pc[w] = "settle" /\ Cur(w) = f /\ m_state'[f] = "HOLD" /\ ~Contended(w, f)
      /\ (\A h \in Fibers : h # f => m_state'[h] = m_state[h])
      /\ UNCHANGED <<m_fibers, waiting, given>>
    BY DEF SettlesHeld, Turns
<1>3. /\ Frame(w) /\ pc'[w] = "pick" /\ ft'[w].fiber = None /\ cb_fiber'[w] = g
      /\ Leaves(w, f) /\ (\A h \in Fibers : ~Leaves(w, h)' /\ (Has(w, h)' <=> h = g))
      /\ ~(f \in UserFibers /\ given[f] <= 0)
      /\ \A v \in Threads \ {w} : ~Leaves(v, f) /\ ~Leaves(v, f)'
      /\ \A v \in Threads \ {w} : Spare(v) => cb_fiber[v] # f
      /\ Spare(w) => Has(w, cb_fiber[w]) /\ cb_fiber[w] # f /\ cb_fiber[w] # None
      /\ ft[w].fiber # None /\ cb_fiber[w] # None => Spare(w)
      /\ ExecState(w)' /\ pc'[w] \notin OnCpu
    BY <1>1, <1>2, ForgetFacts
<1>4. None \notin Fibers
    BY HasFacts
<1>6. QueueOnce' /\ \A h \in Fibers : InQ(h)' <=> InQ(h)
    BY <1>2, SameQueue DEF OneRef
<1>7. g # None => Spare(w) /\ g = cb_fiber[w] /\ g # f
    BY <1>1, <1>3
<1>8. \A h \in Fibers : Has(w, h)' => Has(w, h)
    BY <1>3, <1>4, <1>7
<1>9. Effect(w, f)
    BY <1>2, <1>3, <1>6, <1>8 DEF Effect, Keeps, Shrinks, Frame
<1>10. One(f)'
  <2>1. \A v \in Threads : Has(v, f)' => Has(v, f)
    BY <1>3, <1>8 DEF Frame
  <2> QED
    BY <1>2, <1>6, <2>1 DEF One, OneRef
<1>11. StateOf(f)'
    BY <1>2, <1>3 DEF StateOf, Ended
<1>12. SpareState(w)'
  <2>1. Spare(w)' => g # None
    BY <1>3 DEF Spare
  <2> QED
    BY <1>3, <1>7, <1>9, <2>1, SpareKept
<1>13. \A v \in Threads \ {w} : pc[v] \in {"running", "parking"} => Cur(v) # f
    BY <1>2 DEF Contended, HasFiber, OnCpu
<1> QED
    BY <1>3, <1>6, <1>9, <1>10, <1>11, <1>12, <1>13, EffectFacts

\* An ended fiber is kept for the next callback, or released.
LEMMA SettlesEndedInv ==
    ASSUME TypeInv, LocalInv, OneRef, StateInv, NEW w \in Threads, NEW f \in Fibers,
           NEW s \in States, NEW c \in Tasks \cup {None}, SettlesEnded(w, f, s, c), fault' = "none"
    PROVE  OneRef' /\ StateInv' /\ Effect(w, f)
<1> DEFINE g == cb_fiber[w]
<1>1. g \in PoolFibers \cup {None}
    BY CurFacts
<1>2. /\ pc[w] = "settle" /\ Cur(w) = f /\ m_state[f] \in Ended /\ m_state'[f] = s
      /\ ~Contended(w, f) /\ Moves(w, "pick", NoEntry, g)
      /\ IF ft[w].fiber = None THEN s = "INIT"
         ELSE IF f \in PoolFibers THEN s = "FREE" ELSE s = m_state[f]
      /\ (\A h \in Fibers : h # f => m_state'[h] = m_state[h])
      /\ UNCHANGED <<m_fibers, waiting, given>>
    BY DEF SettlesEnded, Turns
<1>3. /\ Frame(w) /\ pc'[w] = "pick" /\ ft'[w].fiber = None /\ cb_fiber'[w] = g
      /\ Leaves(w, f) /\ (\A h \in Fibers : ~Leaves(w, h)' /\ (Has(w, h)' <=> h = g))
      /\ ~(f \in UserFibers /\ given[f] <= 0)
      /\ \A v \in Threads \ {w} : ~Leaves(v, f) /\ ~Leaves(v, f)'
      /\ \A v \in Threads \ {w} : Spare(v) => cb_fiber[v] # f
      /\ Spare(w) => Has(w, cb_fiber[w]) /\ cb_fiber[w] # f /\ cb_fiber[w] # None
      /\ ft[w].fiber # None /\ cb_fiber[w] # None => Spare(w)
      /\ ExecState(w)' /\ pc'[w] \notin OnCpu
    BY <1>1, <1>2, ForgetFacts
<1>4. None \notin Fibers /\ Unreachable(f)
    BY <1>2, HasFacts DEF StateInv, StateOf
<1>5. IF ft[w].fiber = None THEN g = f ELSE (g # None => Spare(w) /\ g # f)
    BY <1>2, <1>3 DEF Cur
<1>6. QueueOnce' /\ \A h \in Fibers : InQ(h)' <=> InQ(h)
    BY <1>2, SameQueue DEF OneRef
<1> HIDE DEF g
<1>7. \A h \in Fibers : h # f /\ Has(w, h)' => Has(w, h)
    BY <1>3, <1>4, <1>5 DEF g
<1>8. Effect(w, f)
    BY <1>2, <1>3, <1>6, <1>7 DEF Effect, Keeps, Shrinks, Frame
<1>9. \A v \in Threads \ {w} : ~Has(v, f)'
    BY <1>3, <1>4 DEF Frame, Unreachable
<1>10. One(f)'
    BY <1>2, <1>4, <1>6, <1>9 DEF One, Unreachable
<1>11. \A v \in Threads : ~Leaves(v, f)'
    BY <1>3
<1>12. StateOf(f)'
  <2>1. CASE ft[w].fiber = None
    BY <1>2, <1>3, <2>1 DEF StateOf, Ended
  <2>2. CASE ft[w].fiber # None
    <3>1. Unreachable(f)' /\ Unused(f)'
        BY <1>2, <1>3, <1>4, <1>5, <1>6, <1>9, <1>11, <2>2 DEF Unreachable, Unused
    <3> QED
        BY <1>2, <1>3, <3>1 DEF StateOf
  <2> QED
    BY <2>1, <2>2
<1>13. SpareState(w)'
  <2>1. CASE ft[w].fiber = None
    <3>1. cb_fiber'[w] = f /\ m_state'[f] = "INIT" /\ ft'[w].fiber # f
        BY <1>2, <1>3, <1>4, <1>5, <2>1
    <3>2. \A v \in Threads : ~Leaves(v, cb_fiber[w])'
        BY <1>11, <3>1 DEF Leaves
    <3> QED
        BY <3>1, <3>2 DEF SpareState
  <2>2. CASE ft[w].fiber # None
    <3>1. Spare(w)' => g # None
        BY <1>3 DEF Spare
    <3> QED
        BY <1>3, <1>5, <1>8, <2>2, <3>1, SpareKept DEF g
  <2> QED
    BY <2>1, <2>2
<1>14. \A v \in Threads \ {w} : pc[v] \in {"running", "parking"} => Cur(v) # f
    BY <1>2 DEF Contended, HasFiber, OnCpu
<1> QED
    BY <1>3, <1>6, <1>8, <1>10, <1>12, <1>13, <1>14, EffectFacts

\* An event or timer is taken.
LEMMA WakeTakesInv ==
    ASSUME TypeInv, LocalInv, OneRef, StateInv, NEW w \in Threads, NEW f \in Fibers, WakeTakes(w, f)
    PROVE  OneRef' /\ StateInv' /\ Effect(w, f)
<1>1. /\ pc[w] = "epoll" /\ f \in waiting /\ waiting' = waiting \ {f}
      /\ Moves(w, "wake", Entry(f, job[f], None), cb_fiber[w])
      /\ UNCHANGED <<m_fibers, m_state, given>>
    BY DEF WakeTakes
<1>2. ft[w].fiber = None /\ None \notin Fibers
    BY <1>1, EntryFacts, HasFacts DEF LocalInv, Resting
<1>3. Frame(w)
    BY <1>1, FrameFacts
<1>4. pc'[w] = "wake" /\ ft'[w].fiber = f /\ cb_fiber'[w] = cb_fiber[w]
    BY <1>1 DEF Moves, Entry
<1>5. \A h \in Fibers : /\ Has(w, h)' <=> Has(w, h) \/ h = f
                        /\ ~Leaves(w, h)' /\ ~Leaves(w, h)
    BY <1>1, <1>2, <1>4 DEF Has, Leaves, Leaving
<1>6. QueueOnce' /\ \A h \in Fibers : InQ(h)' <=> InQ(h)
    BY <1>1, SameQueue DEF OneRef
<1>7. Effect(w, f)
    BY <1>1, <1>3, <1>5, <1>6 DEF Effect, Keeps, Shrinks, Frame
<1>8. ~InQ(f) /\ ~Unreachable(f) /\ \A v \in Threads : ~Has(v, f)
    BY <1>1 DEF OneRef, One, Unreachable
<1>9. One(f)'
  <2>1. \A v \in Threads : Has(v, f)' => v = w
    BY <1>3, <1>8 DEF Frame
  <2> QED
    BY <1>1, <1>6, <1>8, <2>1 DEF One
<1>10. StateOf(f)'
  <2>1. /\ m_state[f] \notin {"FREE"} \cup Ended /\ ~(f \in UserFibers /\ given[f] <= 0)
        /\ m_state[f] = "READY" => \A v \in Threads : ~Leaves(v, f)
    BY <1>8, ReachableFacts
  <2>2. \A v \in Threads : Leaves(v, f)' => Leaves(v, f)
    BY <1>3, <1>5 DEF Frame
  <2> QED
    BY <1>1, <2>1, <2>2 DEF StateOf
<1>11. \A v \in Threads \ {w} : Spare(v) => cb_fiber[v] # f
    BY <1>1, NotSpare
<1>12. SpareState(w)'
  <2>1. Spare(w)' => Spare(w)
    BY <1>1, <1>4 DEF Spare, Leaving
  <2>2. Spare(w) => cb_fiber[w] # f
    BY <1>8, HasFacts
  <2> QED
    BY <1>4, <1>7, <2>1, <2>2, SpareKept
<1>13. ExecState(w)' /\ pc'[w] \notin OnCpu
    BY <1>4 DEF ExecState, OnCpu
<1>14. ASSUME NEW v \in Threads \ {w}, pc[v] \in {"running", "parking"}, Cur(v) = f
       PROVE  m_state'[f] = "EXEC"
    BY <1>1, <1>14 DEF StateInv, ExecState
<1> QED
    BY <1>6, <1>7, <1>9, <1>10, <1>11, <1>12, <1>13, <1>14, EffectFacts

\* Its fiber is scheduled.
LEMMA WakeAddsInv ==
    ASSUME TypeInv, LocalInv, OneRef, StateInv, NEW w \in Threads, WakeAdds(w)
    PROVE  OneRef' /\ StateInv' /\ Effect(w, ft[w].fiber)
<1>1. /\ pc[w] = "wake" /\ Adds(ft[w]) /\ Moves(w, "epoll", NoEntry, cb_fiber[w])
      /\ UNCHANGED <<m_state, waiting, given>>
    BY DEF WakeAdds
<1>2. ft[w].fiber \in Fibers /\ None \notin Fibers
    BY <1>1, CurFacts, HasFacts DEF LocalInv
<1>3. PICK f \in Fibers : f = ft[w].fiber
    BY <1>2
<1>4. pc'[w] = "epoll" /\ ft'[w].fiber = None /\ cb_fiber'[w] = cb_fiber[w] /\ Frame(w)
    BY <1>1, EntryFacts, FrameFacts DEF Moves
<1>5. Has(w, f) /\ One(f) /\ (Spare(w) => cb_fiber[w] # f)
    BY <1>1, <1>2, <1>3 DEF Has, Leaving, OneRef, StateInv, SpareState
<1>6. Spare(w) <=> cb_fiber[w] # None
    BY <1>1 DEF Spare, Leaving
<1>7. \A h \in Fibers : /\ Has(w, h)' => Has(w, h) /\ h # f
                        /\ ~Leaves(w, h)' /\ ~Leaves(w, h)
    BY <1>1, <1>2, <1>4, <1>5, <1>6 DEF Has, Leaves, Leaving
<1>8. QueueOnce' /\ \A h \in Fibers : InQ(h)' <=> InQ(h) \/ h = f
  <2>1. PICK e : e = ft[w]
    OBVIOUS
  <2>2. e.fiber = f /\ Adds(e) /\ ~InQ(f)
    BY <1>1, <1>3, <1>5, <2>1 DEF One
  <2>3. QueueOnce'
    BY <2>2 DEF Adds, OneRef
  <2> QED
    BY <2>2, <2>3 DEF Adds, InQ
<1>9. Effect(w, f)
    BY <1>1, <1>4, <1>7, <1>8 DEF Effect, Keeps, Shrinks, Frame
<1>10. One(f)'
  <2>1. \A v \in Threads : ~Has(v, f)'
    BY <1>4, <1>5, <1>7 DEF Frame, One
  <2> QED
    BY <1>1, <1>5, <2>1 DEF One
<1>11. StateOf(f)'
  <2>1. /\ m_state[f] \notin {"FREE"} \cup Ended /\ ~(f \in UserFibers /\ given[f] <= 0)
        /\ m_state[f] = "READY" => \A v \in Threads : ~Leaves(v, f)
    BY <1>5, ReachableFacts DEF Unreachable
  <2>2. \A v \in Threads : Leaves(v, f)' => Leaves(v, f)
    BY <1>4, <1>7 DEF Frame
  <2> QED
    BY <1>1, <2>1, <2>2 DEF StateOf
<1>12. \A v \in Threads \ {w} : Spare(v) => cb_fiber[v] # f
    BY <1>5, NotSpare
<1>13. SpareState(w)'
  <2>1. Spare(w)' => Spare(w)
    BY <1>4, <1>6 DEF Spare
  <2>2. Spare(w) => cb_fiber[w] # None
    BY <1>6
  <2> QED
    BY <1>4, <1>5, <1>9, <2>1, <2>2, SpareKept
<1>14. ExecState(w)' /\ pc'[w] \notin OnCpu
    BY <1>4 DEF ExecState, OnCpu
<1>15. ASSUME NEW v \in Threads \ {w}, pc[v] \in {"running", "parking"}, Cur(v) = f
       PROVE  m_state'[f] = "EXEC"
    BY <1>1, <1>15 DEF StateInv, ExecState
<1>17. OneRef' /\ StateInv'
    BY <1>8, <1>9, <1>10, <1>11, <1>12, <1>13, <1>14, <1>15, EffectFacts
<1> QED
    BY <1>3, <1>9, <1>17

\* schedule(), when a Fiber object is given to it once.
LEMMA SubmitsInv ==
    ASSUME TypeInv, LocalInv, OneRef, StateInv, MaxSchedule <= 1, NEW t \in Tasks,
           NEW p \in Threads \cup {None}, Submits(t, p)
    PROVE  OneRef' /\ StateInv' /\ \E w \in Threads : Effect(w, IF t \in Cbs THEN None ELSE t)
<1>1. PICK f : f = IF t \in Cbs THEN None ELSE t
    OBVIOUS
<1>2. PICK w : w \in Threads
    BY SchedulerConstants
<1>3. /\ Adds(Entry(f, t, p)) /\ (t \in UserFibers => given[t] < MaxSchedule)
      /\ given'[t] = given[t] + 1 /\ (\A u \in Tasks : u # t => given'[u] = given[u])
      /\ UNCHANGED <<m_state, job, pc, ft, cb_fiber, waiting>>
    BY <1>1 DEF Submits
<1>4. None \notin Fibers /\ (f \in Fibers => f = t /\ t \in UserFibers) /\ UserFibers \subseteq Tasks
    BY <1>1, <1>2, HasFacts DEF Tasks
<1>5. f = None \/ f \in Fibers
    BY <1>1 DEF Tasks, Fibers
<1>6. ASSUME f \in Fibers PROVE m_state[f] = "INIT" /\ Unused(f) /\ given'[f] = 1
  <2>1. given[t] \in Nat /\ MaxSchedule \in Nat
    BY SchedulerConstants DEF TypeInv
  <2>2. given[t] = 0
    BY <1>3, <1>4, <1>6, <2>1
  <2> QED
    BY <1>3, <1>4, <1>6, <2>2 DEF StateInv, StateOf
<1>7. QueueOnce' /\ \A h \in Fibers : InQ(h)' <=> InQ(h) \/ h = f
  <2>1. PICK e : e = Entry(f, t, p)
    OBVIOUS
  <2>2. e.fiber = f /\ Adds(e)
    BY <1>3, <2>1 DEF Entry
  <2>3. e.fiber # None => ~InQ(e.fiber)
    BY <1>5, <1>6, <2>2 DEF Unused, Unreachable
  <2>4. QueueOnce'
    BY <2>2, <2>3 DEF Adds, OneRef
  <2> QED
    BY <2>2, <2>4 DEF Adds, InQ
<1>8. \A h \in Fibers, v \in Threads : (Has(v, h)' <=> Has(v, h)) /\ (Leaves(v, h)' <=> Leaves(v, h))
    BY <1>3 DEF Has, Leaves, Cur
<1>9. \A h \in UserFibers : h # f => given'[h] = given[h]
    BY <1>1, <1>3, <1>4, SchedulerConstants
<1>10. Effect(w, f)
    BY <1>3, <1>7, <1>8, <1>9 DEF Effect, Keeps, Shrinks
<1>11. ASSUME f \in Fibers PROVE One(f)' /\ StateOf(f)'
  <2>1. f \notin waiting /\ \A v \in Threads : ~Has(v, f)
    BY <1>6, <1>11 DEF Unused, Unreachable
  <2>2. One(f)'
    BY <1>3, <1>8, <1>11, <2>1 DEF One
  <2>3. StateOf(f)'
    BY <1>3, <1>6, <1>11 DEF StateOf, Ended
  <2> QED
    BY <2>2, <2>3
<1>12. \A v \in Threads \ {w} : Spare(v) => cb_fiber[v] # f
  <2>1. CASE f = None
    BY <2>1 DEF Spare
  <2>2. CASE f \in Fibers
    BY <1>2, <1>6, <2>2, NotSpare DEF Unused
  <2> QED
    BY <1>5, <2>1, <2>2
<1>13. SpareState(w)'
    BY <1>2, <1>3, <1>8 DEF StateInv, SpareState, Spare, Leaves, Cur
<1>14. ExecState(w)'
    BY <1>2, <1>3 DEF StateInv, ExecState, Cur
<1>15. ASSUME NEW v \in Threads \ {w}, pc[v] \in {"running", "parking"}, Cur(v) = f
       PROVE  m_state'[f] = "EXEC"
    BY <1>3, <1>15 DEF StateInv, ExecState
<1>16. pc'[w] \in OnCpu => \A v \in Threads \ {w} : pc[v] \in OnCpu => Cur(v) # Cur(w)'
    BY <1>2, <1>3 DEF StateInv, Cur
<1>17. OneRef' /\ StateInv'
    BY <1>2, <1>7, <1>10, <1>11, <1>12, <1>13, <1>14, <1>15, <1>16, EffectFacts
<1> QED
    BY <1>1, <1>2, <1>10, <1>17

\* Steps that move no fiber.
LEMMA QuietInv ==
    ASSUME TypeInv, LocalInv, OneRef, StateInv, Quiet PROVE OneRef' /\ StateInv'
<1>1. UNCHANGED <<m_fibers, m_state, ft, cb_fiber, waiting, given>>
    BY DEF Quiet
<1>2. ASSUME NEW w \in Threads
      PROVE  /\ pc'[w] \in Leaving <=> pc[w] \in Leaving
             /\ pc'[w] = "running" <=> pc[w] = "running"
             /\ pc'[w] \in {"running", "parking"} <=> pc[w] \in {"running", "parking"}
             /\ pc'[w] \in OnCpu => pc[w] \in OnCpu
    BY <1>2 DEF Quiet, Leaving, Resting, OnCpu
<1>3. \A w \in Threads : Cur(w)' = Cur(w)
    BY <1>1 DEF Cur
<1>4. QueueOnce' /\ \A h \in Fibers : InQ(h)' <=> InQ(h)
    BY <1>1, SameQueue DEF OneRef
<1>5. \A h \in Fibers, w \in Threads : Has(w, h)' <=> Has(w, h)
    BY <1>1, <1>2 DEF Has
<1>6. ASSUME NEW h, NEW w \in Threads PROVE Leaves(w, h)' <=> Leaves(w, h)
    BY <1>2, <1>3 DEF Leaves
<1>7. ASSUME NEW h \in Fibers PROVE One(h)' /\ StateOf(h)'
  <2>1. One(h) /\ StateOf(h)
    BY DEF OneRef, StateInv
  <2>2. One(h)'
    BY <1>1, <1>4, <1>5, <2>1 DEF One
  <2>3. (Unreachable(h)' <=> Unreachable(h)) /\ (Unused(h)' <=> Unused(h))
    BY <1>1, <1>4, <1>5, <1>6 DEF Unreachable, Unused
  <2> QED
    BY <1>1, <1>6, <2>1, <2>2, <2>3 DEF StateOf
<1>8. ASSUME NEW w \in Threads PROVE SpareState(w)' /\ ExecState(w)'
  <2>1. Spare(w)' <=> Spare(w)
    BY <1>1, <1>2 DEF Spare
  <2>2. \A v \in Threads : Leaves(v, cb_fiber[w])' <=> Leaves(v, cb_fiber[w])
    BY <1>1, <1>2, <1>3 DEF Leaves
  <2>3. SpareState(w)'
    BY <1>1, <2>1, <2>2 DEF StateInv, SpareState
  <2> QED
    BY <1>1, <1>2, <1>3, <2>3 DEF StateInv, ExecState
<1>9. OneRef'
    BY <1>4, <1>7 DEF OneRef
<1>10. \A v, w \in Threads : v # w /\ pc'[v] \in OnCpu /\ pc'[w] \in OnCpu => Cur(v)' # Cur(w)'
    BY <1>2, <1>3 DEF StateInv
<1>11. StateInv'
    BY <1>7, <1>8, <1>10 DEF StateInv
<1> QED
    BY <1>9, <1>11

\* All steps.
LEMMA NextOneRef ==
    ASSUME TypeInv, LocalInv, OneRef, StateInv, MaxSchedule <= 1, AnyStep, fault' = "none"
    PROVE  OneRef' /\ StateInv'
<1>1. ASSUME NEW w \in Threads, WorkerStep(w) PROVE OneRef' /\ StateInv'
    BY <1>1, StepFacts, PicksInv, SwapsInInv, LeavesInv, RegistersInv, ParksInv, SettlesReadyInv, SettlesHeldInv,
       WakeTakesInv, SettlesEndedInv, SwapsInCbInv, ExitsInv, WakeAddsInv DEF WorkerStep
<1> QED
    BY <1>1, QuietInv, SubmitsInv DEF AnyStep, Fails

-----------------------------------------------------------------------------
(* Where fibers are. *)

\* Worker v refers to f.
Refers(v, f) ==
    /\ f # None
    /\ ft[v].fiber = f \/ (pc[v] \in Leaving \cup {"running"} /\ Cur(v) = f)

\* A step of w that only takes fiber f from its place.
Stays(w, f) ==
    /\ \A h \in Fibers \ {f} : /\ m_state'[h] = m_state[h] /\ job'[h] = job[h]
                               /\ InQ(h) => InQ(h)'
                               /\ h \in waiting <=> h \in waiting'
    /\ w \in Threads => /\ pc[w] \in {"dispatch", "wake"} => ft[w].fiber \in {f, None}
                        /\ pc[w] \in {"running", "parking"} => Cur(w) = f
    /\ done \subseteq done'

\* Who refers to f could run it or leaves it.
LEMMA RefersFacts ==
    ASSUME TypeInv, LocalInv, NEW v \in Threads, NEW f \in Fibers, Refers(v, f)
    PROVE  Has(v, f) \/ Leaves(v, f)
<1>1. CASE pc[v] \in Leaving
    BY <1>1, HasFacts DEF Refers, Leaves, Cur
<1>2. CASE pc[v] \notin Leaving
    BY <1>2, HasFacts DEF Refers
<1> QED
    BY <1>1, <1>2

\* A fiber that is to run again stays where it is.
LEMMA AwaitedFacts ==
    ASSUME NEW w, NEW h, NEW f, h # f \/ (w \in Threads => pc[w] \notin {"dispatch", "wake"}), h # None,
           w \in Threads /\ pc[w] \in {"dispatch", "wake"} => ft[w].fiber \in {f, None},
           InQ(h) => InQ(h)', h \in waiting => h \in waiting', Awaited(h),
           \A v \in Threads \ {w} : pc'[v] = pc[v] /\ ft'[v] = ft[v]
    PROVE  Awaited(h)'
<1>1. CASE InQ(h) \/ h \in waiting
    BY <1>1 DEF Awaited
<1>2. ASSUME NEW v \in Threads, pc[v] \in {"dispatch", "wake"}, ft[v].fiber = h PROVE Awaited(h)'
  <2>1. v # w
    BY <1>2
  <2> QED
    BY <1>2, <2>1 DEF Awaited
<1> QED
    BY <1>1, <1>2 DEF Awaited

\* What is left to show of a step.
LEMMA PlaceFacts ==
    ASSUME TypeInv, LocalInv, PlaceInv, NEW w, NEW f, Frame(w), Stays(w, f),
           f \in Fibers => FiberPlace(f)', w \in Threads => WorkerPlace(w)',
           \A v \in Threads \ {w} : Refers(v, f) => WorkerPlace(v)', QueuePlace'
    PROVE  PlaceInv'
<1>0. None \notin Fibers
    BY SchedulerConstants DEF Fibers
<1>1. \A v \in Threads \ {w} : /\ pc'[v] = pc[v] /\ ft'[v] = ft[v] /\ cb_fiber'[v] = cb_fiber[v]
                               /\ Cur(v)' = Cur(v)
    BY DEF Frame, Cur
<1>2. ASSUME NEW h \in Fibers, h # f, Awaited(h) PROVE Awaited(h)'
    BY <1>0, <1>1, <1>2, AwaitedFacts DEF Stays
<1>3. ASSUME NEW h \in Fibers, h # f PROVE FiberPlace(h)'
  <2>1. FiberPlace(h) /\ m_state'[h] = m_state[h] /\ job'[h] = job[h] /\ (h \in waiting' => h \in waiting)
    BY <1>3 DEF PlaceInv, Stays
  <2>2. ASSUME NEW v \in Threads, pc[v] \in {"running", "parking"}, Cur(v) = h
        PROVE  v # w
    BY <1>3, <2>2 DEF Stays
  <2>3. m_state'[h] = "EXEC" => \E v \in Threads : pc'[v] \in {"running", "parking"} /\ Cur(v)' = h
    BY <1>1, <2>1, <2>2 DEF FiberPlace
  <2> QED
    BY <1>2, <1>3, <2>1, <2>3 DEF FiberPlace
<1>4. ASSUME NEW v \in Threads, v # w, ~Refers(v, f) PROVE WorkerPlace(v)'
  <2>1. WorkerPlace(v) /\ done \subseteq done'
    BY DEF PlaceInv, Stays
  <2>2. ASSUME NEW h \in Fibers, h # f
        PROVE  m_state'[h] = m_state[h] /\ job'[h] = job[h] /\ (Awaited(h) => Awaited(h)')
    BY <1>2, <2>2 DEF Stays
  <2>3. pc[v] \in Leaving \cup {"running"} =>
          \E h \in Fibers : h # f /\ Cur(v) = h
    BY <1>0, <1>4, CurFacts DEF Refers
  <2>4. pc'[v] = pc[v] /\ ft'[v] = ft[v] /\ Cur(v)' = Cur(v)
    BY <1>1, <1>4
  <2>5. ft'[v].fiber # None => ft'[v].task = job'[ft'[v].fiber]
    <3>1. ft[v].fiber # None => \E h \in Fibers : h # f /\ ft[v].fiber = h
        BY <1>4, CurFacts DEF Refers
    <3> QED
        BY <2>1, <2>2, <2>4, <3>1 DEF WorkerPlace
  <2>6. pc'[v] = "parking" => Awaited(Cur(v))'
    <3>1. SUFFICES ASSUME pc[v] = "parking" PROVE Awaited(Cur(v))'
        BY <2>4
    <3>2. PICK h \in Fibers : h # f /\ Cur(v) = h
        BY <2>3, <3>1 DEF Leaving
    <3>3. Awaited(h)'
        BY <2>1, <2>2, <3>1, <3>2 DEF WorkerPlace
    <3>4. Cur(v)' = h
        BY <2>4, <3>2
    <3> QED
        BY <3>3, <3>4 DEF Awaited, InQ
  <2> QED
    BY <2>1, <2>2, <2>3, <2>4, <2>5, <2>6 DEF WorkerPlace
<1>5. \A v \in Threads : WorkerPlace(v)'
    BY <1>4
<1> QED
    BY <1>3, <1>5 DEF PlaceInv

\* Another worker that refers to the fiber.
LEMMA OtherPlace ==
    ASSUME PlaceInv, NEW w, Frame(w), NEW v \in Threads \ {w}, NEW f \in Fibers, Refers(v, f),
           job'[f] = job[f], done \subseteq done',
           \/ m_state'[f] = m_state[f]
           \/ m_state'[f] \notin {"INIT", "FREE"} /\ (m_state'[f] \in Ended => job[f] \in done'),
           pc[v] = "parking" => Awaited(f)'
    PROVE  WorkerPlace(v)'
<1>1. pc'[v] = pc[v] /\ ft'[v] = ft[v] /\ cb_fiber'[v] = cb_fiber[v] /\ Cur(v)' = Cur(v)
    BY DEF Frame, Cur
<1>2. ft[v].fiber \in {f, None} /\ (ft[v].fiber = f => Cur(v) = f) /\ WorkerPlace(v)
  <2>1. None \notin Fibers
    BY SchedulerConstants DEF Fibers
  <2> QED
    BY <2>1 DEF Refers, Cur, PlaceInv
<1>3. pc[v] \in Leaving \cup {"running"} => Cur(v) = f
    BY <1>2 DEF Refers
<1>4. pc'[v] = "parking" => Awaited(Cur(v))'
  <2>1. SUFFICES ASSUME pc[v] = "parking" PROVE Awaited(Cur(v))'
    BY <1>1
  <2>2. Cur(v)' = f /\ Awaited(f)'
    BY <1>1, <1>3, <2>1 DEF Leaving
  <2> QED
    BY <2>2 DEF Awaited, InQ
<1> QED
    BY <1>1, <1>2, <1>3, <1>4 DEF WorkerPlace

\* The queue.
LEMMA QueueKept ==
    ASSUME TypeInv, QueuePlace, NEW f, \A h \in Fibers \ {f} : job'[h] = job[h],
           InQ(f) => job'[f] = job[f],
           \A e \in Queued' : e \in Queued \/ (e.fiber # None => e.task = job'[e.fiber])
    PROVE  QueuePlace'
<1>1. SUFFICES ASSUME NEW e \in Queued, e.fiber # None PROVE e.task = job'[e.fiber]
    BY DEF QueuePlace
<1>2. e \in Entries /\ e.task = job[e.fiber] /\ InQ(e.fiber)
    BY <1>1 DEF Queued, TypeInv, QueuePlace, InQ
<1>3. e.fiber \in Fibers
    BY <1>1, <1>2, EntryFacts
<1> QED
    BY <1>2, <1>3

\* An entry is taken.
LEMMA PicksPlace ==
    ASSUME TypeInv, LocalInv, OneRef, StateInv, PlaceInv, NEW w \in Threads, NEW e \in Entries, Picks(w, e)
    PROVE  PlaceInv'
<1>0. PICK f : f = e.fiber
    OBVIOUS
<1>1. /\ pc[w] = "pick" /\ Moves(w, "dispatch", e, cb_fiber[w]) /\ Erases(e)
      /\ UNCHANGED <<m_state, job, waiting, done>>
    BY DEF Picks
<1>2. Frame(w) /\ f \in Fibers \cup {None} /\ None \notin Fibers
    BY <1>0, <1>1, EntryFacts, FrameFacts, HasFacts
<1>3. pc'[w] = "dispatch" /\ ft'[w] = e /\ e \in Queued
    BY <1>1 DEF Moves, Erases
<1>4. Stays(w, f)
  <2>1. \A h \in Fibers \ {f} : InQ(h) => InQ(h)'
    BY <1>0, <1>1 DEF Erases, InQ
  <2> QED
    BY <1>1, <2>1 DEF Stays
<1>5. ASSUME f \in Fibers PROVE Awaited(f)' /\ f \notin waiting
  <2>1. InQ(f)
    BY <1>0, <1>3 DEF InQ
  <2> QED
    BY <1>0, <1>2, <1>3, <1>5, <2>1 DEF Awaited, OneRef, One
<1>6. ASSUME f \in Fibers PROVE FiberPlace(f)'
  <2>1. FiberPlace(f)
    BY <1>6 DEF PlaceInv
  <2>2. ASSUME NEW v \in Threads, pc[v] \in {"running", "parking"}, Cur(v) = f
        PROVE  pc'[v] \in {"running", "parking"} /\ Cur(v)' = f
    <3>1. v # w
        BY <1>1, <2>2
    <3> QED
        BY <1>2, <2>2, <3>1 DEF Frame, Cur
  <2> QED
    BY <1>1, <1>5, <1>6, <2>1, <2>2 DEF FiberPlace
<1>7. WorkerPlace(w)'
  <2>1. e.fiber # None => e.task = job[e.fiber]
    BY <1>3 DEF PlaceInv, QueuePlace
  <2> QED
    BY <1>1, <1>3, <2>1 DEF WorkerPlace, Leaving
<1>8. ASSUME NEW v \in Threads \ {w}, Refers(v, f) PROVE WorkerPlace(v)'
  <2>1. CASE f \in Fibers
    BY <1>1, <1>2, <1>5, <1>8, <2>1, OtherPlace
  <2>2. f # None
    BY <1>8 DEF Refers
  <2> QED
    BY <1>2, <2>1, <2>2
<1>9. QueuePlace'
    BY <1>1 DEF Erases, PlaceInv, QueuePlace
<1> QED
    BY <1>2, <1>4, <1>6, <1>7, <1>8, <1>9, PlaceFacts

\* The queue that does not change.
LEMMA SameQueuePlace ==
    ASSUME TypeInv, PlaceInv, NEW f, \A h \in Fibers \ {f} : job'[h] = job[h],
           InQ(f) => job'[f] = job[f], UNCHANGED m_fibers
    PROVE  QueuePlace' /\ \A h \in Fibers : InQ(h)' <=> InQ(h)
<1>1. Queued' = Queued /\ QueuePlace
    BY SameQueue DEF PlaceInv
<1>2. QueuePlace'
    BY <1>1, QueueKept
<1> QED
    BY <1>2, SameQueue

\* A fiber is swapped in.
LEMMA SwapsInPlace ==
    ASSUME TypeInv, LocalInv, OneRef, StateInv, PlaceInv, NEW w \in Threads, NEW f \in Fibers,
           SwapsIn(w, f), fault' = "none"
    PROVE  PlaceInv'
<1>1. /\ pc[w] = "dispatch" /\ ft[w].fiber = f /\ Moves(w, "running", ft[w], cb_fiber[w])
      /\ m_state'[f] = "EXEC" /\ (\A h \in Fibers : h # f => m_state'[h] = m_state[h])
      /\ \A v \in Threads \ {w} : pc[v] \in OnCpu => Cur(v) # f
      /\ UNCHANGED <<m_fibers, job, waiting, done>>
    BY DEF SwapsIn, Turns
<1>2. Frame(w) /\ None \notin Fibers
    BY <1>1, FrameFacts, HasFacts
<1>3. pc'[w] = "running" /\ ft'[w] = ft[w] /\ Cur(w)' = f
    BY <1>1, <1>2 DEF Moves, Cur
<1>4. QueuePlace' /\ \A h \in Fibers : InQ(h)' <=> InQ(h)
    BY <1>1, SameQueuePlace
<1>5. Stays(w, f)
    BY <1>1, <1>4 DEF Stays
<1>6. FiberPlace(f)'
    BY <1>1, <1>3 DEF PlaceInv, FiberPlace
<1>7. WorkerPlace(w)'
  <2>1. ft[w].task = job[f] /\ ft[w].task # None
    BY <1>1, <1>2, EntryFacts DEF PlaceInv, WorkerPlace, LocalInv
  <2> QED
    BY <1>1, <1>3, <2>1 DEF WorkerPlace, Leaving
<1>8. ASSUME NEW v \in Threads \ {w}, Refers(v, f) PROVE WorkerPlace(v)'
  <2>1. pc[v] # "parking"
    BY <1>1, <1>2, <1>8 DEF Refers, OnCpu, Leaving, Cur
  <2> QED
    BY <1>1, <1>2, <1>8, <2>1, OtherPlace DEF Ended
<1> QED
    BY <1>2, <1>4, <1>5, <1>6, <1>7, <1>8, PlaceFacts

\* A callback begins.
LEMMA SwapsInCbPlace ==
    ASSUME TypeInv, LocalInv, OneRef, StateInv, PlaceInv, NEW w \in Threads, NEW c \in Tasks,
           NEW g \in PoolFibers, SwapsInCb(w, c, g)
    PROVE  PlaceInv'
<1>1. /\ pc[w] = "dispatch" /\ ft[w].fiber = None /\ Moves(w, "running", NoEntry, g) /\ c # None
      /\ g = cb_fiber[w] \/ (cb_fiber[w] = None /\ m_state[g] = "FREE")
      /\ m_state'[g] = "EXEC" /\ (\A h \in Fibers : h # g => m_state'[h] = m_state[h])
      /\ job'[g] = c /\ (\A h \in Fibers : h # g => job'[h] = job[h])
      /\ UNCHANGED <<m_fibers, waiting, done>>
    BY DEF SwapsInCb, Turns, Gets
<1>2. Frame(w)
    BY <1>1, FrameFacts
<1>3. g \in Fibers /\ g \notin UserFibers /\ None \notin Fibers /\ g # None
    BY SchedulerConstants DEF Fibers
<1>4. pc'[w] = "running" /\ ft'[w].fiber = None /\ cb_fiber'[w] = g /\ Cur(w)' = g
    BY <1>1, EntryFacts DEF Moves, Cur
<1>5. ~InQ(g) /\ g \notin waiting /\ \A v \in Threads \ {w} : ~Has(v, g) /\ ~Leaves(v, g)
  <2>1. CASE g = cb_fiber[w]
    <3>1. Spare(w)
        BY <1>1, <1>3, <2>1 DEF Spare, Leaving
    <3>2. Has(w, g) /\ One(g) /\ \A v \in Threads : ~Leaves(v, g)
        BY <1>3, <2>1, <3>1, HasFacts DEF StateInv, SpareState, OneRef
    <3> QED
        BY <3>2 DEF One
  <2>2. CASE m_state[g] = "FREE"
    BY <1>3, <2>2 DEF StateInv, StateOf, Unused, Unreachable
  <2> QED
    BY <1>1, <2>1, <2>2
<1>6. QueuePlace' /\ \A h \in Fibers : InQ(h)' <=> InQ(h)
    BY <1>1, <1>5, SameQueuePlace
<1>7. Stays(w, g)
    BY <1>1, <1>6 DEF Stays
<1>8. FiberPlace(g)'
    BY <1>1, <1>3, <1>4 DEF FiberPlace
<1>9. WorkerPlace(w)'
    BY <1>1, <1>4 DEF WorkerPlace, Leaving
<1>10. \A v \in Threads \ {w} : ~Refers(v, g)
    BY <1>3, <1>5, RefersFacts
<1> QED
    BY <1>2, <1>6, <1>7, <1>8, <1>9, <1>10, PlaceFacts

\* A worker ends.
LEMMA ExitsPlace ==
    ASSUME TypeInv, LocalInv, OneRef, StateInv, PlaceInv, NEW w \in Threads, Exits(w)
    PROVE  PlaceInv'
<1>0. PICK f : f = cb_fiber[w]
    OBVIOUS
<1>1. /\ pc[w] = "dispatch" /\ ft[w] = NoEntry /\ Moves(w, "exit", NoEntry, None)
      /\ \A h \in Fibers : m_state'[h] = IF h = f THEN "FREE" ELSE m_state[h]
      /\ UNCHANGED <<m_fibers, job, waiting, done>>
    BY <1>0 DEF Exits
<1>2. Frame(w) /\ f \in PoolFibers \cup {None} /\ None \notin Fibers /\ NoEntry.fiber = None
    BY <1>0, <1>1, CurFacts, HasFacts, FrameFacts, EntryFacts
<1>3. pc'[w] = "exit" /\ ft'[w].fiber = None
    BY <1>1, EntryFacts DEF Moves
<1>4. ASSUME f \in Fibers
      PROVE  /\ f \notin UserFibers /\ ~InQ(f) /\ f \notin waiting
             /\ \A v \in Threads \ {w} : ~Leaves(v, f) /\ ~Has(v, f)
  <2>1. Spare(w)
    BY <1>0, <1>1, <1>2, <1>4 DEF Spare, Leaving
  <2>2. Has(w, f) /\ One(f) /\ \A v \in Threads : ~Leaves(v, f)
    BY <1>0, <1>4, <2>1, HasFacts DEF StateInv, SpareState, OneRef
  <2>3. f \notin UserFibers
    BY <1>2, <1>4, SchedulerConstants
  <2> QED
    BY <2>2, <2>3 DEF One
<1>5. QueuePlace' /\ \A h \in Fibers : InQ(h)' <=> InQ(h)
    BY <1>1, SameQueuePlace
<1>6. Stays(w, f)
    BY <1>1, <1>2, <1>5 DEF Stays
<1>7. ASSUME f \in Fibers PROVE FiberPlace(f)'
    BY <1>1, <1>4, <1>7 DEF FiberPlace
<1>8. WorkerPlace(w)'
    BY <1>3 DEF WorkerPlace, Leaving
<1>9. ASSUME NEW v \in Threads \ {w}, Refers(v, f) PROVE WorkerPlace(v)'
  <2>1. f \notin Fibers
    BY <1>4, <1>9, RefersFacts
  <2> QED
    BY <1>2, <1>9, <2>1 DEF Refers, Fibers
<1> QED
    BY <1>2, <1>5, <1>6, <1>7, <1>8, <1>9, PlaceFacts

\* A worker leaves the fiber it runs.
LEMMA DepartsPlace ==
    ASSUME TypeInv, LocalInv, OneRef, StateInv, PlaceInv, NEW w \in Threads, NEW f \in Fibers,
           NEW s \in States, Readies(w, f) \/ Finishes(w, f, s) \/ Registers(w, f)
    PROVE  PlaceInv'
<1>1. PICK p \in Leaving : /\ Moves(w, p, ft[w], cb_fiber[w])
                           /\ p = "parking" => /\ m_state'[f] = m_state[f]
                                               /\ waiting' = waiting \cup {f}
                           /\ p # "parking" => /\ m_state'[f] \in {"READY"} \cup Ended
                                               /\ UNCHANGED waiting
                           /\ m_state'[f] \in Ended => job[f] \in done' \/ m_state'[f] = m_state[f]
    BY DEF Readies, Finishes, Registers, Turns, Ended, Leaving
<1>2. /\ pc[w] = "running" /\ Cur(w) = f /\ (\A h \in Fibers : h # f => m_state'[h] = m_state[h])
      /\ UNCHANGED <<m_fibers, job>> /\ done \subseteq done'
    BY DEF Readies, Finishes, Registers, Turns
<1>3. /\ Frame(w) /\ Cur(w)' = f /\ ~InQ(f) /\ f \notin waiting
      /\ m_state[f] = "EXEC"
      /\ \A v \in Threads \ {w} : pc[v] \in OnCpu => Cur(v) # f
    BY <1>1, <1>2, DepartFacts
<1>4. pc'[w] = p /\ ft'[w] = ft[w] /\ p # "running"
    BY <1>1 DEF Moves, Leaving
<1>5. QueuePlace' /\ \A h \in Fibers : InQ(h)' <=> InQ(h)
    BY <1>2, SameQueuePlace
<1>6. Stays(w, f)
    BY <1>1, <1>2, <1>5 DEF Stays
<1>7. job[f] # None /\ FiberPlace(f) /\ WorkerPlace(w)
    BY <1>2 DEF PlaceInv, WorkerPlace
<1>8. m_state'[f] \notin {"INIT", "FREE", "HOLD"} /\ (m_state'[f] \in Ended => job[f] \in done')
    BY <1>1, <1>3 DEF Ended
<1>9. FiberPlace(f)'
    BY <1>1, <1>2, <1>3, <1>4, <1>7, <1>8 DEF FiberPlace, Ended
<1>10. WorkerPlace(w)'
  <2>1. p = "parking" => Awaited(Cur(w))'
    BY <1>1, <1>3 DEF Awaited
  <2> QED
    BY <1>2, <1>3, <1>4, <1>7, <1>8, <2>1 DEF WorkerPlace
<1>11. ASSUME NEW v \in Threads \ {w}, Refers(v, f) PROVE WorkerPlace(v)'
  <2>1. pc[v] # "parking"
    BY <1>3, <1>11 DEF Refers, OnCpu, Leaving, Cur
  <2> QED
    BY <1>2, <1>3, <1>8, <1>11, <2>1, OtherPlace
<1> QED
    BY <1>3, <1>5, <1>6, <1>9, <1>10, <1>11, PlaceFacts

\* It is registered and switched out.
LEMMA ParksPlace ==
    ASSUME TypeInv, LocalInv, OneRef, StateInv, PlaceInv, NEW w \in Threads, NEW f \in Fibers, Parks(w, f)
    PROVE  PlaceInv'
<1>1. /\ pc[w] = "parking" /\ Cur(w) = f /\ Moves(w, "swapout", ft[w], cb_fiber[w])
      /\ m_state'[f] = "HOLD" /\ (\A h \in Fibers : h # f => m_state'[h] = m_state[h])
      /\ UNCHANGED <<m_fibers, job, waiting, done>>
    BY DEF Parks, Turns
<1>2. Frame(w) /\ None \notin Fibers
    BY <1>1, FrameFacts, HasFacts
<1>3. pc'[w] = "swapout" /\ ft'[w] = ft[w] /\ Cur(w)' = f
    BY <1>1 DEF Moves, Cur
<1>4. QueuePlace' /\ \A h \in Fibers : InQ(h)' <=> InQ(h)
    BY <1>1, SameQueuePlace
<1>5. Stays(w, f)
    BY <1>1, <1>4 DEF Stays
<1>6. FiberPlace(f) /\ WorkerPlace(w) /\ Awaited(f) /\ job[f] # None
  <2>1. FiberPlace(f) /\ WorkerPlace(w)
    BY DEF PlaceInv
  <2> QED
    BY <1>1, <2>1 DEF WorkerPlace, Leaving
<1>7. Awaited(f)'
    BY <1>1, <1>2, <1>4, <1>6, AwaitedFacts DEF Frame
<1>8. FiberPlace(f)'
    BY <1>1, <1>6, <1>7 DEF FiberPlace
<1>9. WorkerPlace(w)'
    BY <1>1, <1>3, <1>6 DEF WorkerPlace, Ended
<1>10. ASSUME NEW v \in Threads \ {w}, Refers(v, f) PROVE WorkerPlace(v)'
    BY <1>1, <1>2, <1>7, <1>10, OtherPlace DEF Ended
<1> QED
    BY <1>2, <1>4, <1>5, <1>8, <1>9, <1>10, PlaceFacts

\* A READY fiber is scheduled again.
LEMMA SettlesReadyPlace ==
    ASSUME TypeInv, LocalInv, OneRef, StateInv, PlaceInv, NEW w \in Threads, NEW f \in Fibers,
           SettlesReady(w, f), fault' = "none"
    PROVE  PlaceInv'
<1>1. PICK g \in PoolFibers \cup {None} : Moves(w, "pick", NoEntry, g)
    BY DEF SettlesReady
<1>2. /\ pc[w] = "settle" /\ Cur(w) = f /\ m_state[f] = "READY"
      /\ Adds(Entry(f, job[f], None)) /\ ~Contended(w, f) /\ UNCHANGED <<m_state, job, waiting, done>>
    BY DEF SettlesReady
<1>3. /\ Frame(w) /\ pc'[w] = "pick" /\ ft'[w].fiber = None
      /\ Leaves(w, f) /\ \A v \in Threads \ {w} : ~Leaves(v, f)
    BY <1>1, <1>2, ForgetFacts
<1>4. Unreachable(f)
    BY <1>2, <1>3 DEF StateInv, StateOf
<1>0. Entry(f, job[f], None).fiber = f /\ Entry(f, job[f], None).task = job[f]
    BY DEF Entry
<1>5. PICK e : e = Entry(f, job[f], None) /\ e.fiber = f /\ e.task = job[f]
    BY <1>0
<1>6. QueuePlace' /\ \A h \in Fibers : InQ(h) => InQ(h)'
  <2>1. Queued' = Queued \cup {e} /\ QueuePlace
    BY <1>2, <1>5 DEF Adds, PlaceInv
  <2> QED
    BY <1>2, <1>5, <2>1, QueueKept DEF InQ
<1>7. Stays(w, f)
    BY <1>2, <1>6 DEF Stays
<1>8. FiberPlace(f)'
    BY <1>2, <1>4 DEF PlaceInv, FiberPlace, Unreachable
<1>9. WorkerPlace(w)'
    BY <1>3 DEF WorkerPlace, Leaving
<1>10. \A v \in Threads \ {w} : ~Refers(v, f)
    BY <1>3, <1>4, RefersFacts DEF Unreachable
<1> QED
    BY <1>3, <1>6, <1>7, <1>8, <1>9, <1>10, PlaceFacts

\* A fiber that waits is left alone.
LEMMA SettlesHeldPlace ==
    ASSUME TypeInv, LocalInv, OneRef, StateInv, PlaceInv, NEW w \in Threads, NEW f \in Fibers,
           SettlesHeld(w, f), fault' = "none"
    PROVE  PlaceInv'
<1>1. PICK g \in PoolFibers \cup {None} : Moves(w, "pick", NoEntry, g)
    BY DEF SettlesHeld
<1>2. /\ pc[w] = "settle" /\ Cur(w) = f /\ m_state'[f] = "HOLD" /\ ~Contended(w, f)
      /\ (\A h \in Fibers : h # f => m_state'[h] = m_state[h])
      /\ m_state[f] \notin {"READY"} \cup Ended /\ UNCHANGED <<m_fibers, job, waiting, done>>
    BY DEF SettlesHeld, Turns
<1>3. /\ Frame(w) /\ pc'[w] = "pick" /\ ft'[w].fiber = None /\ None \notin Fibers
      /\ Leaves(w, f) /\ \A v \in Threads \ {w} : ~Leaves(v, f)
    BY <1>1, <1>2, ForgetFacts, HasFacts
<1>4. QueuePlace' /\ \A h \in Fibers : InQ(h)' <=> InQ(h)
    BY <1>2, SameQueuePlace
<1>5. Stays(w, f)
    BY <1>2, <1>4 DEF Stays
<1>6. FiberPlace(f) /\ Awaited(f)
  <2>1. FiberPlace(f) /\ WorkerPlace(w) /\ m_state[f] \in States
    BY DEF PlaceInv, TypeInv
  <2>2. m_state[f] # "EXEC"
    BY <1>2, <2>1 DEF FiberPlace, Contended, HasFiber, OnCpu
  <2>3. m_state[f] = "HOLD"
    BY <1>2, <2>1, <2>2 DEF WorkerPlace, Leaving, States, Ended
  <2> QED
    BY <2>1, <2>3 DEF FiberPlace
<1>7. Awaited(f)'
    BY <1>2, <1>3, <1>4, <1>6, AwaitedFacts DEF Frame
<1>8. FiberPlace(f)'
    BY <1>2, <1>6, <1>7 DEF FiberPlace
<1>9. WorkerPlace(w)'
    BY <1>3 DEF WorkerPlace, Leaving
<1>10. ASSUME NEW v \in Threads \ {w}, Refers(v, f) PROVE WorkerPlace(v)'
    BY <1>2, <1>3, <1>7, <1>10, OtherPlace DEF Ended
<1> QED
    BY <1>3, <1>4, <1>5, <1>8, <1>9, <1>10, PlaceFacts

\* An ended fiber is kept or released.
LEMMA SettlesEndedPlace ==
    ASSUME TypeInv, LocalInv, OneRef, StateInv, PlaceInv, NEW w \in Threads, NEW f \in Fibers,
           NEW s \in States, NEW c \in Tasks \cup {None}, SettlesEnded(w, f, s, c), fault' = "none"
    PROVE  PlaceInv'
<1>1. cb_fiber[w] \in PoolFibers \cup {None}
    BY CurFacts
<1>2. /\ pc[w] = "settle" /\ Cur(w) = f /\ m_state[f] \in Ended /\ m_state'[f] = s
      /\ ~Contended(w, f) /\ Moves(w, "pick", NoEntry, cb_fiber[w])
      /\ s \in {"INIT", "FREE", m_state[f]} /\ (f \in UserFibers => c = job[f])
      /\ (\A h \in Fibers : h # f => m_state'[h] = m_state[h])
      /\ job'[f] = c /\ (\A h \in Fibers : h # f => job'[h] = job[h])
      /\ UNCHANGED <<m_fibers, waiting, done>>
    BY DEF SettlesEnded, Turns, Gets
<1>3. /\ Frame(w) /\ pc'[w] = "pick" /\ ft'[w].fiber = None
      /\ Leaves(w, f) /\ \A v \in Threads \ {w} : ~Leaves(v, f)
    BY <1>1, <1>2, ForgetFacts
<1>4. Unreachable(f)
    BY <1>2 DEF StateInv, StateOf
<1>5. QueuePlace' /\ \A h \in Fibers : InQ(h)' <=> InQ(h)
    BY <1>2, <1>4, SameQueuePlace DEF Unreachable
<1>6. Stays(w, f)
    BY <1>2, <1>5 DEF Stays
<1>7. FiberPlace(f)'
    BY <1>2, <1>4 DEF PlaceInv, FiberPlace, Unreachable, Ended
<1>8. WorkerPlace(w)'
    BY <1>3 DEF WorkerPlace, Leaving
<1>9. \A v \in Threads \ {w} : ~Refers(v, f)
    BY <1>3, <1>4, RefersFacts DEF Unreachable
<1> QED
    BY <1>3, <1>5, <1>6, <1>7, <1>8, <1>9, PlaceFacts

\* An event or timer is taken.
LEMMA WakeTakesPlace ==
    ASSUME TypeInv, LocalInv, OneRef, StateInv, PlaceInv, NEW w \in Threads, NEW f \in Fibers, WakeTakes(w, f)
    PROVE  PlaceInv'
<1>1. /\ pc[w] = "epoll" /\ f \in waiting /\ waiting' = waiting \ {f}
      /\ Moves(w, "wake", Entry(f, job[f], None), cb_fiber[w])
      /\ UNCHANGED <<m_fibers, m_state, job, done>>
    BY DEF WakeTakes
<1>2. Frame(w)
    BY <1>1, FrameFacts
<1>3. pc'[w] = "wake" /\ ft'[w].fiber = f /\ ft'[w].task = job[f]
    BY <1>1 DEF Moves, Entry
<1>4. QueuePlace' /\ \A h \in Fibers : InQ(h)' <=> InQ(h)
    BY <1>1, SameQueuePlace
<1>5. Stays(w, f)
    BY <1>1, <1>4 DEF Stays
<1>6. Awaited(f)' /\ f \notin waiting'
    BY <1>1, <1>3 DEF Awaited
<1>7. FiberPlace(f)'
  <2>1. FiberPlace(f)
    BY DEF PlaceInv
  <2>2. ASSUME NEW v \in Threads, pc[v] \in {"running", "parking"}, Cur(v) = f
        PROVE  pc'[v] \in {"running", "parking"} /\ Cur(v)' = f
    <3>1. v # w
        BY <1>1, <2>2
    <3> QED
        BY <1>2, <2>2, <3>1 DEF Frame, Cur
  <2> QED
    BY <1>1, <1>6, <2>1, <2>2 DEF FiberPlace
<1>8. WorkerPlace(w)'
    BY <1>1, <1>3 DEF WorkerPlace, Leaving
<1>9. ASSUME NEW v \in Threads \ {w}, Refers(v, f) PROVE WorkerPlace(v)'
    BY <1>1, <1>2, <1>6, <1>9, OtherPlace
<1> QED
    BY <1>2, <1>4, <1>5, <1>7, <1>8, <1>9, PlaceFacts

\* Its fiber is scheduled.
LEMMA WakeAddsPlace ==
    ASSUME TypeInv, LocalInv, OneRef, StateInv, PlaceInv, NEW w \in Threads, WakeAdds(w)
    PROVE  PlaceInv'
<1>1. /\ pc[w] = "wake" /\ Adds(ft[w]) /\ Moves(w, "epoll", NoEntry, cb_fiber[w])
      /\ UNCHANGED <<m_state, job, waiting, done>>
    BY DEF WakeAdds
<1>2. ft[w].fiber \in Fibers /\ None \notin Fibers
    BY <1>1, CurFacts, HasFacts DEF LocalInv
<1>0. PICK e : e = ft[w]
    OBVIOUS
<1>3. PICK f \in Fibers : e = ft[w] /\ f = e.fiber
    BY <1>0, <1>2
<1>4. pc'[w] = "epoll" /\ ft'[w].fiber = None /\ Frame(w)
    BY <1>1, EntryFacts, FrameFacts DEF Moves
<1>5. e.task = job[f] /\ QueuePlace /\ FiberPlace(f) /\ f \notin waiting
  <2>1. WorkerPlace(w) /\ QueuePlace /\ FiberPlace(f) /\ One(f) /\ Has(w, f)
    BY <1>1, <1>2, <1>3 DEF PlaceInv, OneRef, Has, Leaving
  <2> QED
    BY <1>2, <1>3, <2>1 DEF WorkerPlace, One
<1>6. QueuePlace' /\ InQ(f)' /\ \A h \in Fibers : InQ(h) => InQ(h)'
  <2>1. Queued' = Queued \cup {e}
    BY <1>1, <1>3 DEF Adds
  <2> QED
    BY <1>1, <1>3, <1>5, <2>1, QueueKept DEF InQ
<1>7. Stays(w, f)
    BY <1>1, <1>3, <1>6 DEF Stays
<1>8. FiberPlace(f)' /\ Awaited(f)'
  <2>1. ASSUME NEW v \in Threads, pc[v] \in {"running", "parking"}, Cur(v) = f
        PROVE  pc'[v] \in {"running", "parking"} /\ Cur(v)' = f
    <3>1. v # w
        BY <1>1, <2>1
    <3> QED
        BY <1>4, <2>1, <3>1 DEF Frame, Cur
  <2> QED
    BY <1>1, <1>5, <1>6, <2>1 DEF FiberPlace, Awaited
<1>9. WorkerPlace(w)'
    BY <1>4 DEF WorkerPlace, Leaving
<1>10. ASSUME NEW v \in Threads \ {w}, Refers(v, f) PROVE WorkerPlace(v)'
    BY <1>1, <1>4, <1>8, <1>10, OtherPlace
<1> QED
    BY <1>4, <1>6, <1>7, <1>8, <1>9, <1>10, PlaceFacts

\* schedule().
LEMMA SubmitsPlace ==
    ASSUME TypeInv, LocalInv, OneRef, StateInv, PlaceInv, MaxSchedule <= 1, NEW t \in Tasks,
           NEW p \in Threads \cup {None}, Submits(t, p)
    PROVE  PlaceInv'
<1>1. PICK f : f = IF t \in Cbs THEN None ELSE t
    OBVIOUS
<1>2. /\ Adds(Entry(f, t, p)) /\ (t \in UserFibers => given[t] < MaxSchedule)
      /\ UNCHANGED <<m_state, job, pc, ft, cb_fiber, waiting, done>>
    BY <1>1 DEF Submits
<1>3. None \notin Fibers /\ None \notin Threads /\ (f = None \/ (f \in Fibers /\ f = t /\ t \in UserFibers))
    BY <1>1, SchedulerConstants DEF Tasks, Fibers
<1>4. ASSUME f \in Fibers PROVE m_state[f] = "INIT" /\ Unused(f) /\ job[f] = f
  <2>1. given[t] \in Nat /\ MaxSchedule \in Nat
    BY SchedulerConstants DEF TypeInv
  <2>2. given[t] = 0
    BY <1>2, <1>3, <1>4, <2>1
  <2>3. StateOf(f) /\ FiberPlace(f)
    BY <1>4 DEF StateInv, PlaceInv
  <2> QED
    BY <1>3, <1>4, <2>2, <2>3 DEF StateOf, FiberPlace
<1>5. Frame(None)
    BY <1>2 DEF Frame, Has, Leaves, Cur
<1>6. QueuePlace' /\ \A h \in Fibers : InQ(h) => InQ(h)'
  <2>1. PICK e : e = Entry(f, t, p)
    OBVIOUS
  <2>2. e.fiber = f /\ e.task = t /\ Queued' = Queued \cup {e}
    BY <1>2, <2>1 DEF Entry, Adds
  <2>3. e.fiber # None => e.task = job'[e.fiber]
    BY <1>2, <1>3, <1>4, <2>2
  <2> QED
    BY <1>2, <2>2, <2>3, QueueKept DEF InQ, PlaceInv
<1>7. Stays(None, f)
    BY <1>2, <1>3, <1>6 DEF Stays
<1>8. ASSUME f \in Fibers PROVE FiberPlace(f)'
    BY <1>2, <1>4, <1>8 DEF FiberPlace, Unused, Unreachable
<1>9. \A v \in Threads : ~Refers(v, f)
  <2>1. CASE f \in Fibers
    BY <1>4, <2>1, RefersFacts DEF Unused, Unreachable
  <2>2. CASE f = None
    BY <2>2 DEF Refers
  <2> QED
    BY <1>3, <2>1, <2>2
<1> QED
    BY <1>3, <1>5, <1>6, <1>7, <1>8, <1>9, PlaceFacts

\* Steps that move no fiber.
LEMMA QuietPlace ==
    ASSUME TypeInv, LocalInv, PlaceInv, Quiet PROVE PlaceInv'
<1>1. UNCHANGED <<m_fibers, m_state, job, ft, cb_fiber, waiting, done>> /\ None \notin Fibers
    BY SchedulerConstants DEF Quiet, Fibers
<1>2. ASSUME NEW w \in Threads
      PROVE  /\ pc'[w] \in Leaving <=> pc[w] \in Leaving
             /\ pc'[w] \in Leaving \cup {"running"} <=> pc[w] \in Leaving \cup {"running"}
             /\ pc'[w] = "parking" => pc[w] = "parking"
             /\ pc[w] \in {"running", "parking"} => pc'[w] \in {"running", "parking"}
             /\ pc[w] \in {"dispatch", "wake"} /\ ft[w].fiber # None => pc'[w] = pc[w]
    BY <1>2, EntryFacts DEF Quiet, Leaving, Resting
<1>3. \A w \in Threads : Cur(w)' = Cur(w)
    BY <1>1 DEF Cur
<1>4. QueuePlace' /\ \A h \in Fibers : InQ(h)' <=> InQ(h)
    BY <1>1, SameQueuePlace
<1>5. ASSUME NEW h \in Fibers PROVE Awaited(h) => Awaited(h)'
    BY <1>1, <1>2, <1>4 DEF Awaited
<1>6. ASSUME NEW h \in Fibers PROVE FiberPlace(h)'
    BY <1>1, <1>2, <1>3, <1>5 DEF PlaceInv, FiberPlace
<1>7. ASSUME NEW w \in Threads PROVE WorkerPlace(w)'
  <2>1. WorkerPlace(w)
    BY DEF PlaceInv
  <2>2. pc'[w] = "parking" => Awaited(Cur(w))'
    <3>1. SUFFICES ASSUME pc[w] = "parking" PROVE Awaited(Cur(w))'
        BY <1>2
    <3>2. PICK h \in Fibers : h = Cur(w)
        BY <3>1, CurFacts DEF Leaving
    <3>3. Awaited(h)' /\ Cur(w)' = h
        BY <1>3, <1>5, <2>1, <3>1, <3>2 DEF WorkerPlace
    <3> QED
        BY <3>3 DEF Awaited, InQ
  <2> QED
    BY <1>1, <1>2, <1>3, <2>1, <2>2 DEF WorkerPlace
<1> QED
    BY <1>4, <1>6, <1>7 DEF PlaceInv

\* All steps.
LEMMA NextPlace ==
    ASSUME TypeInv, LocalInv, OneRef, StateInv, PlaceInv, MaxSchedule <= 1, AnyStep, fault' = "none"
    PROVE  PlaceInv'
<1>1. ASSUME NEW w \in Threads, WorkerStep(w) PROVE PlaceInv'
    BY <1>1, StepFacts, PicksPlace, SwapsInPlace, DepartsPlace, ParksPlace, SettlesReadyPlace,
       SettlesHeldPlace, WakeTakesPlace, SettlesEndedPlace, SwapsInCbPlace, ExitsPlace, WakeAddsPlace
    DEF WorkerStep
<1> QED
    BY <1>1, QuietPlace, SubmitsPlace DEF AnyStep, Fails

-----------------------------------------------------------------------------
(* No task is lost. *)

\* Worker w runs or has just left a fiber with the code of t.
Carries(w, t) == pc[w] \in Counted \cup {"settle"} /\ Cur(w) # None /\ job[Cur(w)] = t
\* Located, by the entries of the queue.
Spots(t) ==
    \/ \E e \in Queued : e.task = t
    \/ \E w \in Threads : pc[w] \in {"dispatch", "wake"} /\ ft[w].task = t
    \/ \E w \in Threads : Carries(w, t)
    \/ \E f \in waiting : job[f] = t
LEMMA SpotsFacts == ASSUME NEW t PROVE (Located(t) <=> Spots(t)) /\ (Located(t)' <=> Spots(t)')
<1>1. Located(t) <=> Spots(t)
    BY DEF Located, Spots, Queued, Carries
<1>2. Located(t)' <=> Spots(t)'
    BY DEF Located, Spots, Queued, Carries
<1> QED
    BY <1>1, <1>2

\* What is left to show of a step.
LEMMA SpotsKept ==
    ASSUME NEW w \in Threads, Frame(w), NEW t, Spots(t),
           \A e \in Queued : e.task = t => Spots(t)',
           pc[w] \in {"dispatch", "wake"} /\ ft[w].task = t => Spots(t)',
           Carries(w, t) => Spots(t)',
           \A v \in Threads \ {w} : Carries(v, t) => job'[Cur(v)] = t \/ Spots(t)',
           \A f \in waiting : job[f] = t => Spots(t)'
    PROVE  Spots(t)'
<1>1. \A v \in Threads \ {w} : pc'[v] = pc[v] /\ ft'[v] = ft[v] /\ Cur(v)' = Cur(v)
    BY DEF Frame, Cur
<1>2. ASSUME NEW v \in Threads, pc[v] \in {"dispatch", "wake"}, ft[v].task = t PROVE Spots(t)'
    BY <1>1, <1>2 DEF Spots
<1>3. ASSUME NEW v \in Threads, Carries(v, t) PROVE Spots(t)'
  <2>1. CASE v = w
    BY <1>3, <2>1
  <2>2. CASE v # w /\ job'[Cur(v)] = t
    <3>1. Carries(v, t)'
        BY <1>1, <1>3, <2>2 DEF Carries
    <3> QED
        BY <3>1 DEF Spots
  <2> QED
    BY <1>3, <2>1, <2>2
<1> QED
    BY <1>2, <1>3 DEF Spots

\* A worker that has a fiber keeps it.
LEMMA CarriesFacts ==
    ASSUME TypeInv, LocalInv, NEW w \in Threads, NEW t, Carries(w, t)
    PROVE  Cur(w) \in Fibers /\ pc[w] \in Leaving \cup {"running"}
<1>1. pc[w] \in Leaving \cup {"running"}
    BY DEF Carries, Counted, OnCpu, Leaving
<1> QED
    BY <1>1, CurFacts

\* A worker goes on with the fiber f.
LEMMA LeavesSpots ==
    ASSUME TypeInv, LocalInv, NEW w \in Threads, NEW f \in Fibers, NEW p \in Leaving,
           Moves(w, p, ft[w], cb_fiber[w]), Cur(w) = f, pc[w] \in Leaving \cup {"running"},
           UNCHANGED <<m_fibers, job>>, waiting \subseteq waiting', NEW t, Spots(t)
    PROVE  Spots(t)'
<1>1. Frame(w)
    BY FrameFacts
<1>2. pc'[w] = p /\ Cur(w)' = f
    BY DEF Moves, Cur
<1>3. Carries(w, t) => Carries(w, t)'
    BY <1>2 DEF Carries, Leaving, Counted, OnCpu
<1>4. Queued' = Queued
    BY SameQueue
<1>5. pc[w] \notin {"dispatch", "wake"}
    BY DEF Leaving
<1>6. \A e \in Queued : e.task = t => Spots(t)'
    BY <1>4 DEF Spots
<1>7. \A h \in waiting : job[h] = t => Spots(t)'
    BY DEF Spots
<1>8. Carries(w, t) => Spots(t)'
    BY <1>3 DEF Spots
<1>9. \A v \in Threads \ {w} : Carries(v, t) => job'[Cur(v)] = t
    BY DEF Carries
<1> QED
    BY <1>1, <1>5, <1>6, <1>7, <1>8, <1>9, SpotsKept

\* A worker begins to run a fiber.
LEMMA BeginSpots ==
    ASSUME TypeInv, LocalInv, OneRef, StateInv, PlaceInv, NEW w \in Threads, NEW t \in Tasks, Spots(t),
           \/ \E f \in Fibers : SwapsIn(w, f)
           \/ \E g \in PoolFibers, c \in Tasks : SwapsInCb(w, c, g)
    PROVE  Spots(t)'
<1>1. PICK h \in Fibers : /\ pc[w] = "dispatch" /\ Frame(w)
                          /\ pc'[w] = "running" /\ Cur(w)' = h /\ job'[h] = ft[w].task
                          /\ \A f \in Fibers \ {h} : job'[f] = job[f]
                          /\ UNCHANGED <<m_fibers, waiting>>
                          /\ \/ job'[h] = job[h]
                             \/ h \notin waiting /\ \A v \in Threads \ {w} : ~Has(v, h) /\ ~Leaves(v, h)
  <2>0. None \notin Fibers /\ PoolFibers \subseteq Fibers
    BY SchedulerConstants DEF Fibers
  <2>1. ASSUME NEW f \in Fibers, SwapsIn(w, f)
        PROVE  /\ pc[w] = "dispatch" /\ Frame(w) /\ pc'[w] = "running" /\ Cur(w)' = f
               /\ job' = job /\ job[f] = ft[w].task /\ UNCHANGED <<m_fibers, waiting>>
    <3>1. pc[w] = "dispatch" /\ Moves(w, "running", ft[w], cb_fiber[w]) /\ ft[w].fiber = f
          /\ UNCHANGED <<m_fibers, job, waiting>>
        BY <2>1 DEF SwapsIn
    <3>2. ft[w].task = job[f]
        BY <2>0, <3>1 DEF PlaceInv, WorkerPlace
    <3>3. pc'[w] = "running" /\ Cur(w)' = f
        BY <2>0, <3>1 DEF Moves, Cur
    <3> QED
        BY <3>1, <3>2, <3>3, FrameFacts
  <2>2. ASSUME NEW g \in PoolFibers, NEW c \in Tasks, SwapsInCb(w, c, g)
        PROVE  /\ pc[w] = "dispatch" /\ Frame(w) /\ pc'[w] = "running" /\ Cur(w)' = g
               /\ job'[g] = ft[w].task /\ (\A f \in Fibers \ {g} : job'[f] = job[f])
               /\ UNCHANGED <<m_fibers, waiting>>
               /\ g \notin waiting /\ \A v \in Threads \ {w} : ~Has(v, g) /\ ~Leaves(v, g)
    <3>1. /\ pc[w] = "dispatch" /\ Moves(w, "running", NoEntry, g) /\ job'[g] = ft[w].task
          /\ (\A f \in Fibers \ {g} : job'[f] = job[f]) /\ UNCHANGED <<m_fibers, waiting>>
          /\ g = cb_fiber[w] \/ m_state[g] = "FREE"
          /\ ft[w].fiber = None
        BY <2>2 DEF SwapsInCb, Gets
    <3>2. pc'[w] = "running" /\ Cur(w)' = g
        BY <3>1, EntryFacts DEF Moves, Cur
    <3>3. CASE g = cb_fiber[w]
      <4>1. Spare(w) /\ g \in Fibers
        BY <2>0, <3>1, <3>3 DEF Spare, Leaving
      <4>2. Has(w, g) /\ One(g) /\ \A v \in Threads : ~Leaves(v, g)
        BY <3>3, <4>1, HasFacts DEF StateInv, SpareState, OneRef
      <4>3. g \notin waiting /\ \A v \in Threads \ {w} : ~Has(v, g) /\ ~Leaves(v, g)
        BY <4>2 DEF One
      <4> QED
        BY <3>1, <3>2, <4>3, FrameFacts
    <3>4. CASE m_state[g] = "FREE"
      <4>1. g \notin waiting /\ \A v \in Threads \ {w} : ~Has(v, g) /\ ~Leaves(v, g)
        BY <2>0, <3>4 DEF StateInv, StateOf, Unused, Unreachable
      <4> QED
        BY <3>1, <3>2, <4>1, FrameFacts
    <3> QED
        BY <3>1, <3>3, <3>4
  <2>3. CASE \E f \in Fibers : SwapsIn(w, f)
    BY <2>1, <2>3
  <2>4. CASE \E g \in PoolFibers, c \in Tasks : SwapsInCb(w, c, g)
    BY <2>0, <2>2, <2>4
  <2> QED
    BY <2>3, <2>4
<1>2. ft[w].task = t => Spots(t)'
  <2>1. ft[w].task = t => Carries(w, t)'
    BY <1>1, SchedulerConstants DEF Carries, Counted, OnCpu, Fibers
  <2> QED
    BY <2>1 DEF Spots
<1>3. ~Carries(w, t)
    BY <1>1 DEF Carries, Counted, OnCpu
<1>4. ASSUME NEW v \in Threads \ {w}, Carries(v, t) PROVE job'[Cur(v)] = t
  <2>1. Cur(v) \in Fibers /\ pc[v] \in Leaving \cup {"running"} /\ job[Cur(v)] = t
    BY <1>4, CarriesFacts DEF Carries
  <2>2. Has(v, Cur(v)) \/ Leaves(v, Cur(v))
    BY <2>1, HasFacts
  <2> QED
    BY <1>1, <2>1, <2>2
<1>5. \A f \in waiting : job[f] = t => Spots(t)'
  <2>1. ASSUME NEW f \in waiting, job[f] = t PROVE f \in waiting' /\ job'[f] = t
    BY <1>1, <2>1 DEF TypeInv
  <2> QED
    BY <2>1 DEF Spots
<1>6. \A e \in Queued : e.task = t => Spots(t)'
    BY <1>1, SameQueue DEF Spots
<1> QED
    BY <1>1, <1>2, <1>3, <1>4, <1>5, <1>6, SpotsKept

\* A worker settles the fiber it has left.
LEMMA SettleSpots ==
    ASSUME TypeInv, LocalInv, OneRef, StateInv, PlaceInv, NEW w \in Threads, NEW t \in Tasks, Spots(t),
           t \notin done, NEW f \in Fibers,
           \/ SettlesReady(w, f) \/ SettlesHeld(w, f)
           \/ \E s \in States, c \in Tasks \cup {None} : SettlesEnded(w, f, s, c)
    PROVE  Spots(t)'
<1>1. /\ pc[w] = "settle" /\ Cur(w) = f /\ (\E g : Moves(w, "pick", NoEntry, g)) /\ UNCHANGED waiting
      /\ Queued \subseteq Queued'
      /\ \A h \in Fibers \ {f} : job'[h] = job[h]
      /\ m_state[f] \notin Ended => job'[f] = job[f]
  <2>1. CASE SettlesReady(w, f)
    BY <2>1 DEF SettlesReady, Adds
  <2>2. CASE SettlesHeld(w, f)
    BY <2>2, SameQueue DEF SettlesHeld
  <2>3. CASE \E s \in States, c \in Tasks \cup {None} : SettlesEnded(w, f, s, c)
    BY <2>3, SameQueue DEF SettlesEnded, Gets
  <2> QED
    BY <2>1, <2>2, <2>3
<1>2. Frame(w) /\ None \notin Fibers
    BY <1>1, FrameFacts, HasFacts
<1>3. m_state[f] \in Ended => job[f] # t
    BY <1>1 DEF PlaceInv, WorkerPlace, Leaving
<1>4. \A h \in Fibers : job[h] = t => job'[h] = t
    BY <1>1, <1>3
<1>5. \A e \in Queued : e.task = t => Spots(t)'
    BY <1>1 DEF Spots
<1>6. \A h \in waiting : job[h] = t => Spots(t)'
  <2>1. ASSUME NEW h \in waiting, job[h] = t PROVE h \in waiting' /\ job'[h] = t
    BY <1>1, <1>4, <2>1 DEF TypeInv
  <2> QED
    BY <2>1 DEF Spots
<1>7. \A v \in Threads \ {w} : Carries(v, t) => job'[Cur(v)] = t
    BY <1>4, CarriesFacts DEF Carries
<1>8. ASSUME NEW v \in Threads, v # w, pc[v] \in {"dispatch", "wake"}, ft[v].fiber = f, job[f] = t
      PROVE  Spots(t)'
  <2>1. ft[v].task = t
    BY <1>2, <1>8 DEF PlaceInv, WorkerPlace
  <2> QED
    BY <1>2, <1>8, <2>1 DEF Spots, Frame
<1>9. ASSUME NEW v \in Threads, v # w, pc[v] \in {"running", "parking"}, Cur(v) = f, job[f] = t
      PROVE  Spots(t)'
  <2>1. Carries(v, t)'
    BY <1>2, <1>4, <1>9 DEF Carries, Frame, Cur, Counted, OnCpu
  <2> QED
    BY <2>1 DEF Spots
<1>10. ASSUME job[f] = t PROVE Spots(t)'
  <2>1. CASE SettlesReady(w, f)
    <3>0. Entry(f, job[f], None).task = job[f]
        BY DEF Entry
    <3>1. PICK e : e = Entry(f, job[f], None) /\ e.task = t
        BY <1>10, <3>0
    <3>2. e \in Queued'
        BY <2>1, <3>1 DEF SettlesReady, Adds
    <3> QED
        BY <3>1, <3>2 DEF Spots
  <2>2. CASE SettlesHeld(w, f)
    <3>1. FiberPlace(f) /\ WorkerPlace(w) /\ m_state[f] \in States
        BY DEF PlaceInv, TypeInv
    <3>2. m_state[f] \in {"HOLD", "EXEC"}
        BY <1>1, <2>2, <3>1 DEF WorkerPlace, Leaving, States, Ended, SettlesHeld
    <3>3. CASE m_state[f] = "EXEC"
        BY <1>1, <1>9, <1>10, <3>1, <3>3 DEF FiberPlace
    <3>4. CASE m_state[f] = "HOLD"
      <4>1. Awaited(f)
        BY <3>1, <3>4 DEF FiberPlace
      <4>2. InQ(f) => Spots(t)'
        BY <1>2, <1>5, <1>10 DEF InQ, PlaceInv, QueuePlace
      <4> QED
        BY <1>1, <1>6, <1>8, <1>10, <4>1, <4>2 DEF Awaited
    <3> QED
        BY <3>2, <3>3, <3>4
  <2>3. CASE \E s \in States, c \in Tasks \cup {None} : SettlesEnded(w, f, s, c)
    BY <1>3, <1>10, <2>3 DEF SettlesEnded
  <2> QED
    BY <2>1, <2>2, <2>3
<1>11. Carries(w, t) => Spots(t)'
    BY <1>1, <1>10 DEF Carries
<1> QED
    BY <1>1, <1>2, <1>5, <1>6, <1>7, <1>11, SpotsKept

\* All steps.
LEMMA NextLost ==
    ASSUME TypeInv, LocalInv, OneRef, StateInv, PlaceInv, NoTaskLost, AnyStep PROVE NoTaskLost'
<1>1. SUFFICES ASSUME NEW t \in Tasks, given'[t] > 0, t \notin done' PROVE Spots(t)'
    BY SpotsFacts DEF NoTaskLost
<1>2. done \subseteq done'
    BY DEF AnyStep, WorkerStep, Quiet, Fails, Submits, Picks, SwapsIn, SwapsInCb, Exits, Readies,
           Registers, Parks, Finishes, SettlesReady, SettlesHeld, SettlesEnded, WakeTakes, WakeAdds
<1>3. given'[t] = given[t] => Spots(t)
    BY <1>1, <1>2, SpotsFacts DEF NoTaskLost
<1>4. t # None
    BY SchedulerConstants DEF Tasks, Fibers
<1>5. CASE Quiet
  <2>1. /\ UNCHANGED <<m_fibers, job, ft, cb_fiber, waiting, given>> /\ Spots(t)
        /\ \A v \in Threads : Cur(v)' = Cur(v)
    BY <1>3, <1>5 DEF Quiet, Cur
  <2>2. Queued' = Queued
    BY <2>1, SameQueue
  <2>3. ASSUME NEW v \in Threads, Carries(v, t) PROVE Carries(v, t)'
    BY <1>5, <2>1, <2>3 DEF Quiet, Carries, Counted, OnCpu, Resting
  <2>4. ASSUME NEW v \in Threads, pc[v] \in {"dispatch", "wake"}, ft[v].task = t PROVE pc'[v] = pc[v]
    BY <1>4, <1>5, <2>4, EntryFacts DEF Quiet, Resting
  <2> QED
    BY <2>1, <2>2, <2>3, <2>4 DEF Spots
<1>6. CASE Fails
  <2>1. UNCHANGED <<m_fibers, job, pc, ft, cb_fiber, waiting, given>> /\ Spots(t)
    BY <1>3, <1>6 DEF Fails
  <2>2. Queued' = Queued
    BY <2>1, SameQueue
  <2> QED
    BY <2>1, <2>2 DEF Spots, Carries, Cur
<1>7. ASSUME NEW u \in Tasks, NEW p \in Threads \cup {None}, Submits(u, p) PROVE Spots(t)'
  <2>0. Entry(IF u \in Cbs THEN None ELSE u, u, p).task = u
    BY DEF Entry
  <2>1. PICK e : e = Entry(IF u \in Cbs THEN None ELSE u, u, p) /\ e.task = u
    BY <2>0
  <2>2. Queued' = Queued \cup {e} /\ UNCHANGED <<job, pc, ft, cb_fiber, waiting>>
        /\ (t # u => given'[t] = given[t])
    BY <1>7, <2>1 DEF Submits, Adds
  <2>3. CASE t = u
    BY <2>1, <2>2, <2>3 DEF Spots
  <2>4. CASE t # u
    BY <1>3, <2>2, <2>4 DEF Spots, Carries, Cur
  <2> QED
    BY <2>3, <2>4
<1>8. ASSUME NEW w \in Threads, WorkerStep(w) PROVE Spots(t)'
  <2>1. Spots(t) /\ t \notin done
    BY <1>1, <1>2, <1>3, <1>8
    DEF WorkerStep, Picks, SwapsIn, SwapsInCb, Exits, Readies,
        Registers, Parks, Finishes, SettlesReady, SettlesHeld, SettlesEnded, WakeTakes, WakeAdds
  <2>2. ASSUME NEW e \in Entries, Picks(w, e) PROVE Spots(t)'
    <3>1. /\ pc[w] = "pick" /\ Moves(w, "dispatch", e, cb_fiber[w]) /\ Erases(e)
          /\ UNCHANGED <<job, waiting>>
        BY <2>2 DEF Picks
    <3>2. Frame(w) /\ pc'[w] = "dispatch" /\ ft'[w] = e
        BY <3>1, FrameFacts DEF Moves
    <3>3. \A d \in Queued : d.task = t => Spots(t)'
        BY <3>1, <3>2 DEF Spots, Erases
    <3>4. ~Carries(w, t) /\ \A v \in Threads : Carries(v, t) => job'[Cur(v)] = t
        BY <3>1 DEF Carries, Counted, OnCpu
    <3>5. \A f \in waiting : job[f] = t => Spots(t)'
        BY <3>1 DEF Spots
    <3> QED
        BY <2>1, <3>1, <3>2, <3>3, <3>4, <3>5, SpotsKept
  <2>3. ASSUME NEW f \in Fibers, Readies(w, f) \/ Registers(w, f) \/ Parks(w, f)
                                 \/ \E s \in States : Finishes(w, f, s)
        PROVE  Spots(t)'
    <3>1. /\ \E p \in Leaving : Moves(w, p, ft[w], cb_fiber[w])
          /\ pc[w] \in Leaving \cup {"running"} /\ Cur(w) = f
          /\ UNCHANGED <<m_fibers, job>> /\ waiting \subseteq waiting'
        BY <2>3 DEF Readies, Registers, Parks, Finishes, Leaving
    <3> QED
        BY <2>1, <3>1, LeavesSpots
  <2>4. CASE Exits(w)
    <3>1. /\ pc[w] = "dispatch" /\ ft[w] = NoEntry /\ Moves(w, "exit", NoEntry, None)
          /\ UNCHANGED <<m_fibers, job, waiting>>
        BY <2>4 DEF Exits
    <3>2. Frame(w) /\ Queued' = Queued /\ ft[w].task = None
        BY <3>1, FrameFacts, SameQueue, EntryFacts
    <3>3. \A d \in Queued : d.task = t => Spots(t)'
        BY <3>2 DEF Spots
    <3>4. ~Carries(w, t) /\ \A v \in Threads : Carries(v, t) => job'[Cur(v)] = t
        BY <3>1 DEF Carries, Counted, OnCpu
    <3>5. \A f \in waiting : job[f] = t => Spots(t)'
        BY <3>1 DEF Spots
    <3> QED
        BY <1>4, <2>1, <3>1, <3>2, <3>3, <3>4, <3>5, SpotsKept
  <2>5. ASSUME NEW f \in Fibers, WakeTakes(w, f) PROVE Spots(t)'
    <3>1. /\ pc[w] = "epoll" /\ Moves(w, "wake", Entry(f, job[f], None), cb_fiber[w])
          /\ waiting' = waiting \ {f} /\ UNCHANGED <<m_fibers, job>>
        BY <2>5 DEF WakeTakes
    <3>2. Frame(w) /\ Queued' = Queued /\ pc'[w] = "wake" /\ ft'[w].task = job[f]
        BY <3>1, FrameFacts, SameQueue DEF Moves, Entry
    <3>3. \A d \in Queued : d.task = t => Spots(t)'
        BY <3>2 DEF Spots
    <3>4. ~Carries(w, t) /\ \A v \in Threads : Carries(v, t) => job'[Cur(v)] = t
        BY <3>1 DEF Carries, Counted, OnCpu
    <3>5. \A h \in waiting : job[h] = t => Spots(t)'
        BY <3>1, <3>2 DEF Spots
    <3> QED
        BY <2>1, <3>1, <3>2, <3>3, <3>4, <3>5, SpotsKept
  <2>6. CASE WakeAdds(w)
    <3>1. /\ pc[w] = "wake" /\ Moves(w, "epoll", NoEntry, cb_fiber[w]) /\ Adds(ft[w])
          /\ UNCHANGED <<job, waiting>>
        BY <2>6 DEF WakeAdds
    <3>2. Frame(w) /\ Queued' = Queued \cup {ft[w]}
        BY <3>1, FrameFacts DEF Adds
    <3>3. /\ \A d \in Queued : d.task = t => Spots(t)'
          /\ ft[w].task = t => Spots(t)'
        BY <3>2 DEF Spots
    <3>4. ~Carries(w, t) /\ \A v \in Threads : Carries(v, t) => job'[Cur(v)] = t
        BY <3>1 DEF Carries, Counted, OnCpu
    <3>5. \A h \in waiting : job[h] = t => Spots(t)'
        BY <3>1 DEF Spots
    <3> QED
        BY <2>1, <3>1, <3>2, <3>3, <3>4, <3>5, SpotsKept
  <2>7. ASSUME NEW f \in Fibers,
               \/ SettlesReady(w, f) \/ SettlesHeld(w, f)
               \/ \E s \in States, c \in Tasks \cup {None} : SettlesEnded(w, f, s, c)
        PROVE  Spots(t)'
    BY <2>1, <2>7, SettleSpots
  <2>8. CASE \/ \E f \in Fibers : SwapsIn(w, f)
             \/ \E g \in PoolFibers, c \in Tasks : SwapsInCb(w, c, g)
    BY <2>1, <2>8, BeginSpots
  <2> QED
    BY <1>8, <2>2, <2>3, <2>4, <2>5, <2>6, <2>7, <2>8 DEF WorkerStep
<1> QED
    BY <1>5, <1>6, <1>7, <1>8 DEF AnyStep

-----------------------------------------------------------------------------
(* The thread counts. *)

\* n is the size of finite set S.
Counts(S, n) == IsFiniteSet(S) /\ n = Cardinality(S)
Up(b) == IF b THEN 1 ELSE 0

\* Whether w is in the set.
LEMMA CountFacts ==
    ASSUME NEW S, NEW R, NEW n, Counts(S, n), NEW w, \A v : v # w => (v \in R <=> v \in S)
    PROVE  Counts(R, n + Up(w \in R) - Up(w \in S))
<1>1. n \in Nat /\ n = Cardinality(S) /\ IsFiniteSet(S)
    BY FS_CardinalityType DEF Counts
<1>2. CASE w \in R <=> w \in S
  <2>1. R = S
    BY <1>2
  <2> QED
    BY <1>1, <2>1 DEF Counts, Up
<1>3. CASE w \in R /\ w \notin S
  <2>1. R = S \cup {w}
    BY <1>3
  <2>2. IsFiniteSet(R) /\ Cardinality(R) = Cardinality(S) + 1
    BY <1>1, <1>3, <2>1, FS_AddElement
  <2> QED
    BY <1>1, <1>3, <2>2 DEF Counts, Up
<1>4. CASE w \notin R /\ w \in S
  <2>1. R = S \ {w}
    BY <1>4
  <2>2. IsFiniteSet(R) /\ Cardinality(R) = Cardinality(S) - 1
    BY <1>1, <1>4, <2>1, FS_RemoveElement
  <2> QED
    BY <1>1, <1>4, <2>2 DEF Counts, Up
<1> QED
    BY <1>2, <1>3, <1>4

\* A step of worker w counts itself right.
Recounts(w) ==
    /\ \A v \in Threads \ {w} : pc'[v] = pc[v] /\ ft'[v] = ft[v]
    /\ m_activeThreadCount' = m_activeThreadCount + Up(HasTask(w)') - Up(HasTask(w))
    /\ m_idleThreadCount' = m_idleThreadCount + Up(pc'[w] \in InIdle) - Up(pc[w] \in InIdle)

LEMMA RecountFacts == ASSUME CountInv, NEW w \in Threads, Recounts(w) PROVE CountInv'
<1> DEFINE S == {v \in Threads : HasTask(v)}
           R == {v \in Threads : HasTask(v)'}
           I == {v \in Threads : pc[v] \in InIdle}
           J == {v \in Threads : pc'[v] \in InIdle}
<1>1. Counts(S, m_activeThreadCount) /\ Counts(I, m_idleThreadCount)
    BY DEF CountInv, CountsExact, Counts
<1>2. \A v \in Threads \ {w} : (HasTask(v)' <=> HasTask(v)) /\ (pc'[v] \in InIdle <=> pc[v] \in InIdle)
    BY DEF Recounts, HasTask
<1>3. (w \in R <=> HasTask(w)') /\ (w \in S <=> HasTask(w))
      /\ (w \in J <=> pc'[w] \in InIdle) /\ (w \in I <=> pc[w] \in InIdle)
    OBVIOUS
<1>4. (\A v : v # w => (v \in R <=> v \in S)) /\ (\A v : v # w => (v \in J <=> v \in I))
    BY <1>2
<1> HIDE DEF S, R, I, J
<1>5. Counts(R, m_activeThreadCount + Up(w \in R) - Up(w \in S))
    BY <1>1, <1>4, CountFacts
<1>6. Counts(J, m_idleThreadCount + Up(w \in J) - Up(w \in I))
    BY <1>1, <1>4, CountFacts
<1>7. Counts(R, m_activeThreadCount') /\ Counts(J, m_idleThreadCount')
    BY <1>3, <1>5, <1>6 DEF Recounts, Up
<1> QED
    BY <1>7 DEF Counts, CountInv, CountsExact, R, J

\* A worker that counts itself as before.
LEMMA SameCount ==
    ASSUME TypeInv, CountInv, UNCHANGED countVars, NEW w \in Threads,
           \A v \in Threads \ {w} : pc'[v] = pc[v] /\ ft'[v] = ft[v],
           HasTask(w)' <=> HasTask(w), pc'[w] \in InIdle <=> pc[w] \in InIdle
    PROVE  CountInv'
<1>1. m_activeThreadCount \in Int /\ m_idleThreadCount \in Int
    BY DEF TypeInv
<1>2. Recounts(w)
    BY <1>1 DEF Recounts, countVars, Up
<1> QED
    BY <1>2, RecountFacts

\* The controller.
LEMMA ControllerCount == ASSUME TypeInv, ControlInv, CountInv, Controller PROVE CountInv'
<1>1. UNCHANGED countVars
    BY DEF Controller, MainSchedules, Start, Stop, StopPoll1, StopPoll2, Join, countVars
<1>2. CASE Start
  <2>1. \A w \in Threads : /\ pc[w] \in {"none", "exit"} /\ pc'[w] = "pick"
    BY <1>2 DEF Start, ControlInv
  <2>2. \A w \in Threads : /\ ~HasTask(w) /\ ~HasTask(w)'
                           /\ pc[w] \notin InIdle /\ pc'[w] \notin InIdle
    BY <2>1 DEF HasTask, Counted, OnCpu, InIdle
  <2>3. {w \in Threads : HasTask(w)'} = {w \in Threads : HasTask(w)}
        /\ {w \in Threads : pc'[w] \in InIdle} = {w \in Threads : pc[w] \in InIdle}
    BY <2>2
  <2> QED
    BY <1>1, <2>3 DEF CountInv, CountsExact, countVars
<1>3. CASE UNCHANGED <<pc, ft>>
  <2>1. PICK w : w \in Threads
    BY SchedulerConstants
  <2>2. HasTask(w)' <=> HasTask(w)
    BY <1>3 DEF HasTask
  <2> QED
    BY <1>1, <1>3, <2>1, <2>2, SameCount
<1> QED
    BY <1>2, <1>3 DEF Controller, MainSchedules, Stop, StopPoll1, StopPoll2, Join

\* A worker.
LEMMA WorkerCount ==
    ASSUME TypeInv, LocalInv, StateInv, CountInv, NEW w \in Threads, Worker(w) PROVE CountInv'
<1>0. /\ pc \in [Threads -> Steps] /\ ft \in [Threads -> Entries]
      /\ m_activeThreadCount \in Int /\ m_idleThreadCount \in Int
    BY DEF TypeInv
<1>1. \A v \in Threads \ {w} : pc'[v] = pc[v] /\ ft'[v] = ft[v]
  <2>1. (\E p : pc' = [pc EXCEPT ![w] = p]) \/ UNCHANGED pc
    BY DEF Worker, ToRun, FromFiber, Idle, Pick, SwapInFiber, SwapInCb, RunIdle, YieldToHold,
           SwapOut, Decrement, Settle, Finish, IdlePoll1, IdlePoll2, IdleSchedule, IdleOut,
           IdleTake, YieldToReady, Register, TaskSchedules, Goto
  <2>2. (\E e : ft' = [ft EXCEPT ![w] = e]) \/ UNCHANGED ft
    BY DEF Worker, ToRun, FromFiber, Idle, Pick, SwapInFiber, SwapInCb, RunIdle, YieldToHold,
           SwapOut, Decrement, Settle, Finish, IdlePoll1, IdlePoll2, IdleSchedule, IdleOut,
           IdleTake, YieldToReady, Register, TaskSchedules
  <2> QED
    BY <1>0, <2>1, <2>2
<1>2. ASSUME NEW p, pc' = [pc EXCEPT ![w] = p] PROVE pc'[w] = p
    BY <1>0, <1>2
<1>3. CASE Pick(w)
  <2> DEFINE ok == {i \in 1 .. Len(m_fibers) : Takes(w, m_fibers[i])}
  <2>1. pc[w] = "pick" /\ pc'[w] = "dispatch" /\ UNCHANGED m_idleThreadCount /\ ft[w] = NoEntry
    BY <1>2, <1>3 DEF Pick, Goto, LocalInv, Resting
  <2>2. CASE ok = {}
    <3>1. UNCHANGED <<ft, m_activeThreadCount>>
        BY <1>3, <2>2 DEF Pick
    <3>2. ~HasTask(w)' /\ ~HasTask(w)
        BY <2>1, <3>1 DEF HasTask, Counted, OnCpu
    <3> QED
        BY <1>1, <2>1, <3>1, <3>2, SameCount DEF InIdle, countVars
  <2>3. CASE ok # {}
    <3>1. PICK i \in ok : /\ ft' = [ft EXCEPT ![w] = m_fibers[i]]
                          /\ m_activeThreadCount' = m_activeThreadCount + 1
        BY <1>3, <2>3 DEF Pick
    <3>2. ft'[w] = m_fibers[i] /\ m_fibers[i] \in Queued
        BY <1>0, <3>1 DEF Queued
    <3>3. ft'[w] # NoEntry
        BY <3>2, EntryFacts DEF LocalInv
    <3>4. HasTask(w)' /\ ~HasTask(w)
        BY <2>1, <3>3 DEF HasTask, Counted, OnCpu
    <3>5. pc[w] \notin InIdle /\ pc'[w] \notin InIdle
        BY <2>1 DEF InIdle
    <3>6. Recounts(w)
        BY <1>0, <1>1, <2>1, <3>1, <3>4, <3>5 DEF Recounts, Up
    <3> QED
        BY <3>6, RecountFacts
  <2> QED
    BY <2>2, <2>3
<1>4. CASE SwapInFiber(w)
  <2>1. pc[w] = "dispatch" /\ ft[w].fiber # None /\ UNCHANGED <<ft, countVars>>
        /\ (pc'[w] = "running" \/ UNCHANGED pc)
    BY <1>2, <1>4 DEF SwapInFiber, Goto
  <2>2. HasTask(w) /\ HasTask(w)'
    BY <2>1, EntryFacts DEF HasTask, Counted, OnCpu
  <2> QED
    BY <1>1, <2>1, <2>2, SameCount DEF InIdle
<1>5. CASE SwapInCb(w)
  <2>1. pc[w] = "dispatch" /\ ft[w].task # None /\ UNCHANGED countVars
        /\ (pc'[w] = "running" \/ UNCHANGED <<pc, ft>>)
    BY <1>2, <1>5 DEF SwapInCb, Goto
  <2>2. HasTask(w) /\ HasTask(w)'
    BY <2>1, EntryFacts DEF HasTask, Counted, OnCpu
  <2> QED
    BY <1>1, <2>1, <2>2, SameCount DEF InIdle
<1>6. CASE RunIdle(w)
  <2>1. pc[w] = "dispatch" /\ ft' = [ft EXCEPT ![w] = NoEntry] /\ UNCHANGED m_activeThreadCount
    BY <1>6 DEF RunIdle
  <2>2. ft[w] = NoEntry
    <3>1. SUFFICES ASSUME ft[w].fiber # None, m_state[ft[w].fiber] \in Ended PROVE FALSE
        BY <1>6 DEF RunIdle
    <3>2. Has(w, ft[w].fiber) /\ ft[w].fiber \in Fibers
        BY <2>1, <3>1, HasFacts DEF Leaving
    <3> QED
        BY <3>1, <3>2 DEF StateInv, StateOf, Unreachable
  <2>3. ~HasTask(w)
    BY <2>1, <2>2 DEF HasTask, Counted, OnCpu
  <2>4. CASE idleTerm[w]
    <3>1. pc'[w] = "exit" /\ UNCHANGED countVars
        BY <1>2, <1>6, <2>1, <2>4 DEF RunIdle, Goto, countVars
    <3>2. ~HasTask(w)'
        BY <3>1 DEF HasTask, Counted, OnCpu
    <3> QED
        BY <1>1, <2>1, <2>3, <3>1, <3>2, SameCount DEF InIdle
  <2>5. CASE ~idleTerm[w]
    <3>1. pc'[w] = "idle" /\ m_idleThreadCount' = m_idleThreadCount + 1
        BY <1>2, <1>6, <2>5 DEF RunIdle, Goto
    <3>2. ~HasTask(w)' /\ pc'[w] \in InIdle /\ pc[w] \notin InIdle
        BY <2>1, <3>1 DEF HasTask, Counted, OnCpu, InIdle
    <3>3. Recounts(w)
        BY <1>0, <1>1, <2>1, <2>3, <3>1, <3>2 DEF Recounts, Up
    <3> QED
        BY <3>3, RecountFacts
  <2> QED
    BY <2>4, <2>5
<1>7. CASE \/ YieldToHold(w) \/ SwapOut(w) \/ YieldToReady(w) \/ Register(w)
           \/ \E s \in Ended : Finish(w, s)
  <2>1. pc[w] \in Counted /\ UNCHANGED countVars
        /\ \E p \in {"swapout", "return", "parking"} : pc' = [pc EXCEPT ![w] = p]
    BY <1>7 DEF YieldToHold, SwapOut, YieldToReady, Register, Finish, Runs, Goto, Counted, OnCpu
  <2>2. pc'[w] \in Counted
    BY <1>2, <2>1 DEF Counted, OnCpu
  <2>3. HasTask(w) /\ HasTask(w)' /\ pc[w] \notin InIdle /\ pc'[w] \notin InIdle
    BY <2>1, <2>2 DEF HasTask, Counted, OnCpu, InIdle
  <2> QED
    BY <1>1, <2>1, <2>3, SameCount
<1>8. CASE Decrement(w)
  <2>1. /\ pc[w] = "return" /\ pc'[w] = "settle" /\ UNCHANGED m_idleThreadCount
        /\ m_activeThreadCount' = m_activeThreadCount - 1
    BY <1>2, <1>8 DEF Decrement, Goto
  <2>2. HasTask(w) /\ ~HasTask(w)' /\ pc[w] \notin InIdle /\ pc'[w] \notin InIdle
    BY <2>1 DEF HasTask, Counted, OnCpu, InIdle
  <2>3. Recounts(w)
    BY <1>0, <1>1, <2>1, <2>2 DEF Recounts, Up
  <2> QED
    BY <2>3, RecountFacts
<1>9. CASE Settle(w)
  <2>1. pc[w] = "settle" /\ pc'[w] = "pick" /\ UNCHANGED countVars
    BY <1>2, <1>9 DEF Settle, Goto
  <2>2. ~HasTask(w) /\ ~HasTask(w)'
    BY <2>1 DEF HasTask, Counted, OnCpu
  <2> QED
    BY <1>1, <2>1, <2>2, SameCount DEF InIdle
<1>10. CASE IdlePoll1(w) \/ IdlePoll2(w) \/ IdleSchedule(w) \/ \E f \in Fibers : IdleTake(w, f)
  <2>1. pc[w] \in InIdle /\ UNCHANGED countVars
        /\ \E p \in {"idle2", "idleout", "epoll", "wake"} : pc' = [pc EXCEPT ![w] = p]
    BY <1>10 DEF IdlePoll1, IdlePoll2, IdleSchedule, IdleTake, Goto, InIdle
  <2>2. pc'[w] \in InIdle
    BY <1>2, <2>1 DEF InIdle
  <2>3. ~HasTask(w) /\ ~HasTask(w)'
    BY <2>1, <2>2 DEF HasTask, Counted, OnCpu, InIdle
  <2> QED
    BY <1>1, <2>1, <2>2, <2>3, SameCount
<1>11. CASE IdleOut(w)
  <2>1. /\ pc[w] \in {"epoll", "idleout"} /\ pc'[w] = "pick" /\ UNCHANGED m_activeThreadCount
        /\ m_idleThreadCount' = m_idleThreadCount - 1
    BY <1>2, <1>11 DEF IdleOut, Goto
  <2>2. ~HasTask(w) /\ ~HasTask(w)' /\ pc[w] \in InIdle /\ pc'[w] \notin InIdle
    BY <2>1 DEF HasTask, Counted, OnCpu, InIdle
  <2>3. Recounts(w)
    BY <1>0, <1>1, <2>1, <2>2 DEF Recounts, Up
  <2> QED
    BY <2>3, RecountFacts
<1>12. CASE \E t \in Cbs, p \in {None} \cup Pins : TaskSchedules(w, t, p)
  <2>1. UNCHANGED <<countVars, pc, ft>>
    BY <1>12 DEF TaskSchedules
  <2> QED
    BY <1>1, <2>1, SameCount DEF HasTask
<1> QED
    BY <1>3, <1>4, <1>5, <1>6, <1>7, <1>8, <1>9, <1>10, <1>11, <1>12 DEF Worker, ToRun, FromFiber, Idle

-----------------------------------------------------------------------------
(* The thread counts are exact and no task is lost. *)

\* The initial state.
LEMMA InitInv == ASSUME Init PROVE IInv
<1>0. /\ None \notin Fibers /\ UserFibers \subseteq Fibers /\ UserFibers \subseteq Tasks
      /\ NoEntry \in Entries /\ NoEntry.fiber = None
    BY SchedulerConstants, EntryFacts DEF Fibers, Tasks
<1>1. /\ \A w \in Threads : pc[w] = "none" /\ ft[w] = NoEntry /\ cb_fiber[w] = None /\ ~idleTerm[w]
      /\ \A f \in Fibers : /\ m_state[f] \in {"INIT", "FREE"} /\ (f \in UserFibers => m_state[f] = "INIT" /\ job[f] = f)
      /\ \A t \in Tasks : given[t] = 0
      /\ waiting = {} /\ m_activeThreadCount = 0 /\ m_idleThreadCount = 0 /\ m_fibers = <<>>
    BY DEF Init
<1>2. Queued = {} /\ QueueOnce
    BY <1>1 DEF Queued, QueueOnce
<1>3. TypeInv
  <2>1. m_fibers \in Seq(Entries) /\ m_activeThreadCount \in Int /\ m_idleThreadCount \in Int
        /\ waiting \in SUBSET Fibers
    BY <1>1
  <2>2. m_state \in [Fibers -> States]
    BY DEF Init, States
  <2>3. job \in [Fibers -> Tasks \cup {None}]
    BY <1>0 DEF Init
  <2>4. pc \in [Threads -> Steps] /\ ft \in [Threads -> Entries]
    BY <1>0 DEF Init, Steps
  <2>5. cb_fiber \in [Threads -> PoolFibers \cup {None}] /\ idleTerm \in [Threads -> BOOLEAN]
    BY DEF Init
  <2>6. given \in [Tasks -> Nat]
    BY DEF Init
  <2> QED
    BY <2>1, <2>2, <2>3, <2>4, <2>5, <2>6 DEF TypeInv
<1>4. ControlInv
    BY <1>1 DEF ControlInv
<1>5. LocalInv
    BY <1>1, <1>2 DEF LocalInv, Resting, Leaving
<1>6. \A w \in Threads, f \in Fibers : ~Has(w, f) /\ ~Leaves(w, f) /\ ~Refers(w, f)
    BY <1>0, <1>1 DEF Has, Leaves, Refers, Leaving
<1>7. \A f \in Fibers : Unused(f)
    BY <1>1, <1>2, <1>6 DEF Unused, Unreachable, InQ
<1>8. OneRef
    BY <1>2, <1>7 DEF OneRef, One, Unused, Unreachable
<1>9. StateInv
  <2>1. \A f \in Fibers : StateOf(f)
    BY <1>1, <1>7 DEF StateOf, Unused
  <2>2. \A w \in Threads : SpareState(w) /\ ExecState(w) /\ pc[w] \notin OnCpu
    BY <1>1 DEF SpareState, Spare, ExecState, OnCpu
  <2> QED
    BY <2>1, <2>2 DEF StateInv
<1>10. PlaceInv
  <2>1. \A f \in Fibers : FiberPlace(f)
    BY <1>1 DEF FiberPlace
  <2>2. \A w \in Threads : WorkerPlace(w)
    BY <1>0, <1>1 DEF WorkerPlace, Leaving
  <2> QED
    BY <1>2, <2>1, <2>2 DEF PlaceInv, QueuePlace
<1>11. CountInv
  <2>1. \A w \in Threads : ~HasTask(w) /\ pc[w] \notin InIdle
    BY <1>1 DEF HasTask, Counted, OnCpu, InIdle
  <2>2. {w \in Threads : HasTask(w)} = {} /\ {w \in Threads : pc[w] \in InIdle} = {}
    BY <2>1
  <2> QED
    BY <1>1, <2>2, FS_EmptySet DEF CountInv, CountsExact
<1>12. NoTaskLost
    BY <1>1 DEF NoTaskLost
<1> QED
    BY <1>3, <1>4, <1>5, <1>8, <1>9, <1>10, <1>11, <1>12 DEF IInv

\* Every step keeps the invariant.
LEMMA NextInv == ASSUME MaxSchedule <= 1, IInv, [Next]_vars PROVE IInv'
<1>1. CASE UNCHANGED vars
  <2>1. /\ UNCHANGED <<m_fibers, m_state, job, m_activeThreadCount, m_idleThreadCount, pc, ft,
                       cb_fiber, idleTerm, waiting, given, done, fault, ctl>>
    BY <1>1 DEF vars, countVars, flagVars, taskVars
  <2>2. TypeInv' /\ ControlInv' /\ CountInv'
    BY <2>1 DEF IInv, TypeInv, ControlInv, CountInv, CountsExact, HasTask
  <2>3. NoTaskLost'
    BY <2>1 DEF IInv, NoTaskLost, Located, Cur
  <2>4. LocalInv => LocalInv'
    BY <2>1 DEF LocalInv, Queued, Cur
  <2>5. ASSUME fault = "none" PROVE OneRef' /\ StateInv' /\ PlaceInv'
    <3>1. AnyStep /\ TypeInv /\ LocalInv /\ OneRef /\ StateInv /\ PlaceInv
        BY <1>1, <2>5, NextSteps DEF IInv
    <3>2. fault' = "none"
        BY <2>1, <2>5
    <3> QED
        BY <3>1, <3>2, NextOneRef, NextPlace
  <2> QED
    BY <2>1, <2>2, <2>3, <2>4, <2>5 DEF IInv
<1>2. CASE Next
  <2>1. /\ fault = "none" /\ TypeInv /\ ControlInv /\ CountInv /\ LocalInv /\ OneRef /\ StateInv
        /\ PlaceInv /\ NoTaskLost
    BY <1>2 DEF Next, IInv
  <2>2. AnyStep
    BY <2>1, NextSteps
  <2>3. TypeInv' /\ ControlInv'
    BY <2>1, <2>2, NextType, NextControl
  <2>4. CountInv'
    BY <1>2, <2>1, ControllerCount, WorkerCount DEF Next
  <2>5. LocalInv' /\ NoTaskLost'
    BY <2>1, <2>2, NextLocal, NextLost
  <2>6. fault' = "none" => OneRef' /\ StateInv' /\ PlaceInv'
    BY <2>1, <2>2, NextOneRef, NextPlace
  <2> QED
    BY <2>3, <2>4, <2>5, <2>6 DEF IInv
<1> QED
    BY <1>1, <1>2

\* When a Fiber object is given to schedule() once, the invariant holds always.
THEOREM SchedulerInv == ASSUME MaxSchedule <= 1 PROVE Spec => []IInv
<1>1. Init => IInv
    BY InitInv
<1>2. IInv /\ [Next]_vars => IInv'
    BY NextInv
<1> QED
    BY <1>1, <1>2, PTL DEF Spec

\* m_activeThreadCount counts the workers that have a task, and m_idleThreadCount those in
\* the idle fiber (scheduler.cpp run()), even after a fiber was run by two workers.
THEOREM CountsCorrect == ASSUME MaxSchedule <= 1 PROVE Spec => []CountsExact
<1>1. IInv => CountsExact
    BY DEF IInv, CountInv
<1> QED
    BY <1>1, SchedulerInv, PTL

\* A task that was scheduled and has not ended is in the queue, with a worker, or in a fiber
\* that waits: run(), the yields and the waking of fibers drop none.
THEOREM TasksCorrect == ASSUME MaxSchedule <= 1 PROVE Spec => []NoTaskLost
<1>1. IInv => NoTaskLost
    BY DEF IInv
<1> QED
    BY <1>1, SchedulerInv, PTL

-----------------------------------------------------------------------------
(* A fiber executes on one thread at a time, if no task waits. *)

\* A fiber that somebody can run is left by nobody, and one that w leaves by nobody else.
LEMMA TurnFree ==
    ASSUME TurnInv, NEW f \in Fibers, NEW w \in Threads, ~Unreachable(f) \/ Leaves(w, f)
    PROVE  \A v \in Threads \ {w} : ~Leaves(v, f)
BY DEF TurnInv, Turn

\* What is left to show of a step.
LEMMA TurnKept ==
    ASSUME TurnInv, NEW w \in Threads, NEW f, Effect(w, f), f \in Fibers => Turn(f)'
    PROVE  \A h \in Fibers : Turn(h)'
<1>1. ASSUME NEW h \in Fibers, h # f PROVE Turn(h)'
  <2>1. Keeps(h) /\ Turn(h)
    BY <1>1 DEF Effect, TurnInv
  <2>2. Unreachable(h) => Unreachable(h)'
    BY <2>1 DEF Keeps, Shrinks, Unreachable
  <2> QED
    BY <2>1, <2>2 DEF Keeps, Turn
<1> QED
    BY <1>1

\* The same, of a step in which w leaves no fiber.
LEMMA TurnLeft ==
    ASSUME TurnInv, NEW w \in Threads, NEW f, Effect(w, f), pc'[w] \notin Leaving,
           f \in Fibers => \A v \in Threads \ {w} : ~Leaves(v, f)
    PROVE  \A h \in Fibers : Turn(h)'
<1>1. ASSUME f \in Fibers PROVE \A v \in Threads : ~Leaves(v, f)'
  <2>1. ~Leaves(w, f)'
    BY DEF Leaves
  <2>2. ASSUME NEW v \in Threads \ {w} PROVE ~Leaves(v, f)'
    <3>1. ~Leaves(v, f) /\ pc'[v] = pc[v] /\ ft'[v] = ft[v] /\ cb_fiber'[v] = cb_fiber[v]
        BY <1>1, <2>2 DEF Effect
    <3> QED
        BY <3>1 DEF Leaves, Cur
  <2> QED
    BY <2>1, <2>2
<1>2. f \in Fibers => Turn(f)'
    BY <1>1 DEF Turn
<1> QED
    BY <1>2, TurnKept

\* Nothing fails.
LEMMA NextFault ==
    ASSUME TypeInv, LocalInv, OneRef, StateInv, PlaceInv, TurnInv, AnyStep PROVE fault' = "none"
<1>0. None \notin Fibers
    BY SchedulerConstants DEF Fibers
<1>1. ASSUME NEW w \in Threads, NEW f \in Fibers, Has(w, f) PROVE \A v \in Threads : ~Leaves(v, f)
    BY <1>1 DEF TurnInv, Turn, Unreachable
<1>2. CASE Fails
  <2>1. PICK w \in Threads : pc[w] = "dispatch" /\ ft[w].fiber \in Fibers /\ m_state[ft[w].fiber] = "EXEC"
    BY <1>2 DEF Fails
  <2>2. PICK f \in Fibers : f = ft[w].fiber
    BY <2>1
  <2>3. PICK v \in Threads : pc[v] = "running" /\ Cur(v) = f
    BY <2>1, <2>2 DEF PlaceInv, FiberPlace, TurnInv
  <2>4. Has(w, f) /\ Has(v, f)
    BY <1>0, <2>1, <2>2, <2>3, HasFacts DEF Leaving
  <2> QED
    BY <2>1, <2>3, <2>4 DEF OneRef, One
<1>3. ASSUME NEW w \in Threads, NEW f \in Fibers, SwapsIn(w, f) PROVE fault' = "none"
  <2>1. Has(w, f)
    BY <1>0, <1>3 DEF SwapsIn, Has, Leaving
  <2>2. ASSUME NEW v \in Threads \ {w}, pc[v] \in OnCpu, Cur(v) = f PROVE FALSE
    BY <1>1, <2>1, <2>2, OnCpuFacts DEF OneRef, One
  <2> QED
    BY <1>3, <2>2 DEF SwapsIn
<1>4. ASSUME NEW w \in Threads, NEW f \in Fibers, pc[w] = "settle", Cur(w) = f PROVE ~Contended(w, f)
  <2>1. SUFFICES ASSUME NEW v \in Threads \ {w}, pc[v] \in HasFiber, Cur(v) = f PROVE FALSE
    BY DEF Contended
  <2>2. Leaves(w, f)
    BY <1>4 DEF Leaves, Leaving
  <2>3. Unreachable(f) /\ ~Leaves(v, f)
    BY <2>1, <2>2 DEF TurnInv, Turn
  <2>4. Has(v, f) \/ Leaves(v, f)
    BY <1>0, <2>1 DEF Has, Leaves, Cur, HasFiber, OnCpu, Leaving
  <2> QED
    BY <2>3, <2>4 DEF Unreachable
<1>5. ASSUME NEW w \in Threads, WorkerStep(w) PROVE fault' = "none"
  <2>1. UNCHANGED fault => fault' = "none"
    BY DEF TurnInv
  <2> QED
    BY <1>3, <1>4, <1>5, <2>1
    DEF WorkerStep, Picks, SwapsInCb, Exits, Readies, Registers, Parks, Finishes, SettlesReady,
        SettlesHeld, SettlesEnded, WakeTakes, WakeAdds
<1> QED
    BY <1>2, <1>5 DEF AnyStep, Quiet, Submits, TurnInv

\* All steps.
LEMMA NextTurn ==
    ASSUME MaxSchedule <= 1, MayHold = FALSE,
           TypeInv, LocalInv, OneRef, StateInv, PlaceInv, TurnInv, AnyStep
    PROVE  TurnInv'
<1>0. None \notin Fibers
    BY SchedulerConstants DEF Fibers
<1>1. fault' = "none" /\ fault = "none" /\ waiting = {}
    BY NextFault DEF TurnInv
<1>2. ASSUME NEW w \in Threads, NEW f \in Fibers PROVE ~Registers(w, f) /\ ~Parks(w, f) /\ ~WakeTakes(w, f)
    BY <1>1, <1>2 DEF Registers, Parks, WakeTakes, TurnInv
<1>3. waiting' = {}
    BY <1>1, <1>2
    DEF AnyStep, WorkerStep, Quiet, Fails, Submits, Picks, SwapsIn, SwapsInCb, Exits, Readies,
        Finishes, SettlesReady, SettlesHeld, SettlesEnded, WakeAdds
<1>4. \A v \in Threads : pc'[v] # "parking"
  <2>1. ASSUME NEW w \in Threads, NEW p \in {"dispatch", "running", "exit", "swapout", "pick", "epoll"},
               NEW e, NEW g, Moves(w, p, e, g)
        PROVE  \A v \in Threads : pc'[v] # "parking"
    BY <2>1 DEF Moves, TurnInv
  <2>2. UNCHANGED pc \/ Quiet => \A v \in Threads : pc'[v] # "parking"
    BY DEF TurnInv, Quiet, Resting
  <2> QED
    BY <1>2, <2>1, <2>2
    DEF AnyStep, WorkerStep, Fails, Submits, Picks, SwapsIn, SwapsInCb, Exits, Readies,
        Finishes, SettlesReady, SettlesHeld, SettlesEnded, WakeAdds
<1>5. CASE Quiet
  <2>1. UNCHANGED <<m_fibers, ft, cb_fiber, waiting>>
    BY <1>5 DEF Quiet
  <2>2. ASSUME NEW w \in Threads PROVE pc'[w] \in Leaving <=> pc[w] \in Leaving
    BY <1>5, <2>2 DEF Quiet, Leaving, Resting
  <2>3. \A h \in Fibers, w \in Threads : (Has(w, h)' <=> Has(w, h)) /\ (Leaves(w, h)' <=> Leaves(w, h))
    BY <2>1, <2>2 DEF Has, Leaves, Cur
  <2>4. \A h \in Fibers : Unreachable(h)' <=> Unreachable(h)
    BY <2>1, <2>3, SameQueue DEF Unreachable
  <2>5. \A h \in Fibers : Turn(h)'
    BY <2>3, <2>4 DEF TurnInv, Turn
  <2> QED
    BY <1>1, <1>3, <1>4, <2>5 DEF TurnInv
<1>6. ASSUME NEW t \in Tasks, NEW p \in Threads \cup {None}, Submits(t, p) PROVE \A h \in Fibers : Turn(h)'
  <2>1. PICK w \in Threads : Effect(w, IF t \in Cbs THEN None ELSE t)
    BY <1>6, SubmitsInv
  <2>2. PICK f : f = IF t \in Cbs THEN None ELSE t
    OBVIOUS
  <2>3. ASSUME f \in Fibers PROVE Turn(f)'
    <3>1. t = f /\ t \in UserFibers /\ given[t] \in Nat /\ MaxSchedule \in Nat /\ given[t] < MaxSchedule
        BY <1>0, <1>6, <2>2, <2>3, SchedulerConstants DEF Tasks, TypeInv, Submits
    <3>2. given[f] <= 0
        BY <3>1
    <3>3. Unused(f)
        BY <2>3, <3>1, <3>2 DEF StateInv, StateOf
    <3>4. \A v \in Threads : ~Leaves(v, f)'
        BY <1>6, <3>3 DEF Unused, Submits, Leaves, Cur
    <3> QED
        BY <3>4 DEF Turn
  <2> QED
    BY <2>1, <2>2, <2>3, TurnKept
<1>7. ASSUME NEW w \in Threads, WorkerStep(w) PROVE \A h \in Fibers : Turn(h)'
  <2>0. ASSUME NEW p \in {"dispatch", "running", "exit", "pick", "epoll"}, NEW e, NEW g, Moves(w, p, e, g)
        PROVE  pc'[w] \notin Leaving
    BY <2>0 DEF Moves, Leaving
  <2>1. ASSUME NEW e \in Entries, Picks(w, e) PROVE \A h \in Fibers : Turn(h)'
    <3>1. PICK f : f = e.fiber
        OBVIOUS
    <3>2. Effect(w, f) /\ pc'[w] \notin Leaving
        BY <2>0, <2>1, <3>1, PicksInv DEF Picks
    <3>3. f \in Fibers => ~Unreachable(f)
        BY <2>1, <3>1 DEF Picks, Erases, Unreachable, InQ
    <3> QED
        BY <3>2, <3>3, TurnFree, TurnLeft
  <2>2. ASSUME NEW f \in Fibers, SwapsIn(w, f) PROVE \A h \in Fibers : Turn(h)'
    <3>1. Effect(w, f) /\ pc'[w] \notin Leaving
        BY <1>1, <2>0, <2>2, SwapsInInv DEF SwapsIn
    <3>2. ~Unreachable(f)
        BY <1>0, <2>2 DEF SwapsIn, Unreachable, Has, Leaving
    <3> QED
        BY <3>1, <3>2, TurnFree, TurnLeft
  <2>3. ASSUME NEW f \in Fibers, NEW s \in States, Readies(w, f) \/ Finishes(w, f, s)
        PROVE  \A h \in Fibers : Turn(h)'
    <3>1. Effect(w, f) /\ Unreachable(f)'
        BY <2>3, LeavesInv
    <3>2. Has(w, f)
        BY <2>3, HasFacts DEF Readies, Finishes
    <3>3. \A v \in Threads : ~Leaves(v, f)
        BY <3>2 DEF TurnInv, Turn, Unreachable
    <3>4. \A v \in Threads \ {w} : ~Leaves(v, f)'
        BY <3>1, <3>3 DEF Effect, Leaves, Cur
    <3>5. Turn(f)'
        BY <3>1, <3>4 DEF Turn
    <3> QED
        BY <3>1, <3>5, TurnKept
  <2>4. ASSUME NEW f \in Fibers, NEW s \in States, NEW c \in Tasks \cup {None},
               SettlesReady(w, f) \/ SettlesHeld(w, f) \/ SettlesEnded(w, f, s, c)
        PROVE  \A h \in Fibers : Turn(h)'
    <3>1. Effect(w, f)
        BY <1>1, <2>4, SettlesReadyInv, SettlesHeldInv, SettlesEndedInv
    <3>2. pc'[w] \notin Leaving
        BY <2>0, <2>4 DEF SettlesReady, SettlesHeld, SettlesEnded
    <3>3. Leaves(w, f)
        BY <2>4 DEF SettlesReady, SettlesHeld, SettlesEnded, Leaves, Leaving
    <3> QED
        BY <3>1, <3>2, <3>3, TurnFree, TurnLeft
  <2>5. ASSUME NEW g \in PoolFibers, NEW c \in Tasks, SwapsInCb(w, c, g) PROVE \A h \in Fibers : Turn(h)'
    <3>1. Effect(w, g) /\ pc'[w] \notin Leaving /\ g \in Fibers
        BY <2>0, <2>5, SwapsInCbInv DEF SwapsInCb, Fibers
    <3>2. CASE g = cb_fiber[w]
      <4>1. ~Unreachable(g)
        BY <1>0, <2>5, <3>1, <3>2 DEF SwapsInCb, Unreachable, Has, Leaving
      <4> QED
        BY <3>1, <4>1, TurnFree, TurnLeft
    <3>3. CASE m_state[g] = "FREE"
      <4>1. Unused(g)
        BY <3>1, <3>3 DEF StateInv, StateOf
      <4> QED
        BY <3>1, <4>1, TurnLeft DEF Unused
    <3> QED
        BY <2>5, <3>2, <3>3 DEF SwapsInCb
  <2>6. CASE Exits(w)
    <3>1. PICK f : f = cb_fiber[w]
        OBVIOUS
    <3>2. Effect(w, f) /\ pc'[w] \notin Leaving
        BY <2>0, <2>6, <3>1, ExitsInv DEF Exits
    <3>3. f \in Fibers => ~Unreachable(f)
        BY <1>0, <2>6, <3>1 DEF Exits, Unreachable, Has, Leaving
    <3> QED
        BY <3>2, <3>3, TurnFree, TurnLeft
  <2>7. CASE WakeAdds(w)
    <3>1. PICK f : f = ft[w].fiber
        OBVIOUS
    <3>2. Effect(w, f) /\ pc'[w] \notin Leaving
        BY <2>0, <2>7, <3>1, WakeAddsInv DEF WakeAdds
    <3>3. f \in Fibers => ~Unreachable(f)
        BY <1>0, <2>7, <3>1 DEF WakeAdds, Unreachable, Has, Leaving
    <3> QED
        BY <3>2, <3>3, TurnFree, TurnLeft
  <2> QED
    BY <1>2, <1>7, <2>1, <2>2, <2>3, <2>4, <2>5, <2>6, <2>7, StepFacts DEF WorkerStep
<1>8. CASE Fails
    BY <1>1, <1>8 DEF Fails
<1> QED
    BY <1>1, <1>3, <1>4, <1>5, <1>6, <1>7, <1>8 DEF AnyStep, TurnInv

\* If no task waits, no fiber is run by two workers and no assertion fails.
THEOREM TurnsCorrect == ASSUME MaxSchedule <= 1, MayHold = FALSE PROVE Spec => [](IInv /\ TurnInv)
<1>1. Init => IInv /\ TurnInv
  <2>1. ASSUME Init PROVE TurnInv
    <3>1. /\ waiting = {} /\ fault = "none" /\ \A w \in Threads : pc[w] = "none"
        BY <2>1 DEF Init
    <3> QED
        BY <3>1 DEF TurnInv, Turn, Leaves, Leaving
  <2> QED
    BY <2>1, InitInv
<1>2. IInv /\ TurnInv /\ [Next]_vars => (IInv /\ TurnInv)'
  <2>1. SUFFICES ASSUME IInv, TurnInv, [Next]_vars PROVE IInv' /\ TurnInv'
    OBVIOUS
  <2>2. fault = "none" /\ TypeInv /\ ControlInv /\ LocalInv /\ OneRef /\ StateInv /\ PlaceInv
    BY <2>1 DEF IInv, TurnInv
  <2>3. AnyStep
    BY <2>1, <2>2, NextSteps
  <2> QED
    BY <2>1, <2>2, <2>3, NextInv, NextTurn
<1> QED
    BY <1>1, <1>2, PTL DEF Spec

\* Fiber::swapIn is entered by one worker at a time: run() never takes a fiber that has not
\* finished leaving the worker it ran on, as long as nobody calls YieldToHold().
THEOREM OneThreadCorrect ==
    ASSUME MaxSchedule <= 1, MayHold = FALSE PROVE Spec => []FiberOnOneThread
<1>1. IInv /\ TurnInv => FiberOnOneThread
    BY DEF IInv, TurnInv, StateInv, FiberOnOneThread
<1> QED
    BY <1>1, TurnsCorrect, PTL

-----------------------------------------------------------------------------
(* stop() drains the queue, if no task waits and none is pinned. *)

\* What a step of worker w may do to the flags: it ends its idle fiber only when stop() has been
\* called, and leaves run() only when its idle fiber has ended.
Heeds(w) ==
    /\ pc[w] \notin {"none", "exit"} /\ UNCHANGED <<ctl, m_stopping>>
    /\ \A v \in Threads : v # w => pc'[v] = pc[v] /\ ft'[v] = ft[v] /\ idleTerm'[v] = idleTerm[v]
    /\ idleTerm'[w] => idleTerm[w] \/ m_stopping
    /\ pc'[w] = "exit" => idleTerm[w]
\* Worker w looked at the queue and found nothing to take.
FindsNone(w) == UNCHANGED m_fibers /\ \A e \in Queued : ~Takes(w, e)

LEMMA HeedsFacts == ASSUME TypeInv, NEW w \in Threads, Worker(w) PROVE Heeds(w)
<1>1. pc \in [Threads -> Steps] /\ ft \in [Threads -> Entries] /\ idleTerm \in [Threads -> BOOLEAN]
    BY DEF TypeInv
<1>2. pc[w] \notin {"none", "exit"}
    BY DEF Worker, ToRun, FromFiber, Idle, Pick, SwapInFiber, SwapInCb, RunIdle, YieldToHold,
           SwapOut, Decrement, Settle, Finish, IdlePoll1, IdlePoll2, IdleSchedule, IdleOut,
           IdleTake, YieldToReady, Register, TaskSchedules, Runs
<1>3. UNCHANGED <<ctl, m_stopping>>
    BY DEF Worker, ToRun, FromFiber, Idle, Pick, SwapInFiber, SwapInCb, RunIdle, YieldToHold,
           SwapOut, Decrement, Settle, Finish, IdlePoll1, IdlePoll2, IdleSchedule, IdleOut,
           IdleTake, YieldToReady, Register, TaskSchedules, flagVars
<1>4. UNCHANGED ft \/ \E e : ft' = [ft EXCEPT ![w] = e]
    BY DEF Worker, ToRun, FromFiber, Idle, Pick, SwapInFiber, SwapInCb, RunIdle, YieldToHold,
           SwapOut, Decrement, Settle, Finish, IdlePoll1, IdlePoll2, IdleSchedule, IdleOut,
           IdleTake, YieldToReady, Register, TaskSchedules
<1>5. UNCHANGED idleTerm \/ (idleTerm' = [idleTerm EXCEPT ![w] = Stopping2(w)])
    BY DEF Worker, ToRun, FromFiber, Idle, Pick, SwapInFiber, SwapInCb, RunIdle, YieldToHold,
           SwapOut, Decrement, Settle, Finish, IdlePoll1, IdlePoll2, IdleSchedule, IdleOut,
           IdleTake, YieldToReady, Register, TaskSchedules
<1>6. UNCHANGED pc \/ (\E p \in Steps \ {"exit"} : pc' = [pc EXCEPT ![w] = p])
        \/ (idleTerm[w] /\ pc' = [pc EXCEPT ![w] = "exit"])
  <2>1. CASE RunIdle(w)
    BY <2>1, StepFacts DEF RunIdle, Goto
  <2>2. CASE IdlePoll2(w)
    BY <2>2, StepFacts DEF IdlePoll2, Goto
  <2>3. CASE Pick(w) \/ SwapInFiber(w) \/ SwapInCb(w) \/ FromFiber(w)
    BY <2>3, StepFacts DEF FromFiber, Pick, SwapInFiber, SwapInCb, YieldToHold, SwapOut,
       Decrement, Settle, Finish, Goto
  <2>4. CASE Worker(w) /\ ~ToRun(w) /\ ~FromFiber(w) /\ ~IdlePoll2(w)
    BY <2>4, StepFacts DEF Worker, Idle, IdlePoll1, IdleSchedule, IdleOut, IdleTake, YieldToReady,
       Register, TaskSchedules, Goto
  <2> QED
    BY <2>1, <2>2, <2>3, <2>4 DEF ToRun
<1>7. \A v \in Threads : v # w => pc'[v] = pc[v]
    BY <1>1, <1>6
<1>8. \A v \in Threads : v # w => ft'[v] = ft[v]
    BY <1>1, <1>4
<1>9. \A v \in Threads : v # w => idleTerm'[v] = idleTerm[v]
    BY <1>1, <1>5
<1>10. idleTerm'[w] => idleTerm[w] \/ m_stopping
    BY <1>1, <1>5 DEF Stopping2
<1>11. pc'[w] = "exit" => idleTerm[w]
    BY <1>1, <1>2, <1>6
<1> QED
    BY <1>2, <1>3, <1>7, <1>8, <1>9, <1>10, <1>11 DEF Heeds

\* A worker is done because it was, or because it found nothing to take.
LEMMA DoneFacts ==
    ASSUME TypeInv, LocalInv, StateInv, NEW w \in Threads, Worker(w), Done(w)'
    PROVE  (Done(w) /\ UNCHANGED m_fibers) \/ FindsNone(w)
<1>1. pc \in [Threads -> Steps] /\ ft \in [Threads -> Entries]
    BY DEF TypeInv
<1>2. CASE Pick(w)
  <2> DEFINE ok == {i \in 1 .. Len(m_fibers) : Takes(w, m_fibers[i])}
  <2>1. CASE ok = {}
    <3>1. UNCHANGED m_fibers /\ \A i \in 1 .. Len(m_fibers) : ~Takes(w, m_fibers[i])
        BY <1>2, <2>1 DEF Pick
    <3> QED
        BY <3>1 DEF FindsNone, Queued
  <2>2. CASE ok # {}
    <3>1. PICK i \in 1 .. Len(m_fibers) : ft' = [ft EXCEPT ![w] = m_fibers[i]]
        BY <1>2, <2>2 DEF Pick
    <3>2. ft'[w] = m_fibers[i] /\ m_fibers[i] \in Queued
        BY <1>1, <3>1 DEF Queued
    <3>3. ft'[w] # NoEntry
        BY <3>2, EntryFacts DEF LocalInv
    <3>4. pc'[w] = "dispatch"
        BY <1>1, <1>2 DEF Pick, Goto
    <3> QED
        BY <3>3, <3>4 DEF Done
  <2> QED
    BY <2>1, <2>2
<1>3. CASE RunIdle(w)
  <2>1. pc[w] = "dispatch" /\ UNCHANGED <<m_fibers, idleTerm>>
    BY <1>3 DEF RunIdle
  <2>2. ft[w] = NoEntry
    <3>1. SUFFICES ASSUME ft[w].fiber # None, m_state[ft[w].fiber] \in Ended PROVE FALSE
        BY <1>3 DEF RunIdle
    <3>2. Has(w, ft[w].fiber)
        BY <2>1, <3>1 DEF Has, Leaving
    <3>3. ft[w].fiber \in Fibers
        BY <1>1, <3>1, EntryFacts
    <3> QED
        BY <3>1, <3>2, <3>3 DEF StateInv, StateOf, Unreachable
  <2>3. idleTerm[w]
    <3>1. SUFFICES ASSUME ~idleTerm[w] PROVE FALSE
        OBVIOUS
    <3>2. pc'[w] = "idle"
        BY <1>1, <1>3, <3>1 DEF RunIdle, Goto
    <3> QED
        BY <3>2 DEF Done
  <2> QED
    BY <2>1, <2>2, <2>3 DEF Done
<1>4. CASE SwapInFiber(w) \/ SwapInCb(w)
  <2>1. pc[w] = "dispatch" /\ ft[w] # NoEntry
    BY <1>4, EntryFacts DEF SwapInFiber, SwapInCb
  <2>2. pc' = [pc EXCEPT ![w] = "running"] \/ UNCHANGED <<pc, ft>>
    BY <1>4 DEF SwapInFiber, SwapInCb, Goto
  <2> QED
    BY <1>1, <2>1, <2>2 DEF Done
<1>5. CASE Worker(w) /\ ~ToRun(w)
  <2>1. \/ UNCHANGED pc /\ pc[w] = "running"
        \/ \E p \in Steps \ {"exit", "dispatch"} : pc' = [pc EXCEPT ![w] = p]
    <3>1. CASE IdlePoll2(w)
        BY <3>1, StepFacts DEF IdlePoll2, Goto
    <3>2. CASE FromFiber(w)
        BY <3>2, StepFacts DEF FromFiber, YieldToHold, SwapOut, Decrement, Settle, Finish, Goto
    <3>3. CASE Worker(w) /\ ~ToRun(w) /\ ~FromFiber(w) /\ ~IdlePoll2(w)
        BY <3>3, StepFacts DEF Worker, Idle, IdlePoll1, IdleSchedule, IdleOut, IdleTake,
           YieldToReady, Register, TaskSchedules, Goto, Runs
    <3> QED
        BY <1>5, <3>1, <3>2, <3>3
  <2>2. pc'[w] \notin {"exit", "dispatch"}
    BY <1>1, <2>1
  <2> QED
    BY <2>2 DEF Done
<1> QED
    BY <1>2, <1>3, <1>4, <1>5 DEF ToRun


\* The flags of start() and stop().
LEMMA NextFlags == ASSUME TypeInv, ControlInv, FlagInv, [Next]_vars PROVE FlagInv'
<1>1. CASE Start
    BY <1>1 DEF Start, FlagInv
<1>2. CASE Stop \/ StopPoll1 \/ StopPoll2
    BY <1>2 DEF Stop, StopPoll1, StopPoll2, FlagInv
<1>3. CASE Join
    BY <1>3 DEF Join, FlagInv
<1>4. ASSUME UNCHANGED <<ctl, m_stopping, pc, idleTerm>> PROVE FlagInv'
    BY <1>4 DEF FlagInv
<1>5. ASSUME NEW w \in Threads, Worker(w) PROVE FlagInv'
  <2>1. Heeds(w)
    BY <1>5, HeedsFacts
  <2>2. ctl # "stopped" /\ ctl # "new"
    BY <2>1 DEF Heeds, ControlInv
  <2>3. CASE ctl = "started"
    <3>1. ~m_stopping' /\ ctl' = "started"
        BY <2>1, <2>3 DEF Heeds, FlagInv
    <3>2. ~idleTerm'[w] /\ pc'[w] # "exit"
        BY <2>1, <2>3 DEF Heeds, FlagInv
    <3>3. \A v \in Threads : ~idleTerm'[v] /\ pc'[v] # "exit"
        BY <2>1, <2>3, <3>2 DEF Heeds, FlagInv
    <3> QED
        BY <3>1, <3>3 DEF FlagInv
  <2>4. CASE ctl # "started"
    BY <2>1, <2>2, <2>4 DEF Heeds, FlagInv
  <2> QED
    BY <2>3, <2>4
<1>6. CASE UNCHANGED vars \/ \E t \in Tasks, p \in {None} \cup Pins : MainSchedules(t, p)
    BY <1>4, <1>6 DEF vars, flagVars, MainSchedules
<1> QED
    BY <1>1, <1>2, <1>3, <1>5, <1>6 DEF Next, Controller

\* No entry is pinned.
LEMMA NextUnpinned == ASSUME Pins = {}, TypeInv, Unpinned, AnyStep PROVE Unpinned'
<1>0. /\ NoEntry.thread = None
      /\ \A h, t : Entry(h, t, None).thread = None
    BY DEF NoEntry, Entry
<1>1. ASSUME NEW w \in Threads, NEW p, NEW e, NEW g, Moves(w, p, e, g), e.thread = None
      PROVE  \A v \in Threads : ft'[v].thread = None
    BY <1>1 DEF Moves, Unpinned
<1>2. ASSUME NEW e, Adds(e), e.thread = None PROVE \A d \in Queued' : d.thread = None
    BY <1>2 DEF Adds, Unpinned
<1>3. ASSUME UNCHANGED m_fibers PROVE \A d \in Queued' : d.thread = None
    BY <1>3, SameQueue DEF Unpinned
<1>4. ASSUME UNCHANGED ft PROVE \A v \in Threads : ft'[v].thread = None
    BY <1>4 DEF Unpinned
<1>5. \A w \in Threads : ft[w].thread = None
    BY DEF Unpinned
<1>6. CASE Quiet \/ Fails
    BY <1>3, <1>4, <1>6 DEF Quiet, Fails, Unpinned
<1>7. ASSUME NEW t \in Tasks, NEW p \in Threads \cup {None}, Submits(t, p) PROVE Unpinned'
  <2>1. p = None
    BY <1>7 DEF Submits
  <2>2. PICK e : e = Entry(IF t \in Cbs THEN None ELSE t, t, p)
    OBVIOUS
  <2>3. Adds(e) /\ e.thread = None /\ UNCHANGED ft
    BY <1>0, <1>7, <2>1, <2>2 DEF Submits
  <2> QED
    BY <1>2, <1>4, <2>3 DEF Unpinned
<1>8. ASSUME NEW w \in Threads, WorkerStep(w) PROVE Unpinned'
  <2>1. ASSUME NEW e \in Entries, Picks(w, e) PROVE Unpinned'
    <3>1. e \in Queued /\ Queued' \subseteq Queued /\ Moves(w, "dispatch", e, cb_fiber[w])
        BY <2>1 DEF Picks, Erases
    <3>2. e.thread = None /\ \A d \in Queued' : d.thread = None
        BY <3>1 DEF Unpinned
    <3> QED
        BY <1>1, <3>1, <3>2 DEF Unpinned
  <2>2. ASSUME NEW f \in Fibers, SettlesReady(w, f) PROVE Unpinned'
    <3>1. PICK e : e = Entry(f, job[f], None)
        OBVIOUS
    <3>2. Adds(e) /\ e.thread = None
        BY <1>0, <2>2, <3>1 DEF SettlesReady
    <3>3. PICK g : Moves(w, "pick", NoEntry, g)
        BY <2>2 DEF SettlesReady
    <3> QED
        BY <1>0, <1>1, <1>2, <3>2, <3>3 DEF Unpinned
  <2>3. CASE WakeAdds(w)
    <3>1. Adds(ft[w]) /\ Moves(w, "epoll", NoEntry, cb_fiber[w])
        BY <2>3 DEF WakeAdds
    <3> QED
        BY <1>0, <1>1, <1>2, <1>5, <3>1 DEF Unpinned
  <2>4. ASSUME UNCHANGED m_fibers, NEW p, NEW e, NEW g, Moves(w, p, e, g), e.thread = None
        PROVE  Unpinned'
    BY <1>1, <1>3, <2>4 DEF Unpinned
  <2>5. ASSUME NEW f \in Fibers, SwapsIn(w, f) \/ Readies(w, f) \/ Registers(w, f) \/ Parks(w, f)
        PROVE  Unpinned'
    BY <1>5, <2>4, <2>5 DEF SwapsIn, Readies, Registers, Parks
  <2>6. ASSUME NEW f \in Fibers, SettlesHeld(w, f) \/ WakeTakes(w, f) PROVE Unpinned'
    BY <1>0, <2>4, <2>6 DEF SettlesHeld, WakeTakes
  <2>7. ASSUME NEW f \in Fibers, NEW s \in States, NEW c \in Tasks \cup {None},
               Finishes(w, f, s) \/ SettlesEnded(w, f, s, c)
        PROVE  Unpinned'
    BY <1>0, <1>5, <2>4, <2>7 DEF Finishes, SettlesEnded
  <2>8. ASSUME NEW g \in PoolFibers, NEW c \in Tasks, SwapsInCb(w, c, g) PROVE Unpinned'
    BY <1>0, <2>4, <2>8 DEF SwapsInCb
  <2>9. CASE Exits(w)
    BY <1>0, <2>4, <2>9 DEF Exits
  <2> QED
    BY <1>8, <2>1, <2>2, <2>3, <2>5, <2>6, <2>7, <2>8, <2>9 DEF WorkerStep
<1> QED
    BY <1>6, <1>7, <1>8 DEF AnyStep

\* The last worker to be done left no entry in the queue.
LEMMA NextDrained ==
    ASSUME TypeInv, LocalInv, OneRef, StateInv, PlaceInv, TurnInv, DrainInv, [Next]_vars,
           \A w \in Threads : Done(w)'
    PROVE  Queued' = {}
<1>0. Threads # {} /\ None \notin Fibers
    BY SchedulerConstants DEF Fibers
<1>1. ASSUME UNCHANGED <<m_fibers, pc, ft, idleTerm>> PROVE Queued' = {}
  <2>1. \A w \in Threads : Done(w)
    BY <1>1 DEF Done
  <2> QED
    BY <1>1, <2>1 DEF DrainInv, Queued
<1>2. ASSUME NEW t \in Tasks, NEW p \in {None} \cup Pins, MainSchedules(t, p) PROVE FALSE
  <2>1. PICK w \in Threads : Done(w)'
    BY <1>0
  <2>2. ~idleTerm[w] /\ pc[w] # "exit" /\ UNCHANGED <<pc, ft, idleTerm>>
    BY <1>2 DEF MainSchedules, DrainInv, FlagInv
  <2> QED
    BY <2>1, <2>2 DEF Done
<1>3. CASE Start
  <2>1. PICK w \in Threads : Done(w)'
    BY <1>0
  <2> QED
    BY <1>3, <2>1 DEF Start, Done
<1>4. CASE Stop \/ StopPoll1 \/ StopPoll2 \/ Join \/ UNCHANGED vars
    BY <1>1, <1>4 DEF Stop, StopPoll1, StopPoll2, Join, vars
<1>5. ASSUME NEW w \in Threads, Worker(w) PROVE Queued' = {}
  <2>1. (Done(w) /\ UNCHANGED m_fibers) \/ FindsNone(w)
    BY <1>5, DoneFacts
  <2>2. CASE Done(w) /\ UNCHANGED m_fibers
    <3>1. Heeds(w)
        BY <1>5, HeedsFacts
    <3>2. \A v \in Threads : v # w => Done(v)
        BY <3>1 DEF Heeds, Done
    <3>3. Queued = {}
        BY <2>2, <3>2 DEF DrainInv
    <3> QED
        BY <2>2, <3>3, SameQueue
  <2>3. CASE FindsNone(w)
    <3>1. SUFFICES ASSUME NEW e \in Queued PROVE FALSE
        BY <2>3, SameQueue DEF FindsNone
    <3>2. ~Takes(w, e) /\ e.thread = None
        BY <2>3 DEF FindsNone, DrainInv, Unpinned
    <3>3. e.fiber # None /\ m_state[e.fiber] = "EXEC"
        BY <3>2 DEF Takes
    <3>4. e \in Entries
        BY DEF TypeInv, Queued
    <3>5. PICK f \in Fibers : f = e.fiber
        BY <3>3, <3>4, EntryFacts
    <3>6. PICK v \in Threads : pc[v] = "running" /\ Cur(v) = f
        BY <3>3, <3>5 DEF PlaceInv, FiberPlace, TurnInv
    <3>7. Has(v, f) /\ InQ(f)
        BY <3>5, <3>6, HasFacts DEF InQ
    <3> QED
        BY <3>7 DEF OneRef, One
  <2> QED
    BY <2>1, <2>2, <2>3
<1> QED
    BY <1>2, <1>3, <1>4, <1>5 DEF Next, Controller

\* The workers leave run() one by one, and the last one has found the queue empty.
THEOREM DrainsInv ==
    ASSUME MaxSchedule <= 1, MayHold = FALSE, Pins = {} PROVE Spec => [](IInv /\ TurnInv /\ DrainInv)
<1>1. Init => DrainInv
  <2>1. SUFFICES ASSUME Init PROVE DrainInv
    OBVIOUS
  <2>2. Queued = {} /\ ctl = "new" /\ \A w \in Threads : pc[w] = "none" /\ ~idleTerm[w] /\ ft[w] = NoEntry
    BY <2>1 DEF Init, Queued
  <2>3. NoEntry.thread = None
    BY DEF NoEntry, Entry
  <2> QED
    BY <2>2, <2>3 DEF DrainInv, FlagInv, Unpinned
<1>2. IInv /\ TurnInv /\ DrainInv /\ [Next]_vars => DrainInv'
  <2>1. SUFFICES ASSUME IInv, TurnInv, DrainInv, [Next]_vars PROVE DrainInv'
    OBVIOUS
  <2>2. fault = "none" /\ TypeInv /\ ControlInv /\ LocalInv /\ OneRef /\ StateInv /\ PlaceInv
    BY <2>1 DEF IInv, TurnInv
  <2>3. AnyStep
    BY <2>1, <2>2, NextSteps
  <2>4. FlagInv' /\ Unpinned'
    BY <2>1, <2>2, <2>3, NextFlags, NextUnpinned DEF DrainInv
  <2>5. (\A w \in Threads : Done(w)') => Queued' = {}
    BY <2>1, <2>2, NextDrained
  <2> QED
    BY <2>4, <2>5 DEF DrainInv
<1> QED
    BY <1>1, <1>2, TurnsCorrect, PTL DEF Spec

\* When stop() has returned every task that was scheduled has ended (Scheduler::stop,
\* Scheduler::stopping and the idle fibers), if no task waits for an event or is pinned.
THEOREM DrainCorrect ==
    ASSUME MaxSchedule <= 1, MayHold = FALSE, Pins = {} PROVE Spec => []StopDrains
<1>1. IInv /\ TurnInv /\ DrainInv => StopDrains
  <2>1. SUFFICES ASSUME IInv, TurnInv, DrainInv, ctl = "stopped", NEW t \in Tasks, given[t] > 0
                 PROVE  t \in done
    BY DEF StopDrains
  <2>2. \A w \in Threads : pc[w] = "exit"
    BY <2>1 DEF DrainInv, FlagInv
  <2>3. Queued = {} /\ waiting = {}
    BY <2>1, <2>2 DEF DrainInv, Done, TurnInv
  <2>4. ~Spots(t)
    BY <2>2, <2>3 DEF Spots, Carries, Counted, OnCpu
  <2> QED
    BY <2>1, <2>4, SpotsFacts DEF IInv, NoTaskLost
<1> QED
    BY <1>1, DrainsInv, PTL

-----------------------------------------------------------------------------
(***************************************************************************)
(* Scheduler implements TaskPool: every step of a worker or of the thread  *)
(* that calls schedule(), start() and stop() is a step of the task pool or *)
(* changes nothing there, if no task waits for an event, none is pinned    *)
(* and a Fiber object is given to schedule() once.                         *)
(***************************************************************************)
-----------------------------------------------------------------------------
(* Which task a fiber has: the invariant. *)

\* Callback c is in the queue, or worker w has taken it and has no fiber for it yet.
CbQ(c) == \E e \in Queued : IsCb(e, c)
CbHas(w, c) == pc[w] = "dispatch" /\ IsCb(ft[w], c)

\* Callback c has been scheduled and has not begun.
Fresh(c) == c \in Cbs /\ given[c] > 0 /\ c \notin done /\ \A f \in Fibers : job[f] # c

\* A callback that has not begun is in one place.
CbOf(c) ==
    /\ CbQ(c) => Fresh(c)
    /\ \A w \in Threads : CbHas(w, c) => Fresh(c) /\ ~CbQ(c)
    /\ \A v, w \in Threads : CbHas(v, c) /\ CbHas(w, c) => v = w

\* No two fibers have one task, and the fiber of a task that is done has ended.
JobOf(f) ==
    /\ f \in PoolFibers /\ job[f] # None => job[f] \in Cbs /\ given[job[f]] > 0
    /\ job[f] \in done => m_state[f] \in Ended
    /\ \A h \in Fibers : job[h] = job[f] /\ job[f] # None => h = f

DoneInv == \A t \in done : t \in Tasks /\ given[t] > 0

JobInv ==
    /\ CbOnce /\ DoneInv
    /\ \A f \in Fibers : JobOf(f)
    /\ \A c \in Tasks : CbOf(c)


-----------------------------------------------------------------------------
(* The invariant is kept. *)

\* Steps that give no fiber a task and end no task.
LEMMA SameJobs ==
    ASSUME JobInv, UNCHANGED <<job, given, done>>,
           \A f \in Fibers : m_state[f] \in Ended => m_state'[f] \in Ended
    PROVE  DoneInv' /\ (\A f \in Fibers : JobOf(f)') /\ \A c \in Tasks : Fresh(c) => Fresh(c)'
BY DEF JobInv, DoneInv, JobOf, Fresh

\* What is left to show when no callback gets to a new place.
LEMMA SameCbs ==
    ASSUME JobInv, \A c \in Tasks : Fresh(c) => Fresh(c)' \/ ~(CbQ(c)' \/ \E w \in Threads : CbHas(w, c)'),
           \A c \in Tasks : CbQ(c)' => CbQ(c),
           \A c \in Tasks, w \in Threads : CbHas(w, c)' => CbHas(w, c)
    PROVE  \A c \in Tasks : CbOf(c)'
<1>1. SUFFICES ASSUME NEW c \in Tasks PROVE CbOf(c)'
    OBVIOUS
<1>2. CbOf(c)
    BY DEF JobInv
<1>3. (CbQ(c) \/ \E w \in Threads : CbHas(w, c)) => Fresh(c)
    BY <1>2 DEF CbOf
<1>4. CbQ(c)' \/ (\E w \in Threads : CbHas(w, c)') => Fresh(c)'
    BY <1>3
<1>5. \A w \in Threads : CbHas(w, c)' => ~CbQ(c)'
    BY <1>2 DEF CbOf
<1>6. \A v, w \in Threads : CbHas(v, c)' /\ CbHas(w, c)' => v = w
    BY <1>2 DEF CbOf
<1> QED
    BY <1>4, <1>5, <1>6 DEF CbOf

\* The queue keeps its entries, or gets one with a fiber.
LEMMA CbQueue ==
    ASSUME JobInv, UNCHANGED m_fibers \/ \E e : Adds(e) /\ e.fiber # None
    PROVE  CbOnce' /\ \A c \in Tasks : CbQ(c)' => CbQ(c)
<1>1. CASE UNCHANGED m_fibers
  <2>1. Queued' = Queued
    BY <1>1, SameQueue
  <2> QED
    BY <1>1, <2>1 DEF JobInv, CbOnce, CbQ, IsCb
<1>2. CASE \E e : Adds(e) /\ e.fiber # None
  <2>1. PICK e : Adds(e) /\ e.fiber # None
    BY <1>2
  <2>2. \A c \in Tasks : ~IsCb(e, c)
    BY <2>1 DEF IsCb
  <2>3. CbOnce'
    BY <2>1, <2>2 DEF Adds, JobInv
  <2>4. Queued' = Queued \cup {e}
    BY <2>1 DEF Adds
  <2> QED
    BY <2>2, <2>3, <2>4 DEF CbQ, IsCb
<1> QED
    BY <1>1, <1>2

\* A worker that gets no callback.
LEMMA CbMoves ==
    ASSUME NEW w \in Threads, NEW p, NEW e, NEW g, Moves(w, p, e, g), p # "dispatch"
    PROVE  \A c \in Tasks, v \in Threads : CbHas(v, c)' => v # w /\ CbHas(v, c)
<1>1. SUFFICES ASSUME NEW c \in Tasks, NEW v \in Threads, CbHas(v, c)' PROVE v # w /\ CbHas(v, c)
    OBVIOUS
<1>2. v # w
    BY <1>1 DEF CbHas, Moves
<1> QED
    BY <1>1, <1>2 DEF CbHas, Moves, IsCb

\* A worker that moves, when no fiber gets a task and no callback a new place.
LEMMA PlainJob ==
    ASSUME JobInv, NEW w \in Threads, NEW p, NEW e, NEW g, Moves(w, p, e, g), p # "dispatch",
           UNCHANGED <<job, given, done>>, UNCHANGED m_fibers \/ \E d : Adds(d) /\ d.fiber # None,
           \A f \in Fibers : m_state[f] \in Ended => m_state'[f] \in Ended
    PROVE  JobInv'
<1>1. DoneInv' /\ (\A f \in Fibers : JobOf(f)') /\ \A c \in Tasks : Fresh(c) => Fresh(c)'
    BY SameJobs
<1>2. CbOnce' /\ \A c \in Tasks : CbQ(c)' => CbQ(c)
    BY CbQueue
<1>3. \A c \in Tasks, v \in Threads : CbHas(v, c)' => CbHas(v, c)
    BY CbMoves
<1>4. \A c \in Tasks : CbOf(c)'
    BY <1>1, <1>2, <1>3, SameCbs
<1> QED
    BY <1>1, <1>2, <1>4 DEF JobInv

\* A worker takes an entry.
LEMMA PicksJob ==
    ASSUME TypeInv, JobInv, NEW w \in Threads, NEW e \in Entries, Picks(w, e) PROVE JobInv'
<1>1. /\ pc[w] = "pick" /\ Erases(e) /\ Moves(w, "dispatch", e, cb_fiber[w])
      /\ UNCHANGED <<m_state, job, given, done>>
    BY DEF Picks
<1>2. DoneInv' /\ (\A f \in Fibers : JobOf(f)') /\ \A c \in Tasks : Fresh(c) => Fresh(c)'
    BY <1>1, SameJobs
<1>3. CbOnce' /\ \A d \in Queued', c \in Tasks : IsCb(e, c) => ~IsCb(d, c)
    BY <1>1 DEF JobInv, Erases
<1>4. e \in Queued /\ Queued' \subseteq Queued
    BY <1>1 DEF Erases
<1>5. ASSUME NEW c \in Tasks PROVE CbOf(c)'
  <2>1. CbOf(c) /\ (CbQ(c)' => CbQ(c)) /\ (IsCb(e, c) => CbQ(c) /\ ~CbQ(c)')
    BY <1>3, <1>4 DEF JobInv, CbQ, IsCb
  <2>2. CbHas(w, c)' <=> IsCb(e, c)
    BY <1>1 DEF CbHas, Moves, IsCb
  <2>3. \A v \in Threads : v # w => (CbHas(v, c)' <=> CbHas(v, c))
    BY <1>1 DEF CbHas, Moves, IsCb
  <2>4. CASE IsCb(e, c)
    <3>1. Fresh(c)' /\ ~CbQ(c)' /\ \A v \in Threads : ~CbHas(v, c)
        BY <1>2, <2>1, <2>4 DEF CbOf
    <3> QED
        BY <2>3, <3>1 DEF CbOf
  <2>5. CASE ~IsCb(e, c)
    <3>1. \A v \in Threads : CbHas(v, c)' => CbHas(v, c)
        BY <2>2, <2>3, <2>5
    <3> QED
        BY <1>2, <2>1, <3>1 DEF CbOf
  <2> QED
    BY <2>4, <2>5
<1> QED
    BY <1>2, <1>3, <1>5 DEF JobInv

\* A task is scheduled.
LEMMA SubmitsJob ==
    ASSUME MaxSchedule <= 1, TypeInv, PlaceInv, JobInv, NEW t \in Tasks, NEW p \in Threads \cup {None},
           Submits(t, p)
    PROVE  JobInv'
<1>0. /\ given \in [Tasks -> Nat] /\ given[t] = 0 /\ given'[t] = 1
      /\ UNCHANGED <<m_state, job, pc, ft, done>> /\ \A u \in Tasks : u # t => given'[u] = given[u]
  <2>1. given[t] < 1 /\ given[t] \in Nat
    BY SchedulerConstants DEF Submits, TypeInv, Tasks
  <2> QED
    BY <2>1 DEF Submits, TypeInv
<1>1. \A u \in Tasks : given[u] > 0 => given'[u] > 0
    BY <1>0
<1>2. DoneInv' /\ t \notin done
    BY <1>0, <1>1 DEF JobInv, DoneInv
<1>3. \A f \in Fibers : JobOf(f)'
    BY <1>0, <1>1 DEF JobInv, JobOf, Tasks
<1>4. \A c \in Tasks : Fresh(c) => Fresh(c)'
    BY <1>0, <1>1 DEF Fresh
<1>5. \A c \in Tasks, w \in Threads : CbHas(w, c)' <=> CbHas(w, c)
    BY <1>0 DEF CbHas, IsCb
<1>6. PICK e : e = Entry(IF t \in Cbs THEN None ELSE t, t, p)
    OBVIOUS
<1>7. Adds(e) /\ e.task = t /\ e.fiber = (IF t \in Cbs THEN None ELSE t)
  <2>1. Adds(e)
    BY <1>6 DEF Submits
  <2>2. e.task = t /\ e.fiber = IF t \in Cbs THEN None ELSE t
    BY <1>6 DEF Entry
  <2> QED
    BY <2>1, <2>2
<1>8. CASE t \notin Cbs
  <2>1. e.fiber # None
    BY <1>7, <1>8, SchedulerConstants DEF Tasks, Fibers
  <2>2. CbOnce' /\ \A c \in Tasks : CbQ(c)' => CbQ(c)
    BY <1>7, <2>1, CbQueue
  <2>3. \A c \in Tasks : CbOf(c)'
    BY <1>4, <1>5, <2>2, SameCbs
  <2> QED
    BY <1>2, <1>3, <2>2, <2>3 DEF JobInv
<1>9. CASE t \in Cbs
  <2>1. \A c \in Tasks : IsCb(e, c) <=> c = t
    BY <1>7, <1>9 DEF IsCb
  <2>2. ~Fresh(t) /\ ~CbQ(t) /\ \A w \in Threads : ~CbHas(w, t)
    BY <1>0 DEF Fresh, JobInv, CbOf
  <2>3. CbOnce'
    BY <1>7, <2>1, <2>2 DEF Adds, JobInv, CbQ
  <2>4. Queued' = Queued \cup {e}
    BY <1>7 DEF Adds
  <2>5. \A c \in Tasks : CbQ(c)' => CbQ(c) \/ c = t
    BY <2>1, <2>4 DEF CbQ, IsCb
  <2>6. Fresh(t)'
    <3>1. ASSUME NEW f \in Fibers PROVE job[f] # t
      <4>1. CASE f \in UserFibers
        BY <1>9, <4>1, SchedulerConstants DEF PlaceInv, FiberPlace
      <4>2. CASE f \in PoolFibers
        <5>1. t # None
            BY <1>9, SchedulerConstants
        <5>2. job[f] # None => given[job[f]] > 0
            BY <4>2 DEF JobInv, JobOf
        <5> QED
            BY <1>0, <5>1, <5>2
      <4> QED
        BY <4>1, <4>2 DEF Fibers
    <3> QED
        BY <1>0, <1>2, <1>9, <3>1 DEF Fresh
  <2>7. ASSUME NEW c \in Tasks PROVE CbOf(c)'
    <3>1. CASE c = t
      <4>1. \A w \in Threads : ~CbHas(w, c)'
        BY <1>5, <2>2, <3>1
      <4> QED
        BY <2>6, <3>1, <4>1 DEF CbOf
    <3>2. CASE c # t
      <4>1. CbOf(c) /\ (CbQ(c)' => CbQ(c)) /\ (Fresh(c) => Fresh(c)')
        BY <1>4, <2>5, <3>2 DEF JobInv
      <4> QED
        BY <1>5, <4>1 DEF CbOf
    <3> QED
        BY <3>1, <3>2
  <2> QED
    BY <1>2, <1>3, <2>3, <2>7 DEF JobInv
<1> QED
    BY <1>8, <1>9


\* A callback gets a fiber.
LEMMA SwapsInCbJob ==
    ASSUME TypeInv, JobInv, NEW w \in Threads, NEW c \in Tasks, NEW g \in PoolFibers, SwapsInCb(w, c, g)
    PROVE  JobInv'
<1>0. g \in Fibers /\ c # None
    BY DEF Fibers, SwapsInCb
<1>1. /\ job'[g] = c /\ \A h \in Fibers : h # g => job'[h] = job[h] /\ m_state'[h] = m_state[h]
    BY DEF SwapsInCb, Gets, Turns
<1>2. UNCHANGED <<m_fibers, given, done>> /\ Moves(w, "running", NoEntry, g)
    BY DEF SwapsInCb
<1>3. CbHas(w, c)
    BY DEF SwapsInCb, CbHas, IsCb
<1>4. Fresh(c) /\ ~CbQ(c) /\ \A v \in Threads : CbHas(v, c) => v = w
    BY <1>3 DEF JobInv, CbOf
<1>5. \A h \in Fibers : JobOf(h)'
  <2>1. JobOf(g)'
    BY <1>0, <1>1, <1>2, <1>4 DEF JobOf, Fresh
  <2>2. ASSUME NEW h \in Fibers, h # g PROVE JobOf(h)'
    BY <1>0, <1>1, <1>2, <1>4, <2>2 DEF JobInv, JobOf, Fresh
  <2> QED
    BY <2>1, <2>2
<1>6. \A d \in Tasks : Fresh(d) /\ d # c => Fresh(d)'
    BY <1>1, <1>2 DEF Fresh
<1>7. CbOnce' /\ \A d \in Tasks : CbQ(d)' => CbQ(d)
    BY <1>2, CbQueue
<1>8. \A d \in Tasks, v \in Threads : CbHas(v, d)' => v # w /\ CbHas(v, d)
    BY <1>2, CbMoves
<1>9. ~CbQ(c)' /\ \A v \in Threads : ~CbHas(v, c)'
    BY <1>4, <1>7, <1>8
<1>10. \A d \in Tasks : CbOf(d)'
    BY <1>6, <1>7, <1>8, <1>9, SameCbs
<1>11. DoneInv'
    BY <1>2 DEF JobInv, DoneInv
<1> QED
    BY <1>5, <1>7, <1>10, <1>11 DEF JobInv

\* A task ends.
LEMMA FinishesJob ==
    ASSUME TypeInv, LocalInv, OneRef, StateInv, PlaceInv, JobInv,
           NEW w \in Threads, NEW f \in Fibers, NEW s \in States, Finishes(w, f, s)
    PROVE  JobInv'
<1>1. /\ UNCHANGED <<m_fibers, job, given>> /\ done' = done \cup {job[f]}
      /\ Moves(w, "swapout", ft[w], cb_fiber[w]) /\ pc[w] = "running" /\ Cur(w) = f
    BY DEF Finishes
<1>2. m_state'[f] \in Ended /\ \A h \in Fibers : h # f => m_state'[h] = m_state[h]
    BY DEF Finishes, Turns
<1>3. job[f] # None /\ job[f] \in Tasks
    BY <1>1 DEF PlaceInv, WorkerPlace, TypeInv
<1>4. given[job[f]] > 0
  <2>1. CASE f \in UserFibers
    <3>1. job[f] = f /\ m_state[f] = "EXEC"
        BY <1>1, <2>1 DEF PlaceInv, FiberPlace, StateInv, ExecState
    <3>2. ~(given[f] <= 0) /\ given[f] \in Nat
        BY <1>3, <2>1, <3>1 DEF StateInv, StateOf, TypeInv
    <3> QED
        BY <3>1, <3>2
  <2>2. CASE f \in PoolFibers
    BY <1>3, <2>2 DEF JobInv, JobOf
  <2> QED
    BY <2>1, <2>2 DEF Fibers
<1>5. DoneInv'
    BY <1>1, <1>3, <1>4 DEF JobInv, DoneInv
<1>6. ASSUME NEW h \in Fibers PROVE JobOf(h)'
  <2>1. JobOf(h) /\ JobOf(f)
    BY DEF JobInv
  <2>2. job[h] = job[f] => h = f
    BY <1>3, <2>1 DEF JobOf
  <2>3. job[h] \in done' => m_state'[h] \in Ended
    BY <1>1, <1>2, <2>1, <2>2 DEF JobOf
  <2> QED
    BY <1>1, <2>1, <2>3 DEF JobOf
<1>7. \A c \in Tasks : Fresh(c) => Fresh(c)'
    BY <1>1 DEF Fresh
<1>8. CbOnce' /\ \A d \in Tasks : CbQ(d)' => CbQ(d)
    BY <1>1, CbQueue
<1>9. \A d \in Tasks, v \in Threads : CbHas(v, d)' => CbHas(v, d)
    BY <1>1, CbMoves
<1>10. \A d \in Tasks : CbOf(d)'
    BY <1>7, <1>8, <1>9, SameCbs
<1> QED
    BY <1>5, <1>6, <1>8, <1>10 DEF JobInv

\* An ended fiber is kept or released.
LEMMA SettlesEndedJob ==
    ASSUME TypeInv, JobInv, NEW w \in Threads, NEW f \in Fibers, NEW s \in States,
           NEW c \in Tasks \cup {None}, SettlesEnded(w, f, s, c)
    PROVE  JobInv'
<1>0. None \notin Tasks
    BY SchedulerConstants DEF Tasks, Fibers
<1>1. /\ UNCHANGED <<m_fibers, given, done>> /\ Moves(w, "pick", NoEntry, cb_fiber[w])
      /\ m_state'[f] = s /\ job'[f] = c
      /\ \A h \in Fibers : h # f => job'[h] = job[h] /\ m_state'[h] = m_state[h]
    BY DEF SettlesEnded, Turns, Gets
<1>2. \/ c = None
      \/ c = job[f] /\ s = m_state[f]
  <2>1. CASE f \in PoolFibers
    BY <2>1 DEF SettlesEnded
  <2>2. CASE f \in UserFibers
    <3>1. c = job[f] /\ f \notin PoolFibers /\ Cur(w) = f
        BY <2>2, SchedulerConstants DEF SettlesEnded
    <3>2. ft[w].fiber # None
        BY <2>2, <3>1, SchedulerConstants DEF Cur, TypeInv
    <3> QED
        BY <3>1, <3>2 DEF SettlesEnded
  <2> QED
    BY <2>1, <2>2 DEF Fibers
<1>3. DoneInv' /\ None \notin done
    BY <1>0, <1>1 DEF JobInv, DoneInv
<1>4. ASSUME NEW h \in Fibers PROVE JobOf(h)'
  <2>1. JobOf(h) /\ JobOf(f)
    BY DEF JobInv
  <2>2. job'[h] = None \/ (job'[h] = job[h] /\ m_state'[h] = m_state[h])
    BY <1>1, <1>2
  <2>3. \A k \in Fibers : job'[k] = None \/ job'[k] = job[k]
    BY <1>1, <1>2
  <2> QED
    BY <1>1, <1>3, <2>1, <2>2, <2>3 DEF JobOf
<1>5. \A d \in Tasks : Fresh(d) => Fresh(d)'
    BY <1>0, <1>1, <1>2 DEF Fresh
<1>6. CbOnce' /\ \A d \in Tasks : CbQ(d)' => CbQ(d)
    BY <1>1, CbQueue
<1>7. \A d \in Tasks, v \in Threads : CbHas(v, d)' => CbHas(v, d)
    BY <1>1, CbMoves
<1>8. \A d \in Tasks : CbOf(d)'
    BY <1>5, <1>6, <1>7, SameCbs
<1> QED
    BY <1>3, <1>4, <1>6, <1>8 DEF JobInv

\* Steps that move no fiber.
LEMMA QuietJob == ASSUME TypeInv, JobInv, Quiet \/ Fails PROVE JobInv'
<1>0. None \notin Tasks
    BY SchedulerConstants DEF Tasks, Fibers
<1>1. UNCHANGED <<m_fibers, m_state, job, given, done>>
    BY DEF Quiet, Fails
<1>2. DoneInv' /\ (\A f \in Fibers : JobOf(f)') /\ \A c \in Tasks : Fresh(c) => Fresh(c)'
    BY <1>1, SameJobs
<1>3. CbOnce' /\ \A d \in Tasks : CbQ(d)' => CbQ(d)
    BY <1>1, CbQueue
<1>4. ASSUME NEW d \in Tasks, NEW v \in Threads, CbHas(v, d)' PROVE CbHas(v, d)
  <2>1. UNCHANGED ft /\ (pc'[v] = pc[v] \/ ft[v] = NoEntry \/ pc'[v] # "dispatch")
    BY DEF Quiet, Fails
  <2> QED
    BY <1>0, <1>4, <2>1, EntryFacts DEF CbHas, IsCb
<1>5. \A d \in Tasks : CbOf(d)'
    BY <1>2, <1>3, <1>4, SameCbs
<1> QED
    BY <1>2, <1>3, <1>5 DEF JobInv

\* All steps.
LEMMA NextJob ==
    ASSUME MaxSchedule <= 1, TypeInv, LocalInv, OneRef, StateInv, PlaceInv, JobInv, AnyStep
    PROVE  JobInv'
<1>0. None \notin Fibers
    BY SchedulerConstants DEF Fibers
<1>1. ASSUME NEW w \in Threads, WorkerStep(w) PROVE JobInv'
  <2>1. ASSUME NEW f \in Fibers, SwapsIn(w, f) \/ Readies(w, f) \/ Parks(w, f) \/ SettlesHeld(w, f)
        PROVE  JobInv'
    <3>1. m_state[f] \notin Ended
        BY <2>1 DEF SwapsIn, Readies, Parks, SettlesHeld, StateInv, ExecState, Ended
    <3>2. \A h \in Fibers : h # f => m_state'[h] = m_state[h]
        BY <2>1 DEF SwapsIn, Readies, Parks, SettlesHeld, Turns
    <3>3. UNCHANGED <<m_fibers, job, given, done>>
        BY <2>1 DEF SwapsIn, Readies, Parks, SettlesHeld
    <3>4. \E p, e, g : Moves(w, p, e, g) /\ p # "dispatch"
      <4>1. "running" # "dispatch" /\ "swapout" # "dispatch" /\ "pick" # "dispatch"
        OBVIOUS
      <4> QED
        BY <2>1, <4>1 DEF SwapsIn, Readies, Parks, SettlesHeld
    <3> QED
        BY <3>1, <3>2, <3>3, <3>4, PlainJob
  <2>2. ASSUME NEW f \in Fibers, Registers(w, f) \/ SettlesReady(w, f) \/ WakeTakes(w, f)
        PROVE  JobInv'
    <3>1. UNCHANGED <<m_state, job, given, done>>
        BY <2>2 DEF Registers, SettlesReady, WakeTakes
    <3>2. UNCHANGED m_fibers \/ \E d : Adds(d) /\ d.fiber # None
      <4>1. Entry(f, job[f], None).fiber # None
        BY <1>0 DEF Entry
      <4> QED
        BY <2>2, <4>1 DEF Registers, SettlesReady, WakeTakes
    <3>3. \E p, e, g : Moves(w, p, e, g) /\ p # "dispatch"
      <4>1. "parking" # "dispatch" /\ "wake" # "dispatch" /\ "pick" # "dispatch"
        OBVIOUS
      <4> QED
        BY <2>2, <4>1 DEF Registers, SettlesReady, WakeTakes
    <3> QED
        BY <3>1, <3>2, <3>3, PlainJob
  <2>3. CASE WakeAdds(w)
    <3>1. UNCHANGED <<m_state, job, given, done>> /\ Moves(w, "epoll", NoEntry, cb_fiber[w])
          /\ Adds(ft[w]) /\ ft[w].fiber # None
        BY <2>3 DEF WakeAdds, LocalInv
    <3>2. "epoll" # "dispatch"
        OBVIOUS
    <3> QED
        BY <3>1, <3>2, PlainJob
  <2>4. CASE Exits(w)
    <3>1. UNCHANGED <<m_fibers, job, given, done>> /\ Moves(w, "exit", NoEntry, None)
        BY <2>4 DEF Exits
    <3>2. \A f \in Fibers : m_state[f] \in Ended => m_state'[f] \in Ended
      <4>1. SUFFICES ASSUME NEW f \in Fibers, m_state[f] \in Ended, f = cb_fiber[w] PROVE FALSE
        BY <2>4 DEF Exits
      <4>2. Spare(w)
        BY <1>0, <2>4, <4>1 DEF Exits, Spare, Leaving
      <4> QED
        BY <4>1, <4>2 DEF StateInv, SpareState, Ended
    <3>3. "exit" # "dispatch"
        OBVIOUS
    <3> QED
        BY <3>1, <3>2, <3>3, PlainJob
  <2> QED
    BY <1>1, <2>1, <2>2, <2>3, <2>4, PicksJob, FinishesJob, SettlesEndedJob, SwapsInCbJob DEF WorkerStep
<1> QED
    BY <1>1, QuietJob, SubmitsJob DEF AnyStep

\* The initial state.
LEMMA InitJob == ASSUME Init PROVE JobInv
<1>1. /\ Queued = {} /\ Len(m_fibers) = 0 /\ done = {} /\ \A w \in Threads : pc[w] = "none"
    BY DEF Init, Queued
<1>2. \A f \in Fibers : job[f] = IF f \in UserFibers THEN f ELSE None
    BY DEF Init
<1>3. CbOnce
    BY <1>1 DEF CbOnce
<1>4. \A c \in Tasks : CbOf(c)
    BY <1>1 DEF CbOf, CbQ, CbHas
<1>5. \A f \in Fibers : JobOf(f)
    BY <1>1, <1>2, SchedulerConstants DEF JobOf, Fibers
<1> QED
    BY <1>1, <1>3, <1>4, <1>5 DEF JobInv, DoneInv


-----------------------------------------------------------------------------
(* The refinement. *)

\* Some worker executes the code of t.
Active(t) == \E w \in Threads : pc[w] = "running" /\ job[Cur(w)] = t
Opened == ctl \notin {"new", "stopped"}

\* The status of a task, before and after a step.
StatusIs(t, s) ==
    \/ s = "running" /\ Active(t)
    \/ s = "done" /\ ~Active(t) /\ t \in done
    \/ s = "ready" /\ ~Active(t) /\ t \notin done /\ given[t] > 0
    \/ s = "new" /\ ~Active(t) /\ t \notin done /\ ~(given[t] > 0)
LEMMA StatusFacts ==
    ASSUME TurnInv, TurnInv', NEW t
    PROVE  /\ \A s : PoolStatus(t) = s <=> StatusIs(t, s)
           /\ \A s : PoolStatus(t)' = s <=> StatusIs(t, s)'
<1>1. Active(t) <=> \E w \in Threads : pc[w] \in {"running", "parking"} /\ job[Cur(w)] = t
    BY DEF Active, TurnInv
<1>2. Active(t)' <=> (\E w \in Threads : pc[w] \in {"running", "parking"} /\ job[Cur(w)] = t)'
    BY DEF Active, TurnInv
<1>3. \A s : PoolStatus(t) = s <=> StatusIs(t, s)
    BY <1>1 DEF PoolStatus, StatusIs
<1>4. \A s : PoolStatus(t)' = s <=> StatusIs(t, s)'
    BY <1>2 DEF PoolStatus, StatusIs
<1> QED
    BY <1>3, <1>4

\* A step that changes the status of t only.
LEMMA PoolMove ==
    ASSUME TurnInv, TurnInv', NEW t \in Tasks, NEW a, NEW b, StatusIs(t, a), StatusIs(t, b)',
           \A u \in Tasks : \A s : u # t => (StatusIs(u, s)' <=> StatusIs(u, s)), Opened' = Opened
    PROVE  Pool!Move(t, a, b)
<1>1. PoolStatus(t) = a /\ PoolStatus(t)' = b
    BY StatusFacts
<1>2. \A u \in Tasks : u # t => PoolStatus(u)' = PoolStatus(u)
    BY StatusFacts
<1>3. [u \in Tasks |-> PoolStatus(u)][t] = a
    BY <1>1
<1>4. [u \in Tasks |-> PoolStatus(u)]' = [[u \in Tasks |-> PoolStatus(u)] EXCEPT ![t] = b]
    BY <1>1, <1>2
<1>5. (ctl \notin {"new", "stopped"})' = (ctl \notin {"new", "stopped"})
    BY DEF Opened
<1> QED
    BY <1>3, <1>4, <1>5 DEF Pool!Move
\* A step that changes no status.
LEMMA PoolSame ==
    ASSUME TurnInv, TurnInv', UNCHANGED <<given, done>>, \A t \in Tasks : Active(t)' <=> Active(t)
    PROVE  /\ [u \in Tasks |-> PoolStatus(u)]' = [u \in Tasks |-> PoolStatus(u)]
           /\ \A t \in Tasks : PoolStatus(t)' = PoolStatus(t)
<1>1. \A t \in Tasks : \A s : StatusIs(t, s)' <=> StatusIs(t, s)
    BY DEF StatusIs
<1>2. \A t \in Tasks : PoolStatus(t)' = PoolStatus(t)
    BY <1>1, StatusFacts
<1> QED
    BY <1>2


\* What a worker's move does to the tasks that are executed.
Others(w, t) == \E v \in Threads \ {w} : pc[v] = "running" /\ job[Cur(v)] = t
LEMMA ActiveFacts ==
    ASSUME NEW w \in Threads, NEW p, NEW e, NEW g, Moves(w, p, e, g),
           \A v \in Threads \ {w} : pc[v] = "running" => job'[Cur(v)] = job[Cur(v)]
    PROVE  /\ \A t : Active(t) <=> Others(w, t) \/ (pc[w] = "running" /\ job[Cur(w)] = t)
           /\ \A t : Active(t)' <=> Others(w, t) \/ (p = "running" /\ job'[Cur(w)'] = t)
<1>1. \A t : Active(t) <=> Others(w, t) \/ (pc[w] = "running" /\ job[Cur(w)] = t)
    BY DEF Active, Others
<1>2. \A v \in Threads \ {w} : pc'[v] = pc[v] /\ Cur(v)' = Cur(v)
    BY DEF Moves, Cur
<1>3. pc'[w] = p
    BY DEF Moves
<1>4. \A t : Active(t)' <=> \/ \E v \in Threads \ {w} : pc'[v] = "running" /\ job'[Cur(v)'] = t
                            \/ pc'[w] = "running" /\ job'[Cur(w)'] = t
    BY DEF Active
<1>5. \A t : Others(w, t) <=> \E v \in Threads \ {w} : pc'[v] = "running" /\ job'[Cur(v)'] = t
    BY <1>2 DEF Others
<1> QED
    BY <1>1, <1>3, <1>4, <1>5

\* The task of a fiber that somebody can run, or runs.
LEMMA LiveFacts ==
    ASSUME TypeInv, LocalInv, OneRef, StateInv, PlaceInv, JobInv,
           NEW w \in Threads, NEW f \in Fibers, Has(w, f), job[f] # None
    PROVE  /\ job[f] \in Tasks /\ given[job[f]] > 0 /\ job[f] \notin done
           /\ ~Others(w, job[f])
<1>1. job[f] \in Tasks
    BY DEF TypeInv
<1>2. ~Unreachable(f)
    BY DEF Unreachable
<1>3. m_state[f] \notin Ended /\ ~(f \in UserFibers /\ given[f] <= 0)
    BY <1>2, ReachableFacts
<1>4. given[job[f]] > 0
  <2>1. CASE f \in UserFibers
    <3>1. job[f] = f /\ given[f] \in Nat
        BY <1>1, <2>1 DEF PlaceInv, FiberPlace, TypeInv
    <3> QED
        BY <1>3, <2>1, <3>1
  <2>2. CASE f \in PoolFibers
    BY <2>2 DEF JobInv, JobOf
  <2> QED
    BY <2>1, <2>2 DEF Fibers
<1>5. job[f] \notin done
    BY <1>3 DEF JobInv, JobOf
<1>6. ASSUME NEW v \in Threads \ {w}, pc[v] = "running", job[Cur(v)] = job[f] PROVE FALSE
  <2>1. PICK h \in Fibers : h = Cur(v) /\ Has(v, h)
    BY <1>6, HasFacts
  <2>2. h = f
    BY <1>6, <2>1 DEF JobInv, JobOf
  <2> QED
    BY <2>1, <2>2 DEF OneRef, One
<1> QED
    BY <1>1, <1>4, <1>5, <1>6 DEF Others

\* A turn begins.
LEMMA DispatchPool ==
    ASSUME TypeInv, LocalInv, OneRef, StateInv, PlaceInv, JobInv, TurnInv, TurnInv', Opened, Opened',
           NEW w \in Threads,
           \/ \E f \in Fibers : SwapsIn(w, f)
           \/ \E g \in PoolFibers, c \in Tasks : SwapsInCb(w, c, g)
    PROVE  \E t \in Tasks : Pool!Dispatch(t)
<1>0. None \notin Fibers /\ None \notin Tasks
    BY SchedulerConstants DEF Fibers, Tasks
<1>1. ASSUME NEW t \in Tasks, given[t] > 0, t \notin done, ~Others(w, t), pc[w] # "running",
             UNCHANGED <<given, done>>, NEW e, NEW g, Moves(w, "running", e, g), job'[Cur(w)'] = t,
             \A v \in Threads \ {w} : pc[v] = "running" => job'[Cur(v)] = job[Cur(v)]
      PROVE  Pool!Dispatch(t)
  <2>1. /\ \A u : Active(u) <=> Others(w, u)
        /\ \A u : Active(u)' <=> Others(w, u) \/ u = t
    BY <1>1, ActiveFacts
  <2>2. StatusIs(t, "ready") /\ StatusIs(t, "running")'
    BY <1>1, <2>1 DEF StatusIs
  <2>3. \A u \in Tasks : \A s : u # t => (StatusIs(u, s)' <=> StatusIs(u, s))
    BY <1>1, <2>1 DEF StatusIs
  <2>4. Opened' = Opened
    OBVIOUS
  <2>5. Pool!Move(t, "ready", "running")
    BY <2>2, <2>3, <2>4, PoolMove
  <2> QED
    BY <2>5 DEF Pool!Dispatch, Opened
<1>2. ASSUME NEW f \in Fibers, SwapsIn(w, f) PROVE \E t \in Tasks : Pool!Dispatch(t)
  <2>1. /\ pc[w] = "dispatch" /\ ft[w].fiber = f /\ UNCHANGED <<job, given, done>>
        /\ Moves(w, "running", ft[w], cb_fiber[w])
    BY <1>2 DEF SwapsIn
  <2>2. Has(w, f)
    BY <1>0, <2>1 DEF Has, Leaving
  <2>3. ft[w] # NoEntry
    BY <1>0, <2>1, EntryFacts
  <2>4. job[f] # None
    BY <1>0, <2>1, <2>3 DEF PlaceInv, WorkerPlace, LocalInv
  <2>5. Cur(w)' = f
    BY <1>0, <2>1 DEF Cur, Moves
  <2>6. job[f] \in Tasks /\ given[job[f]] > 0 /\ job[f] \notin done /\ ~Others(w, job[f])
    BY <2>2, <2>4, LiveFacts
  <2>7. PICK t \in Tasks : t = job[f]
    BY <2>6
  <2>8. Pool!Dispatch(t)
    BY <1>1, <2>1, <2>5, <2>6, <2>7
  <2> QED
    BY <2>8
<1>3. ASSUME NEW g \in PoolFibers, NEW c \in Tasks, SwapsInCb(w, c, g) PROVE Pool!Dispatch(c)
  <2>1. /\ pc[w] = "dispatch" /\ UNCHANGED <<given, done>> /\ Moves(w, "running", NoEntry, g)
        /\ g \in Fibers /\ job'[g] = c /\ \A h \in Fibers : h # g => job'[h] = job[h]
    BY <1>3 DEF SwapsInCb, Gets, Fibers
  <2>2. CbHas(w, c)
    BY <1>3 DEF SwapsInCb, CbHas, IsCb
  <2>3. Fresh(c)
    BY <2>2 DEF JobInv, CbOf
  <2>4. Cur(w)' = g
    BY <1>0, <2>1, EntryFacts DEF Cur, Moves
  <2>5. ASSUME NEW v \in Threads \ {w}, pc[v] = "running" PROVE Cur(v) \in Fibers /\ Cur(v) # g
    <3>1. PICK h \in Fibers : h = Cur(v) /\ Has(v, h)
        BY <2>5, HasFacts
    <3>2. CASE m_state[g] = "FREE"
      <4>1. Unused(g)
        BY <2>1, <3>2 DEF StateInv, StateOf
      <4> QED
        BY <3>1, <4>1 DEF Unused, Unreachable
    <3>3. CASE g = cb_fiber[w]
      <4>1. Has(w, g)
        BY <1>0, <2>1, <3>3 DEF Has, Leaving
      <4> QED
        BY <2>1, <3>1, <4>1 DEF OneRef, One
    <3> QED
        BY <1>3, <3>2, <3>3 DEF SwapsInCb
  <2>6. ~Others(w, c)
    BY <2>3, <2>5 DEF Others, Fresh
  <2>7. \A v \in Threads \ {w} : pc[v] = "running" => job'[Cur(v)] = job[Cur(v)]
    BY <2>1, <2>5
  <2>8. given[c] > 0 /\ c \notin done /\ job'[Cur(w)'] = c /\ pc[w] # "running"
    BY <2>1, <2>3, <2>4 DEF Fresh
  <2> QED
    BY <1>1, <2>1, <2>6, <2>7, <2>8
<1> QED
    BY <1>2, <1>3

\* A turn ends, or the task with it.
LEMMA SuspendPool ==
    ASSUME TypeInv, LocalInv, OneRef, StateInv, PlaceInv, JobInv, TurnInv, TurnInv', Opened' = Opened,
           NEW w \in Threads, NEW f \in Fibers, NEW s \in States, Readies(w, f) \/ Finishes(w, f, s)
    PROVE  \E t \in Tasks : Pool!Suspend(t) \/ Pool!Complete(t)
<1>1. /\ pc[w] = "running" /\ Cur(w) = f /\ UNCHANGED <<job, given>>
      /\ Moves(w, "swapout", ft[w], cb_fiber[w])
    BY DEF Readies, Finishes
<1>2. Has(w, f) /\ job[f] # None
    BY <1>1, HasFacts DEF PlaceInv, WorkerPlace
<1>3. PICK t \in Tasks : t = job[f] /\ given[t] > 0 /\ t \notin done /\ ~Others(w, t)
    BY <1>2, LiveFacts
<1>4. /\ \A u : Active(u) <=> Others(w, u) \/ u = t
      /\ \A u : Active(u)' <=> Others(w, u)
    BY <1>1, <1>3, ActiveFacts
<1>5. StatusIs(t, "running")
    BY <1>4 DEF StatusIs
<1>6. CASE Readies(w, f)
  <2>1. UNCHANGED done
    BY <1>6 DEF Readies
  <2>2. StatusIs(t, "ready")'
    BY <1>1, <1>3, <1>4, <2>1 DEF StatusIs
  <2>3. \A u \in Tasks : \A r : u # t => (StatusIs(u, r)' <=> StatusIs(u, r))
    BY <1>1, <1>4, <2>1 DEF StatusIs
  <2> QED
    BY <1>5, <2>2, <2>3, PoolMove DEF Pool!Suspend
<1>7. CASE Finishes(w, f, s)
  <2>1. done' = done \cup {t}
    BY <1>3, <1>7 DEF Finishes
  <2>2. StatusIs(t, "done")'
    BY <1>3, <1>4, <2>1 DEF StatusIs
  <2>3. \A u \in Tasks : \A r : u # t => (StatusIs(u, r)' <=> StatusIs(u, r))
    BY <1>1, <1>4, <2>1 DEF StatusIs
  <2> QED
    BY <1>5, <2>2, <2>3, PoolMove DEF Pool!Complete
<1> QED
    BY <1>6, <1>7

\* A task is scheduled.
LEMMA SubmitPool ==
    ASSUME MaxSchedule <= 1, TypeInv, LocalInv, OneRef, StateInv, PlaceInv, JobInv, TurnInv, TurnInv',
           Opened' = Opened, NEW t \in Tasks, NEW p \in Threads \cup {None}, Submits(t, p)
    PROVE  Pool!Submit(t)
<1>1. given[t] < 1 /\ given[t] \in Nat /\ given'[t] = given[t] + 1
    BY SchedulerConstants DEF Submits, TypeInv, Tasks
<1>2. ~(given[t] > 0) /\ given'[t] > 0
    BY <1>1
<1>3. /\ UNCHANGED <<job, pc, ft, cb_fiber, done>>
      /\ \A u \in Tasks : u # t => given'[u] = given[u]
    BY DEF Submits
<1>4. t \notin done
    BY <1>2 DEF JobInv, DoneInv
<1>5. ~Active(t)
  <2>1. SUFFICES ASSUME NEW w \in Threads, pc[w] = "running", job[Cur(w)] = t PROVE FALSE
    BY DEF Active
  <2>2. PICK f \in Fibers : f = Cur(w) /\ Has(w, f)
    BY <2>1, HasFacts
  <2>3. job[f] # None
    BY <2>1, <2>2 DEF PlaceInv, WorkerPlace
  <2> QED
    BY <1>2, <2>1, <2>2, <2>3, LiveFacts
<1>6. \A u : Active(u)' <=> Active(u)
    BY <1>3 DEF Active, Cur
<1>7. StatusIs(t, "new") /\ StatusIs(t, "ready")'
    BY <1>2, <1>3, <1>4, <1>5, <1>6 DEF StatusIs
<1>8. \A u \in Tasks : \A r : u # t => (StatusIs(u, r)' <=> StatusIs(u, r))
    BY <1>3, <1>6 DEF StatusIs
<1> QED
    BY <1>7, <1>8, PoolMove DEF Pool!Submit


\* The other steps of a worker change no status: it takes an entry, looks at what swapIn left,
\* idles or leaves run().
LEMMA IdlePool ==
    ASSUME TypeInv, LocalInv, OneRef, StateInv, PlaceInv, JobInv, TurnInv, TurnInv',
           NEW w \in Threads, WorkerStep(w)
    PROVE  \/ UNCHANGED <<given, done>> /\ \A t \in Tasks : Active(t)' <=> Active(t)
           \/ \E f \in Fibers : SwapsIn(w, f)
           \/ \E g \in PoolFibers, c \in Tasks : SwapsInCb(w, c, g)
           \/ \E f \in Fibers, s \in States : Readies(w, f) \/ Finishes(w, f, s)
<1>0. "EXEC" \in States
    BY DEF States
<1>1. ASSUME NEW p, NEW e, NEW g, Moves(w, p, e, g), p # "running", pc[w] # "running",
             \A v \in Threads \ {w} : pc[v] = "running" => job'[Cur(v)] = job[Cur(v)]
      PROVE  \A t \in Tasks : Active(t)' <=> Active(t)
    BY <1>1, ActiveFacts
<1>2. \A f \in Fibers : ~Registers(w, f) /\ ~Parks(w, f) /\ ~WakeTakes(w, f)
    BY DEF Registers, Parks, WakeTakes, TurnInv, Moves
<1>3. ASSUME (\E e \in Entries : Picks(w, e)) \/ Exits(w) \/ WakeAdds(w)
      PROVE  UNCHANGED <<given, done>> /\ \A t \in Tasks : Active(t)' <=> Active(t)
  <2>1. UNCHANGED <<job, given, done>> /\ pc[w] # "running"
    BY <1>3 DEF Picks, Exits, WakeAdds
  <2>2. \E p, e, g : p # "running" /\ Moves(w, p, e, g)
    <3>1. "dispatch" # "running" /\ "exit" # "running" /\ "epoll" # "running"
        OBVIOUS
    <3> QED
        BY <1>3, <3>1 DEF Picks, Exits, WakeAdds
  <2> QED
    BY <1>1, <2>1, <2>2
<1>4. ASSUME NEW f \in Fibers, SettlesReady(w, f) \/ SettlesHeld(w, f)
      PROVE  UNCHANGED <<given, done>> /\ \A t \in Tasks : Active(t)' <=> Active(t)
  <2>1. UNCHANGED <<job, given, done>> /\ pc[w] # "running"
    BY <1>4 DEF SettlesReady, SettlesHeld
  <2>2. \E g : Moves(w, "pick", NoEntry, g)
    BY <1>4 DEF SettlesReady, SettlesHeld
  <2>3. "pick" # "running"
    OBVIOUS
  <2> QED
    BY <1>1, <2>1, <2>2, <2>3
<1>5. ASSUME NEW f \in Fibers, NEW s \in States, NEW c \in Tasks \cup {None}, SettlesEnded(w, f, s, c)
      PROVE  UNCHANGED <<given, done>> /\ \A t \in Tasks : Active(t)' <=> Active(t)
  <2>1. /\ UNCHANGED <<given, done>> /\ pc[w] = "settle" /\ Cur(w) = f
        /\ Moves(w, "pick", NoEntry, cb_fiber[w]) /\ \A h \in Fibers : h # f => job'[h] = job[h]
    BY <1>5 DEF SettlesEnded, Gets
  <2>2. Unreachable(f)
    BY <2>1 DEF TurnInv, Turn, Leaves, Leaving
  <2>3. ASSUME NEW v \in Threads \ {w}, pc[v] = "running" PROVE job'[Cur(v)] = job[Cur(v)]
    <3>1. Cur(v) \in Fibers /\ Has(v, Cur(v))
        BY <2>3, HasFacts
    <3>2. Cur(v) # f
        BY <2>2, <3>1 DEF Unreachable
    <3> QED
        BY <2>1, <3>1, <3>2
  <2>4. "pick" # "running" /\ pc[w] # "running"
    BY <2>1
  <2> QED
    BY <1>1, <2>1, <2>3, <2>4
<1> QED
    BY <1>0, <1>2, <1>3, <1>4, <1>5 DEF WorkerStep

\* Every step of the scheduler is one of the task pool.
LEMMA NextPool ==
    ASSUME MaxSchedule <= 1, IInv, TurnInv, DrainInv, JobInv, IInv', TurnInv', DrainInv', [Next]_vars
    PROVE  [Pool!Next]_<<[t \in Tasks |-> PoolStatus(t)], ctl \notin {"new", "stopped"}>>
<1>1. fault = "none" /\ TypeInv /\ ControlInv /\ LocalInv /\ OneRef /\ StateInv /\ PlaceInv
    BY DEF IInv, TurnInv
<1>2. AnyStep
    BY <1>1, NextSteps
<1>3. ASSUME UNCHANGED <<given, done>>, \A t \in Tasks : Active(t)' <=> Active(t), Opened' = Opened
      PROVE  UNCHANGED <<[t \in Tasks |-> PoolStatus(t)], ctl \notin {"new", "stopped"}>>
    BY <1>3, PoolSame DEF Opened
<1>4. CASE Start
  <2>1. /\ UNCHANGED <<given, done>> /\ \A w \in Threads : pc'[w] = "pick"
        /\ ctl \in {"new", "stopped"} /\ ctl' = "started"
    BY <1>4 DEF Start, taskVars
  <2>2. \A w \in Threads : pc[w] # "running"
    BY <1>1, <2>1 DEF ControlInv
  <2>3. \A t \in Tasks : Active(t)' <=> Active(t)
    BY <2>1, <2>2 DEF Active
  <2>4. [t \in Tasks |-> PoolStatus(t)]' = [t \in Tasks |-> PoolStatus(t)]
    BY <2>1, <2>3, PoolSame
  <2>5. Pool!Open
    BY <2>1, <2>4 DEF Pool!Open
  <2> QED
    BY <2>5 DEF Pool!Next
<1>5. CASE Join
  <2>1. /\ UNCHANGED <<given, done, job, pc, ft, cb_fiber>> /\ ctl = "join" /\ ctl' = "stopped"
        /\ \A w \in Threads : pc[w] = "exit"
    BY <1>5 DEF Join, taskVars
  <2>2. \A t \in Tasks : (Active(t)' <=> Active(t)) /\ ~Active(t)
    BY <2>1 DEF Active, Cur
  <2>3. [t \in Tasks |-> PoolStatus(t)]' = [t \in Tasks |-> PoolStatus(t)]
    BY <2>1, <2>2, PoolSame
  <2>4. ASSUME NEW t \in Tasks PROVE PoolStatus(t) \in {"new", "done"}
    <3>1. t \in done \/ ~(given[t] > 0)
      <4>1. \A w \in Threads : pc'[w] = "exit"
        BY <2>1
      <4>2. Queued' = {} /\ waiting' = {}
        BY <4>1 DEF DrainInv, Done, TurnInv
      <4>3. ~Spots(t)'
        BY <4>1, <4>2 DEF Spots, Carries, Counted, OnCpu
      <4>4. NoTaskLost'
        BY DEF IInv
      <4>5. given'[t] > 0 /\ t \notin done' => Located(t)'
        BY <4>4 DEF NoTaskLost
      <4> QED
        BY <2>1, <4>3, <4>5, SpotsFacts
    <3>2. StatusIs(t, "new") \/ StatusIs(t, "done")
        BY <2>2, <3>1 DEF StatusIs
    <3> QED
        BY <3>2, StatusFacts
  <2>5. Pool!Close
    BY <2>1, <2>3, <2>4 DEF Pool!Close
  <2> QED
    BY <2>5 DEF Pool!Next
<1>6. CASE ~Start /\ ~Join
  <2>1. Opened' = Opened /\ (Controller => UNCHANGED pc)
    <3>1. ASSUME NEW w \in Threads, Worker(w) PROVE UNCHANGED ctl
        BY <1>1, <3>1, HeedsFacts DEF Heeds
    <3>2. CASE UNCHANGED vars
        BY <3>2 DEF vars, flagVars, Opened
    <3>3. CASE Controller
        BY <1>6, <3>3 DEF Controller, MainSchedules, Stop, StopPoll1, StopPoll2, flagVars, Opened
    <3> QED
        BY <3>1, <3>2, <3>3 DEF Next, Opened
  <2>2. ASSUME NEW w \in Threads, WorkerStep(w) PROVE pc[w] \notin {"none", "exit"}
    BY <2>2 DEF WorkerStep, Picks, SwapsIn, SwapsInCb, Exits, Readies, Registers, Parks, Finishes,
                SettlesReady, SettlesHeld, SettlesEnded, WakeTakes, WakeAdds
  <2>3. ASSUME NEW w \in Threads, WorkerStep(w)
        PROVE  [Pool!Next]_<<[t \in Tasks |-> PoolStatus(t)], ctl \notin {"new", "stopped"}>>
    <3>1. Opened /\ Opened'
        BY <1>1, <2>1, <2>2, <2>3 DEF ControlInv, Opened
    <3>2. CASE UNCHANGED <<given, done>> /\ \A t \in Tasks : Active(t)' <=> Active(t)
        BY <1>3, <2>1, <3>2
    <3>3. CASE \/ \E f \in Fibers : SwapsIn(w, f)
               \/ \E g \in PoolFibers, c \in Tasks : SwapsInCb(w, c, g)
      <4>1. \E t \in Tasks : Pool!Dispatch(t)
        BY <1>1, <3>1, <3>3, DispatchPool
      <4> QED
        BY <4>1 DEF Pool!Next
    <3>4. CASE \E f \in Fibers, s \in States : Readies(w, f) \/ Finishes(w, f, s)
      <4>1. \E t \in Tasks : Pool!Suspend(t) \/ Pool!Complete(t)
        BY <1>1, <2>1, <3>4, SuspendPool
      <4> QED
        BY <4>1 DEF Pool!Next
    <3> QED
        BY <1>1, <2>3, <3>2, <3>3, <3>4, IdlePool
  <2>4. CASE Quiet \/ Fails
    <3>1. UNCHANGED <<job, ft, cb_fiber, given, done>>
        BY <2>4 DEF Quiet, Fails
    <3>2. \A w \in Threads : pc'[w] = "running" <=> pc[w] = "running"
        BY <2>4 DEF Quiet, Fails, Resting
    <3>3. \A t \in Tasks : Active(t)' <=> Active(t)
        BY <3>1, <3>2 DEF Active, Cur
    <3> QED
        BY <1>3, <2>1, <3>1, <3>3
  <2>5. ASSUME NEW t \in Tasks, NEW p \in Threads \cup {None}, Submits(t, p) PROVE Pool!Next
    <3>1. Pool!Submit(t)
        BY <1>1, <2>1, <2>5, SubmitPool
    <3> QED
        BY <3>1 DEF Pool!Next
  <2> QED
    BY <1>2, <2>3, <2>4, <2>5 DEF AnyStep
<1> QED
    BY <1>4, <1>5, <1>6

\* The scheduler implements the task pool: a turn of a task begins when the task is ready, on one
\* worker; a task that has ended does not run again; and stop() returns, closing the pool, only
\* when every task that was scheduled is done.
THEOREM PoolCorrect == ASSUME MaxSchedule <= 1, MayHold = FALSE, Pins = {} PROVE Spec => PoolSpec
<1>1. Init => Pool!Init
  <2>1. SUFFICES ASSUME Init PROVE Pool!Init
    OBVIOUS
  <2>2. ctl = "new" /\ done = {} /\ (\A w \in Threads : pc[w] = "none") /\ \A t \in Tasks : given[t] = 0
    BY <2>1 DEF Init
  <2>3. \A t \in Tasks : PoolStatus(t) = "new"
    BY <2>2 DEF PoolStatus
  <2> QED
    BY <2>2, <2>3 DEF Pool!Init
<1>2. Init => JobInv
    BY InitJob
<1>3. IInv /\ TurnInv /\ JobInv /\ [Next]_vars => JobInv'
  <2>1. SUFFICES ASSUME IInv, TurnInv, JobInv, [Next]_vars PROVE JobInv'
    OBVIOUS
  <2>2. fault = "none" /\ TypeInv /\ ControlInv /\ LocalInv /\ OneRef /\ StateInv /\ PlaceInv
    BY <2>1 DEF IInv, TurnInv
  <2> QED
    BY <2>1, <2>2, NextSteps, NextJob
<1>4. /\ IInv /\ TurnInv /\ DrainInv /\ JobInv /\ (IInv /\ TurnInv /\ DrainInv)' /\ [Next]_vars
      => [Pool!Next]_<<[t \in Tasks |-> PoolStatus(t)], ctl \notin {"new", "stopped"}>>
    BY NextPool
<1> QED
    BY <1>1, <1>2, <1>3, <1>4, DrainsInv, PTL DEF Spec, PoolSpec, Pool!Spec
=============================================================================
