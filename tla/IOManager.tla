----------------------------- MODULE IOManager -----------------------------
(***************************************************************************)
(* The event table of IOManager (myhttp/iomanager.cpp): FdContext,         *)
(* addEvent, delEvent, cancelEvent, cancelAll and the event half of        *)
(* idle(), against the kernel's epoll interest list, with the close() hook *)
(* (myhttp/hook.cpp) that cancels the events of a descriptor first.        *)
(*                                                                         *)
(* The epoll instance and the readiness of the sockets are the             *)
(* environment.  A waiter is the user of one event of one descriptor: it   *)
(* registers the event, is scheduled when the event is triggered, and      *)
(* retries its I/O (do_io in hook.cpp).                                    *)
(***************************************************************************)
EXTENDS Integers, FiniteSets

CONSTANTS
    Fds,           \* descriptors: natural numbers, the indices of m_fdContexts
    InitSize,      \* m_fdContexts.size() after the constructor (32)
    MaxGen,        \* bound: FdContext objects per descriptor, beyond the first
    MaxOpen,       \* bound: how often a descriptor is opened
    Pollers,       \* worker threads in IOManager::idle
    None,          \* no event fetched
    RetryOnClosing \* waiters may retry while close() is under way

Ev == {"READ", "WRITE"}
Waiters == Fds \X Ev
Objs == Fds \X (0 .. MaxGen)  \* FdContext objects: descriptor and generation

ASSUME IOManagerConstants ==
    /\ Fds \subseteq Nat /\ IsFiniteSet(Fds)
    /\ {InitSize, MaxGen, MaxOpen} \subseteq Nat
    /\ RetryOnClosing \in BOOLEAN
    /\ None \notin Objs \X SUBSET (Ev \cup {"ERR"})

VARIABLES
    m_size,        \* m_fdContexts.size()
    gen,           \* per descriptor: its newest FdContext
    events,        \* FdContext::events; the EventContexts of exactly these
                   \* events are set
    m_pendingEventCount,
    interest,      \* kernel: events asked for, per descriptor; {} is absent
    owner,         \* kernel: data.ptr of the entry
    ready,         \* kernel: what the descriptor is ready for; "ERR" is
                   \* EPOLLERR or EPOLLHUP
    armed,         \* kernel, edge-triggered: a report is due
    opened,        \* how often the descriptor was opened
    closing,       \* per descriptor: "open", "closing" or "closed"
    wpc,           \* per waiter: "run", "lookup", "resize", "add", "wait"
    wobj,          \* per waiter: the local fd_ctx
    scheduled,     \* per waiter: how often it is in the scheduler's queue
    got,           \* per poller: the report it is handling
    fault          \* a failed MYHTTP_ASSERT

epollVars == <<interest, owner, armed>>
sockVars == <<ready, opened, closing>>
vars == <<m_size, gen, events, m_pendingEventCount, epollVars, sockVars, wpc,
          wobj, scheduled, got, fault>>

Init ==
    /\ m_size = InitSize
    /\ gen = [fd \in Fds |-> 0]
    /\ events = [o \in Objs |-> {}]
    /\ m_pendingEventCount = 0
    /\ interest = [fd \in Fds |-> {}]
    /\ owner = [fd \in Fds |-> 0]
    /\ ready = [fd \in Fds |-> {}]
    /\ armed = [fd \in Fds |-> FALSE]
    /\ opened = [fd \in Fds |-> 1]
    /\ closing = [fd \in Fds |-> "open"]
    /\ wpc = [w \in Waiters |-> "run"]
    /\ wobj = [w \in Waiters |-> 0]
    /\ scheduled = [w \in Waiters |-> 0]
    /\ got = [p \in Pollers |-> None]
    /\ fault = "none"

-----------------------------------------------------------------------------
(* epoll. *)

\* epoll_ctl on descriptor fd of FdContext o, whose events were old and become
\* new: ADD, MOD or DEL as the code derives it from the two.  It fails when
\* the kernel does not know the descriptor as the code believes.
CtlFails(fd, old) ==
    \/ closing[fd] = "closed"
    \/ (old = {}) # (interest[fd] = {})

Ctl(fd, g, new) ==
    /\ interest' = [interest EXCEPT ![fd] = new]
    /\ owner' = [owner EXCEPT ![fd] = IF new = {} THEN 0 ELSE g]
    /\ armed' = [armed EXCEPT ![fd] = new # {}]

\* What epoll_wait would report: errors are always reported.
Reportable(fd) ==
    IF interest[fd] = {} THEN {}
    ELSE (ready[fd] \cap interest[fd]) \cup (ready[fd] \cap {"ERR"})

-----------------------------------------------------------------------------
(* FdContext. *)

\* triggerEvent(event) for every event in evs, in order READ, WRITE: asserts
\* that the event is registered and schedules its fiber or callback.
TriggerFails(o, evs) == ~(evs \subseteq events[o])

\* Mutant: m_pendingEventCount is decremented once for both events.
TriggerCountsOnce(o, evs) ==
    /\ events' = [events EXCEPT ![o] = @ \ evs]
    /\ scheduled' = [w \in Waiters |->
                       IF w[1] = o[1] /\ w[2] \in evs /\ scheduled[w] < 2
                       THEN scheduled[w] + 1 ELSE scheduled[w]]
    /\ m_pendingEventCount' = m_pendingEventCount - 1

\* Mutant: triggerEvent() schedules the fiber but leaves the event registered.
TriggerKeepsEvent(o, evs) ==
    /\ UNCHANGED events
    /\ scheduled' = [w \in Waiters |->
                       IF w[1] = o[1] /\ w[2] \in evs /\ scheduled[w] < 2
                       THEN scheduled[w] + 1 ELSE scheduled[w]]
    /\ m_pendingEventCount' = m_pendingEventCount - Cardinality(evs)

Trigger(o, evs) ==
    /\ events' = [events EXCEPT ![o] = @ \ evs]
    /\ scheduled' = [w \in Waiters |->
                       IF w[1] = o[1] /\ w[2] \in evs /\ scheduled[w] < 2
                       THEN scheduled[w] + 1 ELSE scheduled[w]]
    /\ m_pendingEventCount' = m_pendingEventCount - Cardinality(evs)

\* An assertion fails: the process aborts.
Abort(which) ==
    /\ fault' = which
    /\ UNCHANGED <<m_size, gen, events, m_pendingEventCount, epollVars, sockVars,
                   wpc, wobj, scheduled, got>>

-----------------------------------------------------------------------------
(* addEvent, by a waiter whose I/O returned EAGAIN. *)

GotoW(w, label) == wpc' = [wpc EXCEPT ![w] = label]

\* The I/O call returns EAGAIN.
TryAgain(w) ==
    /\ wpc[w] = "run" /\ scheduled[w] = 0
    /\ closing[w[1]] = "open" \/ (RetryOnClosing /\ closing[w[1]] = "closing")
    /\ ready[w[1]] \cap {w[2], "ERR"} = {}
    /\ GotoW(w, "lookup")
    /\ UNCHANGED <<m_size, gen, events, m_pendingEventCount, epollVars, sockVars,
                   wobj, scheduled, got, fault>>

\* Under the read lock: fetch the FdContext, if the vector is large enough.
Lookup(w) ==
    /\ wpc[w] = "lookup"
    /\ IF m_size > w[1]
       THEN GotoW(w, "add") /\ wobj' = [wobj EXCEPT ![w] = gen[w[1]]]
       ELSE GotoW(w, "resize") /\ UNCHANGED wobj
    /\ UNCHANGED <<m_size, gen, events, m_pendingEventCount, epollVars, sockVars,
                   scheduled, got, fault>>

\* contextResize(n): FdContexts are made for new indices; a smaller n drops
\* the pointers beyond it.
Resized(n) ==
    [fd \in Fds |-> IF m_size <= fd /\ fd < n THEN gen[fd] + 1 ELSE gen[fd]]

\* Under the write lock, taken anew: contextResize(fd * 1.5).
Resize(w) ==
    LET n == (w[1] * 3) \div 2 IN
    /\ wpc[w] = "resize"
    /\ \A fd \in Fds : Resized(n)[fd] <= MaxGen
    /\ gen' = Resized(n)
    /\ m_size' = n
    /\ wobj' = [wobj EXCEPT ![w] = Resized(n)[w[1]]]
    /\ GotoW(w, "add")
    /\ UNCHANGED <<events, m_pendingEventCount, epollVars, sockVars, scheduled,
                   got, fault>>

\* Mutant: epoll_ctl is called for the first event of a descriptor only.
AddEventNoMod(w) ==
    LET fd == w[1]
        o == <<fd, wobj[w]>>
    IN
    /\ wpc[w] = "add"
    /\ w[2] \notin events[o] /\ ~CtlFails(fd, events[o])
    /\ IF events[o] = {}
       THEN Ctl(fd, wobj[w], {w[2]})
       ELSE UNCHANGED epollVars
    /\ m_pendingEventCount' = m_pendingEventCount + 1
    /\ events' = [events EXCEPT ![o] = @ \cup {w[2]}]
    /\ GotoW(w, "wait")
    /\ UNCHANGED <<m_size, gen, sockVars, wobj, scheduled, got, fault>>

\* Under the lock of the FdContext.  A failing epoll_ctl makes the I/O call
\* return -1; otherwise the fiber yields until it is scheduled.
AddEvent(w) ==
    LET fd == w[1]
        o == <<fd, wobj[w]>>
    IN
    /\ wpc[w] = "add"
    /\ IF w[2] \in events[o]
       THEN Abort("addEvent")
       ELSE IF CtlFails(fd, events[o])
       THEN /\ GotoW(w, "run")
            /\ UNCHANGED <<m_size, gen, events, m_pendingEventCount,
                           epollVars, sockVars, wobj, scheduled, got, fault>>
       ELSE /\ Ctl(fd, wobj[w], events[o] \cup {w[2]})
            /\ m_pendingEventCount' = m_pendingEventCount + 1
            /\ events' = [events EXCEPT ![o] = @ \cup {w[2]}]
            /\ GotoW(w, "wait")
            /\ UNCHANGED <<m_size, gen, sockVars, wobj, scheduled, got, fault>>

\* The scheduler resumes the waiter, which retries its I/O and consumes what
\* the descriptor was ready for.
Resume(w) ==
    /\ wpc[w] = "wait" /\ scheduled[w] > 0
    /\ scheduled' = [scheduled EXCEPT ![w] = @ - 1]
    /\ ready' = [ready EXCEPT ![w[1]] = @ \ {w[2]}]
    /\ GotoW(w, "run")
    /\ UNCHANGED <<m_size, gen, events, m_pendingEventCount, interest,
                   owner, armed, opened, closing, wobj, got, fault>>

-----------------------------------------------------------------------------
(* delEvent, cancelEvent, cancelAll.  The vector lookup and the locked part  *)
(* are one step: FdContext objects are never destroyed while in use.         *)

Current(fd) == <<fd, gen[fd]>>

\* Mutant: delEvent() does not tell the kernel.
DelEventNoCtl(w) ==
    LET o == Current(w[1]) IN
    /\ wpc[w] = "wait" /\ m_size > w[1] /\ w[2] \in events[o]
    /\ m_pendingEventCount' = m_pendingEventCount - 1
    /\ events' = [events EXCEPT ![o] = @ \ {w[2]}]
    /\ GotoW(w, "run")
    /\ UNCHANGED <<m_size, gen, epollVars, sockVars, wobj, scheduled, got, fault>>

\* The event is withdrawn without being triggered: its owner, which had
\* registered a callback, goes on by itself.
DelEvent(w) ==
    LET fd == w[1]
        o == Current(fd)
    IN
    /\ wpc[w] = "wait"
    /\ m_size > fd /\ w[2] \in events[o] /\ ~CtlFails(fd, events[o])
    /\ Ctl(fd, gen[fd], events[o] \ {w[2]})
    /\ m_pendingEventCount' = m_pendingEventCount - 1
    /\ events' = [events EXCEPT ![o] = @ \ {w[2]}]
    /\ GotoW(w, "run")
    /\ UNCHANGED <<m_size, gen, sockVars, wobj, scheduled, got, fault>>

\* A timeout, or Socket::cancelRead and the like.
CancelEvent(fd, ev) ==
    LET o == Current(fd) IN
    /\ m_size > fd /\ ev \in events[o] /\ ~CtlFails(fd, events[o])
    /\ Ctl(fd, gen[fd], events[o] \ {ev})
    /\ Trigger(o, {ev})
    /\ UNCHANGED <<m_size, gen, sockVars, wpc, wobj, got, fault>>

\* cancelAll(fd), which does nothing when no event is registered.
CancelAllBody(fd) ==
    LET o == Current(fd) IN
    IF m_size > fd /\ events[o] # {} /\ ~CtlFails(fd, events[o])
    THEN Ctl(fd, gen[fd], {}) /\ Trigger(o, events[o])
    ELSE UNCHANGED <<epollVars, events, scheduled, m_pendingEventCount>>

\* Socket::cancelAll().
CancelAll(fd) ==
    /\ CancelAllBody(fd)
    /\ UNCHANGED <<m_size, gen, sockVars, wpc, wobj, got, fault>>

-----------------------------------------------------------------------------
(* The close() hook: cancelAll, FdManager::del (which does nothing), then    *)
(* the system call.                                                          *)

Registering(fd) ==
    \E ev \in Ev : wpc[<<fd, ev>>] \in {"lookup", "resize", "add"}

\* Mutant: the close() hook forgets cancelAll().
CloseNoCancel(fd) ==
    /\ closing[fd] = "open" /\ (Registering(fd) => RetryOnClosing)
    /\ closing' = [closing EXCEPT ![fd] = "closing"]
    /\ UNCHANGED <<m_size, gen, events, m_pendingEventCount, epollVars, ready,
                   opened, wpc, wobj, scheduled, got, fault>>

\* The hook up to the system call.
CloseCancels(fd) ==
    /\ closing[fd] = "open" /\ (Registering(fd) => RetryOnClosing)
    /\ CancelAllBody(fd)
    /\ closing' = [closing EXCEPT ![fd] = "closing"]
    /\ UNCHANGED <<m_size, gen, ready, opened, wpc, wobj, got, fault>>

\* close_f(fd): the kernel forgets the descriptor, its interest entry included.
CloseSystem(fd) ==
    /\ closing[fd] = "closing"
    /\ closing' = [closing EXCEPT ![fd] = "closed"]
    /\ interest' = [interest EXCEPT ![fd] = {}]
    /\ owner' = [owner EXCEPT ![fd] = 0]
    /\ armed' = [armed EXCEPT ![fd] = FALSE]
    /\ ready' = [ready EXCEPT ![fd] = {}]
    /\ UNCHANGED <<m_size, gen, events, m_pendingEventCount, opened,
                   wpc, wobj, scheduled, got, fault>>

\* socket() or accept() returns the same descriptor number again.
Open(fd) ==
    /\ closing[fd] = "closed" /\ opened[fd] < MaxOpen
    /\ closing' = [closing EXCEPT ![fd] = "open"]
    /\ opened' = [opened EXCEPT ![fd] = @ + 1]
    /\ UNCHANGED <<m_size, gen, events, m_pendingEventCount, interest,
                   owner, ready, armed, wpc, wobj, scheduled, got, fault>>

\* The peer sends, drains, or resets the connection; the edge is reported if
\* the entry asks for it.
BecomeReady(fd, r) ==
    /\ closing[fd] = "open" /\ r \notin ready[fd]
    /\ ready' = [ready EXCEPT ![fd] = @ \cup {r}]
    /\ armed' = [armed EXCEPT ![fd] = @ \/ (interest[fd] # {}
                                            /\ r \in interest[fd] \cup {"ERR"})]
    /\ UNCHANGED <<m_size, gen, events, m_pendingEventCount, interest,
                   owner, opened, closing, wpc, wobj, scheduled, got, fault>>

-----------------------------------------------------------------------------
(* IOManager::idle: epoll_wait and the handling of one report. *)

EpollWait(p, fd) ==
    /\ got[p] = None
    /\ armed[fd] /\ Reportable(fd) # {}
    /\ got' = [got EXCEPT ![p] = <<<<fd, owner[fd]>>, Reportable(fd)>>]
    /\ armed' = [armed EXCEPT ![fd] = FALSE]
    /\ UNCHANGED <<m_size, gen, events, m_pendingEventCount, interest,
                   owner, ready, opened, closing, wpc, wobj, scheduled, fault>>

\* ERR and HUP are turned into both READ and WRITE.
RealEvents(mask) == IF "ERR" \in mask THEN Ev ELSE mask

HandleEvent(p) ==
    LET o == got[p][1]
        fd == o[1]
        real_events == RealEvents(got[p][2])
    IN
    /\ got[p] # None
    /\ IF events[o] \cap real_events = {} \/ CtlFails(fd, events[o])
       THEN /\ got' = [got EXCEPT ![p] = None]
            /\ UNCHANGED <<m_size, gen, events, m_pendingEventCount,
                           epollVars, sockVars, wpc, wobj, scheduled, fault>>
       ELSE IF TriggerFails(o, real_events)
       THEN Abort("triggerEvent")
       ELSE /\ Ctl(fd, o[2], events[o] \ real_events)
            /\ Trigger(o, real_events)
            /\ got' = [got EXCEPT ![p] = None]
            /\ UNCHANGED <<m_size, gen, sockVars, wpc, wobj, fault>>

-----------------------------------------------------------------------------

WaiterStep(w) ==
    TryAgain(w) \/ Lookup(w) \/ Resize(w) \/ AddEvent(w) \/ Resume(w)
      \/ DelEvent(w)

Poll(p) == HandleEvent(p) \/ \E fd \in Fds : EpollWait(p, fd)

Environment ==
    \E fd \in Fds :
      \/ \E ev \in Ev : CancelEvent(fd, ev)
      \/ CancelAll(fd)
      \/ CloseCancels(fd) \/ CloseSystem(fd) \/ Open(fd)
      \/ \E r \in Ev \cup {"ERR"} : BecomeReady(fd, r)

Next ==
    /\ fault = "none"
    /\ \/ \E w \in Waiters : WaiterStep(w)
       \/ \E p \in Pollers : Poll(p)
       \/ Environment

Spec == Init /\ [][Next]_vars

\* A resumed waiter, a report that has been fetched and a worker of the pool
\* go on; epoll_wait serves every ready descriptor (the kernel's ready list is
\* a queue), whatever other descriptors keep the pollers busy.
Fairness ==
    /\ \A w \in Waiters : WF_vars(fault = "none" /\ Resume(w))
    /\ \A p \in Pollers : WF_vars(fault = "none" /\ HandleEvent(p))
    /\ \A fd \in Fds :
         SF_vars(fault = "none" /\ \E p \in Pollers : EpollWait(p, fd))

FairSpec == Spec /\ Fairness

-----------------------------------------------------------------------------
(* Properties. *)

\* Type invariant: FdContext, the epoll entries and the waiters' locals.
TypeOK ==
    /\ m_size \in Nat /\ gen \in [Fds -> 0 .. MaxGen]
    /\ events \in [Objs -> SUBSET Ev]
    /\ m_pendingEventCount \in 0 .. 2 * Cardinality(Objs)
    /\ interest \in [Fds -> SUBSET Ev] /\ owner \in [Fds -> 0 .. MaxGen]
    /\ ready \in [Fds -> SUBSET (Ev \cup {"ERR"})]
    /\ armed \in [Fds -> BOOLEAN] /\ opened \in [Fds -> 1 .. MaxOpen]
    /\ closing \in [Fds -> {"open", "closing", "closed"}]
    /\ wpc \in [Waiters -> {"run", "lookup", "resize", "add", "wait"}]
    /\ wobj \in [Waiters -> 0 .. MaxGen]
    /\ scheduled \in [Waiters -> 0 .. 2]
    /\ got \in [Pollers -> {None} \cup (Objs \X SUBSET (Ev \cup {"ERR"}))]
    /\ fault \in {"none", "addEvent", "triggerEvent"}

Registered == {x \in Objs \X Ev : x[2] \in events[x[1]]}

\* m_pendingEventCount, on which stopping() relies, is the number of events
\* registered in all FdContexts.
PendingExact == m_pendingEventCount = Cardinality(Registered)

\* The kernel's interest list agrees with the FdContexts, so that the ADD, MOD
\* or DEL that each operation derives from fd_ctx->events is the right one, and
\* the FdContext that the table holds is the one its events were registered in,
\* however many threads have resized the table (iomanager.cpp, contextResize).
KernelAgrees ==
    \A fd \in Fds :
      closing[fd] # "closed" =>
        interest[fd] = IF m_size > fd THEN events[Current(fd)] ELSE {}

\* A suspended waiter is either registered or scheduled, never both and never
\* neither: every registration is triggered at most once, whether by a report,
\* a cancellation or a close.
WaiterAccounted ==
    \A w \in Waiters :
      LET registered == w[2] \in events[<<w[1], wobj[w]>>] IN
      IF wpc[w] = "wait"
      THEN scheduled[w] = IF registered THEN 0 ELSE 1
      ELSE scheduled[w] = 0

\* An edge is never lost: while a registered waiter's descriptor is ready, a
\* report is still due or a poller is holding one that wakes the waiter.
NoLostEdge ==
    \A w \in Waiters :
      LET fd == w[1]
          o == <<fd, wobj[w]>>
      IN  /\ wpc[w] = "wait" /\ w[2] \in events[o] /\ closing[fd] = "open"
          /\ ready[fd] \cap {w[2], "ERR"} # {}
          => \/ armed[fd]
             \/ \E p \in Pollers : /\ got[p] # None /\ got[p][1] = o
                                   /\ w[2] \in RealEvents(got[p][2])

\* No event stays registered for a descriptor that has been closed.
ClosedFdQuiet ==
    \A x \in Registered : closing[x[1][1]] # "closed"

\* A waiter whose descriptor is ready does not stay suspended.
ReadyWaiterResumes ==
    \A w \in Waiters :
      (wpc[w] = "wait" /\ ready[w[1]] \cap {w[2], "ERR"} # {})
        ~> (wpc[w] # "wait" \/ fault # "none")
=============================================================================
