------------------------------- MODULE HookIO -------------------------------
(***************************************************************************)
(* The hooked blocking calls (myhttp/hook.cpp): do_io, behind read, write, *)
(* accept and their relatives, connect_with_timeout, and sleep, usleep and *)
(* nanosleep.  One fiber makes any number of calls on one event of one     *)
(* descriptor, while workers run the callbacks of its timers.              *)
(*                                                                         *)
(* Timers and events are used by what TimerManager and IOManager promise:  *)
(* a queued timer is handed out once, not early, unless it is cancelled    *)
(* before; a registered event is triggered once, by readiness or by a      *)
(* cancellation.  Time is relative: a timer knows what is left of it and a *)
(* call how long it has lasted, up to Timeout.                             *)
(***************************************************************************)
EXTENDS Integers

CONSTANTS
    Slots,      \* places for timers that are queued or whose callback is due
    NoTimer,    \* the null Timer::ptr
    Timeout,    \* the timeout, or time to sleep, of a call (ms)
    MaxCancel,  \* bound: events cancelled from outside per call
    Kinds       \* the calls the fiber makes

ASSUME HookIOConstants ==
    /\ NoTimer \notin Slots
    /\ Timeout \in Nat /\ MaxCancel \in Nat \ {0}
    /\ Kinds \subseteq {"io", "connect", "sleep"}

VARIABLES
    pc,         \* step of the call
    kind,       \* the call
    timed,      \* a timeout is set
    age,        \* how long the call has lasted
    timer,      \* the local Timer::ptr
    cancelled,  \* tinfo->cancelled of this call is ETIMEDOUT
    state,      \* per timer: "none", "queued", "due" or "locked"
    left,       \* per timer: time to its deadline
    mine,       \* the timers whose winfo refers to the tinfo of this call
    registered, \* the event is registered
    scheduled,  \* how often the fiber is in the scheduler's queue
    ready,      \* kernel: the descriptor is ready
    conn,       \* kernel: "none", "progress", "up" or "failed"
    meddled,    \* how often the wait of this call ended or failed for a reason
                \* that is not its own
    result      \* of the last call: "ok", "timeout" or "error"

callVars == <<pc, kind, timed, age, timer, cancelled>>
timerVars == <<state, left, mine>>
eventVars == <<registered, scheduled>>
kernelVars == <<ready, conn>>
vars == <<callVars, timerVars, eventVars, kernelVars, meddled, result>>

Init ==
    /\ pc = "idle" /\ kind = "io" /\ timed = FALSE /\ age = 0
    /\ timer = NoTimer /\ cancelled = FALSE
    /\ state = [s \in Slots |-> "none"]
    /\ left = [s \in Slots |-> 0]
    /\ mine = {}
    /\ registered = FALSE /\ scheduled = 0
    /\ ready = FALSE /\ conn = "none"
    /\ meddled = 0 /\ result = "ok"

-----------------------------------------------------------------------------
(* The fiber. *)

\* A call begins with a fresh tinfo.  A call that is not hooked, or on a
\* descriptor that is unknown, no socket or non-blocking for the user, is the
\* system call itself and is not modelled.
Call(k, t) ==
    /\ pc = "idle" /\ k \in Kinds
    /\ kind' = k /\ timed' = (t \/ k = "sleep") /\ age' = 0
    /\ cancelled' = FALSE /\ meddled' = 0 /\ result' = "ok"
    /\ pc' = IF k = "sleep" THEN "arm" ELSE "try"
    /\ UNCHANGED <<timer, timerVars, eventVars, kernelVars>>

\* The call returns; its tinfo is destroyed and every winfo of it expires.
Return(r) ==
    /\ pc' = "idle" /\ result' = r
    /\ timer' = NoTimer
    /\ mine' = {}
    /\ UNCHANGED <<kind, timed, age, cancelled, left, scheduled, meddled>>

\* do_io: the system call, repeated on EINTR.
TryIo ==
    /\ pc = "try" /\ kind = "io"
    /\ IF conn # "up" \/ ready
       THEN /\ Return(IF conn = "up" THEN "ok" ELSE "error")
            /\ ready' = (ready /\ conn # "up")
       ELSE /\ pc' = "arm"
            /\ UNCHANGED <<kind, timed, age, timer, cancelled, mine, left,
                           scheduled, meddled, ready, result>>
    /\ UNCHANGED <<state, registered, conn>>

\* connect_f: at once, in progress, or an error (also for a socket that is
\* connected or connecting already).
TryConnect ==
    /\ pc = "try" /\ kind = "connect"
    /\ \/ /\ conn \in {"none", "failed"} /\ conn' = "up"
          /\ Return("ok")
       \/ /\ conn' = IF conn = "none" THEN "failed" ELSE conn
          /\ Return("error")
       \/ /\ conn \in {"none", "failed"} /\ conn' = "progress"
          /\ pc' = "arm"
          /\ UNCHANGED <<kind, timed, age, timer, cancelled, mine, left,
                         scheduled, meddled, result>>
    /\ UNCHANGED <<state, registered, ready>>

\* addTimer(Timeout, ...): timer s is queued.
AddTimer(s) ==
    /\ state[s] = "none"
    /\ state' = [state EXCEPT ![s] = "queued"]
    /\ left' = [left EXCEPT ![s] = Timeout]
    /\ mine' = mine \cup {s}
    /\ timer' = s

\* addConditiaonTimer(to, callback, winfo), when the call has a timeout.
Arm ==
    /\ pc = "arm" /\ kind # "sleep"
    /\ IF timed THEN \E s \in Slots : AddTimer(s)
       ELSE UNCHANGED <<timerVars, timer>>
    /\ pc' = "event"
    /\ UNCHANGED <<kind, timed, age, cancelled, eventVars, kernelVars, meddled,
                   result>>

\* sleep, usleep and nanosleep: addTimer and YieldToHold.  Timeout is the
\* time in whole milliseconds that is passed to addTimer.
Sleep ==
    /\ pc = "arm" /\ kind = "sleep"
    /\ \E s \in Slots : AddTimer(s)
    /\ pc' = "wait"
    /\ UNCHANGED <<kind, timed, age, cancelled, eventVars, kernelVars, meddled,
                   result>>

\* timer->cancel(): no effect once the callback has been handed out.
CancelTimer ==
    state' = [s \in Slots |-> IF s = timer /\ state[s] = "queued" THEN "none"
                              ELSE state[s]]

\* addEvent(fd, event), and YieldToHold when it succeeds.
AddEvent ==
    /\ pc = "event"
    /\ registered' = TRUE
    /\ pc' = "wait"
    /\ UNCHANGED <<kind, timed, age, timer, cancelled, timerVars, scheduled,
                   kernelVars, meddled, result>>

\* Something other than readiness and the call's own timeout interferes.
Disturbed(m) == IF m = 0 THEN 1 ELSE m

\* addEvent fails: do_io gives up, connect goes on to ask for SO_ERROR.
AddEventFails ==
    /\ pc = "event"
    /\ CancelTimer
    /\ meddled' = Disturbed(meddled)
    /\ IF kind = "io"
       THEN /\ pc' = "idle" /\ result' = "error" /\ timer' = NoTimer
            /\ mine' = {}
       ELSE pc' = "check" /\ UNCHANGED <<result, timer, mine>>
    /\ UNCHANGED <<kind, timed, age, cancelled, left, eventVars, kernelVars>>

\* The scheduler swaps the fiber in; a sleep is over.
Resume ==
    /\ pc = "wait" /\ scheduled > 0
    /\ scheduled' = scheduled - 1
    /\ IF kind = "sleep"
       THEN /\ pc' = "idle" /\ result' = "ok" /\ timer' = NoTimer
            /\ mine' = {}
       ELSE pc' = "woken" /\ UNCHANGED <<result, timer, mine>>
    /\ UNCHANGED <<kind, timed, age, cancelled, state, left, registered,
                   kernelVars, meddled>>

\* Mutant: the result does not depend on tinfo->cancelled.
WokenIgnoresTimeout ==
    /\ pc = "woken"
    /\ CancelTimer
    /\ pc' = IF kind = "io" THEN "try" ELSE "check"
    /\ UNCHANGED <<kind, timed, age, timer, cancelled, mine, left, scheduled,
                   meddled, result, registered, kernelVars>>

\* After YieldToHold: the timer is cancelled, a timeout is reported, do_io
\* retries and connect asks for SO_ERROR.
Woken ==
    /\ pc = "woken"
    /\ CancelTimer
    /\ IF cancelled
       THEN Return("timeout")
       ELSE /\ pc' = IF kind = "io" THEN "try" ELSE "check"
            /\ UNCHANGED <<kind, timed, age, timer, cancelled, mine, left,
                           scheduled, meddled, result>>
    /\ UNCHANGED <<registered, kernelVars>>

\* getsockopt(SO_ERROR): no error is pending while the connection is still in
\* progress.
CheckError ==
    /\ pc = "check"
    /\ Return(IF conn = "failed" THEN "error" ELSE "ok")
    /\ UNCHANGED <<state, registered, kernelVars>>

-----------------------------------------------------------------------------
(* Timers: TimerManager and the workers that run the callbacks. *)

\* listExpiredCb hands the callback out.
Expire(s) ==
    /\ state[s] = "queued" /\ left[s] = 0
    /\ state' = [state EXCEPT ![s] = "due"]
    /\ UNCHANGED <<callVars, left, mine, eventVars, kernelVars, meddled, result>>

\* The callback of sleep: schedule(fiber).
SleepCb(s) ==
    /\ state[s] = "due" /\ s \in mine /\ kind = "sleep"
    /\ scheduled' = scheduled + 1
    /\ state' = [state EXCEPT ![s] = "none"]
    /\ UNCHANGED <<callVars, left, mine, registered, kernelVars, meddled, result>>

\* Mutant: the tinfo is that of whatever call is under way.
TimeoutCbAnyCall(s) ==
    /\ state[s] = "due" /\ ~(s \in mine /\ kind = "sleep")
    /\ cancelled' = TRUE
    /\ state' = [state EXCEPT ![s] = "locked"]
    /\ UNCHANGED <<pc, kind, timed, age, timer, left, mine, eventVars,
                   kernelVars, meddled, result>>

\* The callback of a timeout, up to cancelEvent: nothing when the call is over
\* or has timed out already.
TimeoutCb(s) ==
    /\ state[s] = "due" /\ ~(s \in mine /\ kind = "sleep")
    /\ IF s \in mine /\ ~cancelled
       THEN /\ cancelled' = TRUE
            /\ state' = [state EXCEPT ![s] = "locked"]
       ELSE /\ state' = [state EXCEPT ![s] = "none"]
            /\ UNCHANGED cancelled
    /\ UNCHANGED <<pc, kind, timed, age, timer, left, mine, eventVars,
                   kernelVars, meddled, result>>

\* Mutant: the timeout schedules the fiber whether or not it is registered.
CancelEventAlways(s) ==
    /\ state[s] = "locked"
    /\ state' = [state EXCEPT ![s] = "none"]
    /\ registered' = FALSE
    /\ scheduled' = scheduled + 1
    /\ UNCHANGED <<callVars, left, mine, kernelVars, meddled, result>>

\* Mutant: the timeout calls delEvent, which triggers nothing.
CancelEventDeletes(s) ==
    /\ state[s] = "locked"
    /\ state' = [state EXCEPT ![s] = "none"]
    /\ registered' = FALSE
    /\ UNCHANGED <<callVars, left, mine, scheduled, kernelVars, meddled, result>>

\* iom->cancelEvent(fd, event): triggers the event if one is registered, by
\* this call or by a later one.
CancelEvent(s) ==
    /\ state[s] = "locked"
    /\ state' = [state EXCEPT ![s] = "none"]
    /\ registered' = FALSE
    /\ scheduled' = IF registered THEN scheduled + 1 ELSE scheduled
    /\ meddled' = IF registered /\ s \notin mine
                  THEN Disturbed(meddled) ELSE meddled
    /\ UNCHANGED <<callVars, left, mine, kernelVars, result>>

-----------------------------------------------------------------------------
(* The rest of the world. *)

\* epoll reports the descriptor, and the event is triggered.
Report ==
    /\ registered
    /\ IF kind = "connect" THEN conn \in {"up", "failed"} ELSE ready
    /\ registered' = FALSE
    /\ scheduled' = scheduled + 1
    /\ UNCHANGED <<callVars, timerVars, kernelVars, meddled, result>>

\* Another thread cancels the event (Socket::cancelAll and the like).
CancelledOutside ==
    /\ registered /\ meddled < MaxCancel
    /\ registered' = FALSE
    /\ scheduled' = scheduled + 1
    /\ meddled' = meddled + 1
    /\ UNCHANGED <<callVars, timerVars, kernelVars, result>>

\* The peer sends or receives.
BecomeReady ==
    /\ conn = "up" /\ ~ready
    /\ ready' = TRUE
    /\ UNCHANGED <<callVars, timerVars, eventVars, conn, meddled, result>>

\* The connection is established or refused.
Settled ==
    /\ conn = "progress"
    /\ conn' \in {"up", "failed"}
    /\ UNCHANGED <<callVars, timerVars, eventVars, ready, meddled, result>>

\* The descriptor is closed and its number is used by a new socket; nobody is
\* inside a call.
Reopen ==
    /\ pc = "idle"
    /\ conn' = "none" /\ ready' = FALSE
    /\ UNCHANGED <<callVars, timerVars, eventVars, meddled, result>>

\* A millisecond passes.
Tick ==
    /\ age' = IF age < Timeout /\ pc # "idle" THEN age + 1 ELSE age
    /\ left' = [s \in Slots |-> IF left[s] > 0 THEN left[s] - 1 ELSE 0]
    /\ UNCHANGED <<pc, kind, timed, timer, cancelled, state, mine, eventVars,
                   kernelVars, meddled, result>>

Fiber ==
    TryIo \/ TryConnect \/ Arm \/ Sleep \/ AddEvent \/ AddEventFails \/ Resume
      \/ Woken \/ CheckError

Worker(s) == Expire(s) \/ SleepCb(s) \/ TimeoutCb(s) \/ CancelEvent(s)

World == Report \/ CancelledOutside \/ BecomeReady \/ Settled \/ Reopen \/ Tick

Next ==
    \/ \E k \in Kinds, t \in BOOLEAN : Call(k, t)
    \/ Fiber
    \/ \E s \in Slots : Worker(s)
    \/ World

Spec == Init /\ [][Next]_vars

\* The fiber runs when it can, workers run callbacks, reports are handled and
\* time passes.  Nothing makes a call begin, a peer answer or an event be
\* cancelled from outside.
Fairness ==
    /\ WF_vars(Fiber)
    /\ \A s \in Slots : WF_vars(Worker(s))
    /\ WF_vars(Report)
    /\ WF_vars(Tick)

FairSpec == Spec /\ Fairness

-----------------------------------------------------------------------------
(* Properties. *)

\* Type invariant: the locals of the call, the timers and the event.
TypeOK ==
    /\ pc \in {"idle", "try", "arm", "event", "wait", "woken", "check"}
    /\ kind \in {"io", "connect", "sleep"} /\ timed \in BOOLEAN
    /\ age \in 0 .. Timeout /\ timer \in Slots \cup {NoTimer}
    /\ cancelled \in BOOLEAN
    /\ state \in [Slots -> {"none", "queued", "due", "locked"}]
    /\ left \in [Slots -> 0 .. Timeout] /\ mine \subseteq Slots
    /\ registered \in BOOLEAN /\ scheduled \in 0 .. 1
    /\ ready \in BOOLEAN /\ conn \in {"none", "progress", "up", "failed"}
    /\ meddled \in 0 .. MaxCancel /\ result \in {"ok", "timeout", "error"}

\* The fiber is scheduled only while it waits, and only once per wait: the
\* event, the timeout and a cancellation from outside never wake it twice, and
\* a late timeout of an earlier call never wakes a fiber that does not wait.
ScheduledOnce ==
    scheduled > 0 => scheduled = 1 /\ pc = "wait" /\ ~registered

Returns == pc # "idle" /\ pc' = "idle"

\* A call reports ETIMEDOUT, and a sleep ends, only when its time has passed
\* since the call: neither the late timeout of an earlier call on the same
\* descriptor nor a timer of an earlier attempt makes a call give up early.
NotBeforeTime ==
    [][Returns /\ (result' = "timeout" \/ kind = "sleep") => age = Timeout]_vars

\* connect_with_timeout returns 0 only on an established connection, unless its
\* event could not be added or was cancelled by somebody else: the timeout
\* itself is never taken for success, whichever of it and the event is first.
ConnectTruthful ==
    [][Returns /\ kind = "connect" /\ result' = "ok" =>
         conn' = "up" \/ meddled > 0]_vars

\* A sleep, or a call with a timeout, returns even if the peer never answers,
\* unless the timeout callback ran before the event was added (the callback
\* then finds no event to cancel, and later timers of the call do nothing).
CallReturns ==
    (pc # "idle" /\ timed /\ ~cancelled) ~>
      (pc = "idle" \/ (pc = "event" /\ cancelled))
=============================================================================
