---------------------------- MODULE HookIOProofs ----------------------------
(***************************************************************************)
(* Theorems about HookIO, for any number of timers, any timeout and any    *)
(* number of cancellations: the fiber of a hooked call is woken once per   *)
(* wait, no timeout is reported early and no timeout is taken for an       *)
(* established connection.                                                 *)
(***************************************************************************)
EXTENDS HookIO, TLAPS

-----------------------------------------------------------------------------
(* The inductive invariant. *)

\* The fiber is registered or scheduled only while it waits, and never both.
WaitInv ==
    /\ registered => pc = "wait" /\ kind # "sleep" /\ scheduled = 0
    /\ scheduled > 0 => scheduled = 1 /\ pc = "wait"

\* tinfo lives as long as the call, and a sleep has one timer, which is what
\* wakes it.
SleepInv ==
    /\ pc = "idle" => mine = {}
    /\ kind = "sleep" =>
         /\ pc \in {"idle", "arm", "wait"}
         /\ pc = "arm" => mine = {}
         /\ \A s \in mine : state[s] # "none" =>
              pc = "wait" /\ scheduled = 0 /\ state[s] # "locked"
         /\ \A s, t \in mine : s = t

\* A timer of the call is due, tinfo->cancelled is set and a sleep is
\* scheduled only when the time has passed.
AgeInv ==
    /\ \A s \in mine : state[s] = "queued" =>
         age + left[s] >= Timeout
    /\ \A s \in mine : state[s] \in {"due", "locked"} =>
         age = Timeout
    /\ cancelled /\ pc # "idle" => age = Timeout
    /\ kind = "sleep" /\ scheduled > 0 => age = Timeout

\* A fiber in connect is woken by the kernel, by its timeout or by somebody
\* else; after the test of tinfo->cancelled the timeout is ruled out.
ConnectInv ==
    /\ \A s \in mine : state[s] = "locked" => cancelled
    /\ kind = "connect" /\ (scheduled > 0 \/ pc = "woken") =>
         conn \in {"up", "failed"} \/ meddled > 0 \/ cancelled
    /\ kind = "connect" /\ pc = "check" =>
         conn \in {"up", "failed"} \/ meddled > 0

IInv == TypeOK /\ WaitInv /\ SleepInv /\ AgeInv /\ ConnectInv

-----------------------------------------------------------------------------
\* The initial state, in which no call is under way, satisfies the invariant.
LEMMA InitInv == Init => IInv
<1> SUFFICES ASSUME Init PROVE IInv
    OBVIOUS
<1>1. TypeOK
  <2>1. /\ timed \in BOOLEAN /\ cancelled \in BOOLEAN
        /\ registered \in BOOLEAN /\ ready \in BOOLEAN
    BY DEF Init
  <2>2. left \in [Slots -> 0 .. Timeout] /\ age \in 0 .. Timeout
        /\ meddled \in 0 .. MaxCancel
    BY HookIOConstants DEF Init
  <2> QED
    BY <2>1, <2>2 DEF Init, TypeOK
<1>2. WaitInv /\ SleepInv
    BY DEF Init, WaitInv, SleepInv
<1>3. AgeInv /\ ConnectInv
    BY DEF Init, AgeInv, ConnectInv
<1> QED
    BY <1>1, <1>2, <1>3 DEF IInv

\* No step of the fiber, a timer callback, the kernel or another thread breaks
\* the types.
LEMMA NextType == IInv /\ [Next]_vars => TypeOK'
<1> SUFFICES ASSUME IInv, [Next]_vars PROVE TypeOK'
    OBVIOUS
<1> USE HookIOConstants DEF IInv, TypeOK, WaitInv
<1>1. ASSUME NEW k \in Kinds, NEW t \in BOOLEAN, Call(k, t) PROVE TypeOK'
    <2>1. kind' = k /\ k \in {"io", "connect", "sleep"}
        BY <1>1 DEF Call
    <2>2. timed' \in BOOLEAN /\ cancelled' \in BOOLEAN
        BY <1>1 DEF Call
    <2> QED
        BY <1>1, <2>1, <2>2 DEF Call, timerVars, eventVars, kernelVars
<1>2. CASE TryIo
    BY <1>2 DEF TryIo, Return
<1>3. CASE TryConnect
    BY <1>3 DEF TryConnect, Return
<1>4. CASE Arm
    BY <1>4 DEF Arm, AddTimer, timerVars, eventVars, kernelVars
<1>5. CASE AddEvent
    BY <1>5 DEF AddEvent, timerVars, kernelVars
<1>6. CASE AddEventFails
    BY <1>6 DEF AddEventFails, CancelTimer, Disturbed, eventVars, kernelVars
<1>7. CASE Resume
    BY <1>7 DEF Resume, kernelVars
<1>8. CASE Woken
    BY <1>8 DEF Woken, CancelTimer, Return, kernelVars
<1>9. CASE CheckError
    BY <1>9 DEF CheckError, Return, kernelVars
<1>10. ASSUME NEW s \in Slots, Expire(s) PROVE TypeOK'
    BY <1>10 DEF Expire, callVars, eventVars, kernelVars
<1>11. ASSUME NEW s \in Slots, SleepCb(s) PROVE TypeOK'
    BY <1>11 DEF SleepCb, SleepInv, callVars, kernelVars
<1>12. ASSUME NEW s \in Slots, TimeoutCb(s) PROVE TypeOK'
    <2>1. cancelled' \in BOOLEAN
        BY <1>12 DEF TimeoutCb
    <2>2. state' \in [Slots -> {"none", "queued", "due", "locked"}]
        BY <1>12 DEF TimeoutCb
    <2> QED
        BY <1>12, <2>1, <2>2 DEF TimeoutCb, eventVars, kernelVars
<1>13. ASSUME NEW s \in Slots, CancelEvent(s) PROVE TypeOK'
    <2>1. /\ registered' \in BOOLEAN /\ ready' \in BOOLEAN
          /\ cancelled' \in BOOLEAN /\ timed' \in BOOLEAN
        BY <1>13 DEF CancelEvent, callVars, kernelVars
    <2>2. scheduled' \in 0 .. 1 /\ meddled' \in 0 .. MaxCancel
        BY <1>13 DEF CancelEvent, Disturbed
    <2> QED
        BY <1>13, <2>1, <2>2 DEF CancelEvent, callVars, kernelVars
<1>14. CASE Report
    <2>1. /\ registered' \in BOOLEAN /\ ready' \in BOOLEAN
          /\ cancelled' \in BOOLEAN /\ timed' \in BOOLEAN
        BY <1>14 DEF Report, callVars, kernelVars
    <2>2. scheduled' \in 0 .. 1
        BY <1>14 DEF Report
    <2> QED
        BY <1>14, <2>1, <2>2 DEF Report, callVars, timerVars, kernelVars
<1>15. CASE CancelledOutside
    <2>1. /\ registered' \in BOOLEAN /\ ready' \in BOOLEAN
          /\ cancelled' \in BOOLEAN /\ timed' \in BOOLEAN
        BY <1>15 DEF CancelledOutside, callVars, kernelVars
    <2>2. scheduled' \in 0 .. 1 /\ meddled' \in 0 .. MaxCancel
        BY <1>15 DEF CancelledOutside
    <2> QED
        BY <1>15, <2>1, <2>2
        DEF CancelledOutside, callVars, timerVars, kernelVars
<1>16. CASE BecomeReady
    BY <1>16 DEF BecomeReady, callVars, timerVars, eventVars
<1>17. CASE Settled
    BY <1>17 DEF Settled, callVars, timerVars, eventVars
<1>18. CASE Reopen
    BY <1>18 DEF Reopen, callVars, timerVars, eventVars
<1>19. CASE Tick
    BY <1>19 DEF Tick, eventVars, kernelVars
<1>20. CASE UNCHANGED vars
    BY <1>20 DEF vars, callVars, timerVars, eventVars, kernelVars
<1>21. CASE Sleep
    BY <1>21 DEF Sleep, AddTimer, eventVars, kernelVars
<1> QED
    BY <1>1, <1>2, <1>3, <1>4, <1>5, <1>6, <1>7, <1>8, <1>9, <1>10, <1>11,
       <1>12, <1>13, <1>14, <1>15, <1>16, <1>17, <1>18, <1>19, <1>20,
       <1>21
    DEF Next, Fiber, Worker, World

\* No step registers or schedules a fiber that does not wait, or schedules it
\* again.
LEMMA NextWait == IInv /\ [Next]_vars => WaitInv'
<1> SUFFICES ASSUME IInv, [Next]_vars PROVE WaitInv'
    OBVIOUS
<1> USE HookIOConstants DEF IInv, TypeOK, WaitInv, SleepInv
<1>1. ASSUME NEW k \in Kinds, NEW t \in BOOLEAN, Call(k, t) PROVE WaitInv'
    BY <1>1 DEF Call, timerVars, eventVars, kernelVars
<1>2. CASE TryIo
    BY <1>2 DEF TryIo, Return
<1>3. CASE TryConnect
    BY <1>3 DEF TryConnect, Return
<1>4. CASE Arm
    BY <1>4 DEF Arm, AddTimer, timerVars, eventVars, kernelVars
<1>5. CASE AddEvent
    BY <1>5 DEF AddEvent, timerVars, kernelVars
<1>6. CASE AddEventFails
    BY <1>6 DEF AddEventFails, CancelTimer, Disturbed, eventVars, kernelVars
<1>7. CASE Resume
    BY <1>7 DEF Resume, kernelVars
<1>8. CASE Woken
    BY <1>8 DEF Woken, CancelTimer, Return, kernelVars
<1>9. CASE CheckError
    BY <1>9 DEF CheckError, Return, kernelVars
<1>10. ASSUME NEW s \in Slots, Expire(s) PROVE WaitInv'
    BY <1>10 DEF Expire, callVars, eventVars, kernelVars
<1>11. ASSUME NEW s \in Slots, SleepCb(s) PROVE WaitInv'
    BY <1>11 DEF SleepCb, callVars, kernelVars
<1>12. ASSUME NEW s \in Slots, TimeoutCb(s) PROVE WaitInv'
    BY <1>12 DEF TimeoutCb, eventVars, kernelVars
<1>13. ASSUME NEW s \in Slots, CancelEvent(s) PROVE WaitInv'
    BY <1>13 DEF CancelEvent, Disturbed, callVars, kernelVars
<1>14. CASE Report
    BY <1>14 DEF Report, callVars, timerVars, kernelVars
<1>15. CASE CancelledOutside
    BY <1>15 DEF CancelledOutside, callVars, timerVars, kernelVars
<1>16. CASE BecomeReady
    BY <1>16 DEF BecomeReady, callVars, timerVars, eventVars
<1>17. CASE Settled
    BY <1>17 DEF Settled, callVars, timerVars, eventVars
<1>18. CASE Reopen
    BY <1>18 DEF Reopen, callVars, timerVars, eventVars
<1>19. CASE Tick
    BY <1>19 DEF Tick, eventVars, kernelVars
<1>20. CASE UNCHANGED vars
    BY <1>20 DEF vars, callVars, timerVars, eventVars, kernelVars
<1>21. CASE Sleep
    BY <1>21 DEF Sleep, AddTimer, eventVars, kernelVars
<1> QED
    BY <1>1, <1>2, <1>3, <1>4, <1>5, <1>6, <1>7, <1>8, <1>9, <1>10, <1>11,
       <1>12, <1>13, <1>14, <1>15, <1>16, <1>17, <1>18, <1>19, <1>20,
       <1>21
    DEF Next, Fiber, Worker, World

\* No step gives a sleep a second timer or a tinfo to a call that has returned.
LEMMA NextSleep == IInv /\ [Next]_vars => SleepInv'
<1> SUFFICES ASSUME IInv, [Next]_vars PROVE SleepInv'
    OBVIOUS
<1> USE HookIOConstants DEF IInv, TypeOK, WaitInv, SleepInv
<1>1. ASSUME NEW k \in Kinds, NEW t \in BOOLEAN, Call(k, t) PROVE SleepInv'
    BY <1>1 DEF Call, timerVars, eventVars, kernelVars
<1>2. CASE TryIo
    BY <1>2 DEF TryIo, Return
<1>3. CASE TryConnect
    BY <1>3 DEF TryConnect, Return
<1>4. CASE Arm
    BY <1>4 DEF Arm, AddTimer, timerVars, eventVars, kernelVars
<1>5. CASE AddEvent
    BY <1>5 DEF AddEvent, timerVars, kernelVars
<1>6. CASE AddEventFails
    BY <1>6 DEF AddEventFails, CancelTimer, Disturbed, eventVars, kernelVars
<1>7. CASE Resume
    BY <1>7 DEF Resume, kernelVars
<1>8. CASE Woken
    BY <1>8 DEF Woken, CancelTimer, Return, kernelVars
<1>9. CASE CheckError
    BY <1>9 DEF CheckError, Return, kernelVars
<1>10. ASSUME NEW s \in Slots, Expire(s) PROVE SleepInv'
    BY <1>10 DEF Expire, callVars, eventVars, kernelVars
<1>11. ASSUME NEW s \in Slots, SleepCb(s) PROVE SleepInv'
    BY <1>11 DEF SleepCb, callVars, kernelVars
<1>12. ASSUME NEW s \in Slots, TimeoutCb(s) PROVE SleepInv'
    BY <1>12 DEF TimeoutCb, eventVars, kernelVars
<1>13. ASSUME NEW s \in Slots, CancelEvent(s) PROVE SleepInv'
    BY <1>13 DEF CancelEvent, Disturbed, callVars, kernelVars
<1>14. CASE Report
    BY <1>14 DEF Report, callVars, timerVars, kernelVars
<1>15. CASE CancelledOutside
    BY <1>15 DEF CancelledOutside, callVars, timerVars, kernelVars
<1>16. CASE BecomeReady
    BY <1>16 DEF BecomeReady, callVars, timerVars, eventVars
<1>17. CASE Settled
    BY <1>17 DEF Settled, callVars, timerVars, eventVars
<1>18. CASE Reopen
    BY <1>18 DEF Reopen, callVars, timerVars, eventVars
<1>19. CASE Tick
    BY <1>19 DEF Tick, eventVars, kernelVars
<1>20. CASE UNCHANGED vars
    BY <1>20 DEF vars, callVars, timerVars, eventVars, kernelVars
<1>21. CASE Sleep
    BY <1>21 DEF Sleep, AddTimer, eventVars, kernelVars
<1> QED
    BY <1>1, <1>2, <1>3, <1>4, <1>5, <1>6, <1>7, <1>8, <1>9, <1>10, <1>11,
       <1>12, <1>13, <1>14, <1>15, <1>16, <1>17, <1>18, <1>19, <1>20,
       <1>21
    DEF Next, Fiber, Worker, World

\* Time and timers pass together.
LEMMA NextAge == IInv /\ [Next]_vars => AgeInv'
<1> SUFFICES ASSUME IInv, [Next]_vars PROVE AgeInv'
    OBVIOUS
<1> USE HookIOConstants DEF IInv, TypeOK, WaitInv, SleepInv, AgeInv
<1>1. ASSUME NEW k \in Kinds, NEW t \in BOOLEAN, Call(k, t) PROVE AgeInv'
    BY <1>1 DEF Call, timerVars, eventVars, kernelVars
<1>2. CASE TryIo
    BY <1>2 DEF TryIo, Return
<1>3. CASE TryConnect
    BY <1>3 DEF TryConnect, Return
<1>4. CASE Arm
    BY <1>4 DEF Arm, AddTimer, timerVars, eventVars, kernelVars
<1>5. CASE AddEvent
    BY <1>5 DEF AddEvent, timerVars, kernelVars
<1>6. CASE AddEventFails
    BY <1>6 DEF AddEventFails, CancelTimer, Disturbed, eventVars, kernelVars
<1>7. CASE Resume
    BY <1>7 DEF Resume, kernelVars
<1>8. CASE Woken
    BY <1>8 DEF Woken, CancelTimer, Return, kernelVars
<1>9. CASE CheckError
    BY <1>9 DEF CheckError, Return, kernelVars
<1>10. ASSUME NEW s \in Slots, Expire(s) PROVE AgeInv'
    BY <1>10 DEF Expire, callVars, eventVars, kernelVars
<1>11. ASSUME NEW s \in Slots, SleepCb(s) PROVE AgeInv'
    BY <1>11 DEF SleepCb, callVars, kernelVars
<1>12. ASSUME NEW s \in Slots, TimeoutCb(s) PROVE AgeInv'
    BY <1>12 DEF TimeoutCb, eventVars, kernelVars
<1>13. ASSUME NEW s \in Slots, CancelEvent(s) PROVE AgeInv'
    BY <1>13 DEF CancelEvent, Disturbed, callVars, kernelVars
<1>14. CASE Report
    BY <1>14 DEF Report, callVars, timerVars, kernelVars
<1>15. CASE CancelledOutside
    BY <1>15 DEF CancelledOutside, callVars, timerVars, kernelVars
<1>16. CASE BecomeReady
    BY <1>16 DEF BecomeReady, callVars, timerVars, eventVars
<1>17. CASE Settled
    BY <1>17 DEF Settled, callVars, timerVars, eventVars
<1>18. CASE Reopen
    BY <1>18 DEF Reopen, callVars, timerVars, eventVars
<1>19. CASE Tick
    BY <1>19 DEF Tick, eventVars, kernelVars
<1>20. CASE UNCHANGED vars
    BY <1>20 DEF vars, callVars, timerVars, eventVars, kernelVars
<1>21. CASE Sleep
    BY <1>21 DEF Sleep, AddTimer, eventVars, kernelVars
<1> QED
    BY <1>1, <1>2, <1>3, <1>4, <1>5, <1>6, <1>7, <1>8, <1>9, <1>10, <1>11,
       <1>12, <1>13, <1>14, <1>15, <1>16, <1>17, <1>18, <1>19, <1>20,
       <1>21
    DEF Next, Fiber, Worker, World

\* What woke a fiber in connect stays true until the call asks for SO_ERROR.
LEMMA NextConnect == IInv /\ [Next]_vars => ConnectInv'
<1> SUFFICES ASSUME IInv, [Next]_vars PROVE ConnectInv'
    OBVIOUS
<1> USE HookIOConstants DEF IInv, TypeOK, WaitInv, SleepInv, ConnectInv
<1>1. ASSUME NEW k \in Kinds, NEW t \in BOOLEAN, Call(k, t) PROVE ConnectInv'
    BY <1>1 DEF Call, timerVars, eventVars, kernelVars
<1>2. CASE TryIo
    BY <1>2 DEF TryIo, Return
<1>3. CASE TryConnect
    BY <1>3 DEF TryConnect, Return
<1>4. CASE Arm
    BY <1>4 DEF Arm, AddTimer, timerVars, eventVars, kernelVars
<1>5. CASE AddEvent
    BY <1>5 DEF AddEvent, timerVars, kernelVars
<1>6. CASE AddEventFails
    BY <1>6 DEF AddEventFails, CancelTimer, Disturbed, eventVars, kernelVars
<1>7. CASE Resume
    BY <1>7 DEF Resume, kernelVars
<1>8. CASE Woken
    BY <1>8 DEF Woken, CancelTimer, Return, kernelVars
<1>9. CASE CheckError
    BY <1>9 DEF CheckError, Return, kernelVars
<1>10. ASSUME NEW s \in Slots, Expire(s) PROVE ConnectInv'
    BY <1>10 DEF Expire, callVars, eventVars, kernelVars
<1>11. ASSUME NEW s \in Slots, SleepCb(s) PROVE ConnectInv'
    BY <1>11 DEF SleepCb, callVars, kernelVars
<1>12. ASSUME NEW s \in Slots, TimeoutCb(s) PROVE ConnectInv'
    BY <1>12 DEF TimeoutCb, eventVars, kernelVars
<1>13. ASSUME NEW s \in Slots, CancelEvent(s) PROVE ConnectInv'
    BY <1>13 DEF CancelEvent, Disturbed, callVars, kernelVars
<1>14. CASE Report
    BY <1>14 DEF Report, callVars, timerVars, kernelVars
<1>15. CASE CancelledOutside
    BY <1>15 DEF CancelledOutside, callVars, timerVars, kernelVars
<1>16. CASE BecomeReady
    BY <1>16 DEF BecomeReady, callVars, timerVars, eventVars
<1>17. CASE Settled
    BY <1>17 DEF Settled, callVars, timerVars, eventVars
<1>18. CASE Reopen
    BY <1>18 DEF Reopen, callVars, timerVars, eventVars
<1>19. CASE Tick
    BY <1>19 DEF Tick, eventVars, kernelVars
<1>20. CASE UNCHANGED vars
    BY <1>20 DEF vars, callVars, timerVars, eventVars, kernelVars
<1>21. CASE Sleep
    BY <1>21 DEF Sleep, AddTimer, eventVars, kernelVars
<1> QED
    BY <1>1, <1>2, <1>3, <1>4, <1>5, <1>6, <1>7, <1>8, <1>9, <1>10, <1>11,
       <1>12, <1>13, <1>14, <1>15, <1>16, <1>17, <1>18, <1>19, <1>20,
       <1>21
    DEF Next, Fiber, Worker, World

\* The invariant holds of every state a hooked call can reach.
LEMMA Invariance == Spec => []IInv
<1>1. IInv /\ [Next]_vars => IInv'
    BY NextType, NextWait, NextSleep, NextAge, NextConnect DEF IInv
<1> QED
    BY InitInv, <1>1, PTL DEF Spec

-----------------------------------------------------------------------------
\* The locals of the hooked calls, their timers and their event keep their
\* types; in particular the fiber is never twice in the scheduler's queue.
THEOREM TypeCorrect == Spec => []TypeOK
<1>1. IInv => TypeOK
    BY DEF IInv
<1> QED
    BY Invariance, <1>1, PTL

\* do_io, connect and sleep are woken only while they wait and once per wait,
\* however the event, the timeout and cancellations from outside race.
THEOREM WokenOnce == Spec => []ScheduledOnce
<1>1. IInv => ScheduledOnce
    BY DEF IInv, TypeOK, WaitInv, ScheduledOnce
<1> QED
    BY Invariance, <1>1, PTL

\* No ETIMEDOUT of do_io or connect and no end of a sleep comes before its
\* time.
THEOREM TimeoutNotEarly == Spec => NotBeforeTime
<1>1. IInv /\ [Next]_vars =>
        [Returns /\ (result' = "timeout" \/ kind = "sleep") => age = Timeout]_vars
  <2> SUFFICES ASSUME IInv, [Next]_vars, Returns,
                      result' = "timeout" \/ kind = "sleep"
               PROVE  age = Timeout
    OBVIOUS
  <2> USE DEF Returns
  <2>1. CASE Resume
    BY <2>1 DEF Resume, IInv, TypeOK, AgeInv, WaitInv
  <2>2. CASE Woken
    BY <2>2 DEF Woken, Return, IInv, AgeInv, SleepInv
  <2>3. ~TryIo /\ ~TryConnect /\ ~AddEventFails /\ ~CheckError
    BY DEF TryIo, TryConnect, AddEventFails, CheckError, Return, IInv, SleepInv
  <2>4. /\ ~Arm /\ ~Sleep /\ ~AddEvent /\ pc' # pc
        /\ \A k \in Kinds, t \in BOOLEAN : ~Call(k, t)
    BY DEF Arm, Sleep, AddEvent, Call
  <2>5. \A s \in Slots : ~Worker(s)
    BY <2>4 DEF Worker, Expire, SleepCb, TimeoutCb, CancelEvent, callVars
  <2>6. ~World /\ ~UNCHANGED vars
    BY <2>4 DEF World, Report, CancelledOutside, BecomeReady, Settled, Reopen,
                Tick, vars, callVars
  <2> QED
    BY <2>1, <2>2, <2>3, <2>4, <2>5, <2>6 DEF Next, Fiber
<1> QED
    BY Invariance, <1>1, PTL DEF Spec, NotBeforeTime

\* connect_with_timeout never takes its own timeout for success: a connection
\* still in progress is reported as established only after addEvent failed or
\* somebody else cancelled the event.
THEOREM ConnectCorrect == Spec => ConnectTruthful
<1>1. IInv /\ [Next]_vars =>
        [Returns /\ kind = "connect" /\ result' = "ok" =>
           conn' = "up" \/ meddled > 0]_vars
  <2> SUFFICES ASSUME IInv, [Next]_vars, Returns, kind = "connect",
                      result' = "ok"
               PROVE  conn' = "up" \/ meddled > 0
    OBVIOUS
  <2> USE DEF Returns
  <2>1. CASE TryConnect
    BY <2>1 DEF TryConnect, Return
  <2>2. CASE CheckError
    BY <2>2 DEF CheckError, Return, IInv, ConnectInv, kernelVars
  <2>3. ~TryIo /\ ~AddEventFails /\ ~Woken /\ ~Resume
    BY DEF TryIo, AddEventFails, Woken, Resume, Return
  <2>4. /\ ~Arm /\ ~Sleep /\ ~AddEvent /\ pc' # pc
        /\ \A k \in Kinds, t \in BOOLEAN : ~Call(k, t)
    BY DEF Arm, Sleep, AddEvent, Call
  <2>5. \A s \in Slots : ~Worker(s)
    BY <2>4 DEF Worker, Expire, SleepCb, TimeoutCb, CancelEvent, callVars
  <2>6. ~World /\ ~UNCHANGED vars
    BY <2>4 DEF World, Report, CancelledOutside, BecomeReady, Settled, Reopen,
                Tick, vars, callVars
  <2> QED
    BY <2>1, <2>2, <2>3, <2>4, <2>5, <2>6 DEF Next, Fiber
<1> QED
    BY Invariance, <1>1, PTL DEF Spec, ConnectTruthful
=============================================================================
