--------------------------- MODULE IOManagerProofs ---------------------------
(***************************************************************************)
(* Theorems about IOManager, for any finite set of descriptors, any number *)
(* of pollers and any number of openings: the pending count is exact, the  *)
(* kernel's interest list agrees with the FdContexts, every waiter is      *)
(* registered or scheduled exactly once, no edge is lost and no event      *)
(* stays registered for a closed descriptor.                               *)
(***************************************************************************)
EXTENDS IOManager, FiniteSetTheorems, TLAPS

-----------------------------------------------------------------------------
(* What the theorems but the first assume. *)

\* Whichever descriptor makes contextResize grow the table, the new size
\* holds them all: then the second of two threads that resize at once does not
\* shrink it.  With the 32 entries of the constructor this holds for the
\* descriptors below 48.
TableFits == \A fd, b \in Fds : b >= InitSize => fd < (b * 3) \div 2

\* No waiter registers an event while close() is under way.
NoRetry == RetryOnClosing = FALSE

-----------------------------------------------------------------------------
(* The inductive invariant. *)

Mask == SUBSET (Ev \cup {"ERR"})
WaiterSteps == {"run", "lookup", "resize", "add", "wait"}

TypeInv ==
    /\ m_size \in Nat /\ gen \in [Fds -> 0 .. MaxGen]
    /\ events \in [Objs -> SUBSET Ev]
    /\ m_pendingEventCount \in Int
    /\ interest \in [Fds -> SUBSET Ev] /\ owner \in [Fds -> 0 .. MaxGen]
    /\ ready \in [Fds -> Mask]
    /\ armed \in [Fds -> BOOLEAN] /\ opened \in [Fds -> Nat]
    /\ closing \in [Fds -> {"open", "closing", "closed"}]
    /\ wpc \in [Waiters -> WaiterSteps]
    /\ wobj \in [Waiters -> 0 .. MaxGen]
    /\ scheduled \in [Waiters -> 0 .. 2]
    /\ got \in [Pollers -> {None} \cup (Objs \X Mask)]

\* The table has its first size or holds every descriptor, and who is about to
\* resize it has a descriptor that the first size does not hold.
TableInv ==
    /\ m_size = InitSize \/ \A fd \in Fds : m_size > fd
    /\ \A w \in Waiters : wpc[w] = "resize" => w[1] >= InitSize

\* Whoever holds an FdContext of a descriptor holds the newest one, and the
\* table holds it too: the waiters between addEvent and their resumption, the
\* kernel's entry, and the pollers.
NewestInv ==
    /\ \A w \in Waiters :
         wpc[w] \in {"add", "wait"} => wobj[w] = gen[w[1]] /\ m_size > w[1]
    /\ \A fd \in Fds : interest[fd] # {} => owner[fd] = gen[fd]
    /\ \A p \in Pollers : got[p] # None =>
         /\ got[p][1][2] = gen[got[p][1][1]]
         /\ m_size > got[p][1][1]

\* Events are registered in the newest FdContext only, by waiters that wait.
RegisteredInv ==
    \A fd \in Fds, g \in 0 .. MaxGen, ev \in Ev :
      ev \in events[<<fd, g>>] =>
        g = gen[fd] /\ m_size > fd /\ wpc[<<fd, ev>>] = "wait"

\* From cancelAll() in the close() hook until the next open() nothing is
\* registered, with the kernel or in an FdContext, and nobody is registering.
ClosedInv ==
    \A fd \in Fds : closing[fd] # "open" =>
      /\ interest[fd] = {} /\ events[Current(fd)] = {}
      /\ \A ev \in Ev : wpc[<<fd, ev>>] \in {"run", "wait"}

IInv ==
    /\ TypeInv /\ TableInv /\ NewestInv /\ RegisteredInv /\ ClosedInv
    /\ KernelAgrees /\ WaiterAccounted
-----------------------------------------------------------------------------
(* Types. *)

\* What an FdContext is: a pair of a descriptor and a generation.
LEMMA ObjsFact ==
    \A fd \in Fds, g \in 0 .. MaxGen :
      <<fd, g>> \in Objs /\ <<fd, g>>[1] = fd /\ <<fd, g>>[2] = g
    BY DEF Objs

\* There are two events.
LEMMA EvFinite == IsFiniteSet(Ev) /\ Cardinality(Ev) = 2
<1>1. Ev = {"READ"} \cup {"WRITE"} /\ "WRITE" \notin {"READ"}
    BY DEF Ev
<1> QED
  <2>1. IsFiniteSet({"READ"}) /\ Cardinality({"READ"}) = 1
    BY FS_Singleton
  <2>2. IsFiniteSet({"READ"} \cup {"WRITE"}) /\ Cardinality({"READ"} \cup {"WRITE"}) = 1 + 1
    BY <1>1, <2>1, FS_AddElement
  <2> QED
    BY <1>1, <2>2

\* The initial state satisfies the invariant.
LEMMA InitInv == Init => IInv
<1> SUFFICES ASSUME Init PROVE IInv
    OBVIOUS
<1> USE IOManagerConstants
<1>1. TypeInv
    BY DEF Init, TypeInv, Mask, Ev, WaiterSteps
<1>2. TableInv /\ NewestInv /\ RegisteredInv /\ ClosedInv
    BY ObjsFact DEF Init, TableInv, NewestInv, RegisteredInv, ClosedInv, Current, Ev, Waiters
<1>3. KernelAgrees /\ WaiterAccounted
    BY ObjsFact DEF Init, KernelAgrees, WaiterAccounted, Current, Ev, Waiters
<1> QED
    BY <1>1, <1>2, <1>3 DEF IInv

\* Every step of a waiter, a poller, the kernel or close() keeps the types.
LEMMA NextType == TypeInv /\ [Next]_vars => TypeInv'
<1> SUFFICES ASSUME TypeInv, [Next]_vars PROVE TypeInv'
    OBVIOUS
<1> USE IOManagerConstants DEF TypeInv
<1>0. \A o \in Objs : o[1] \in Fds /\ o[2] \in 0 .. MaxGen /\ o = <<o[1], o[2]>>
    BY DEF Objs
<1>00. \A w \in Waiters : w[1] \in Fds /\ w[2] \in Ev
    BY DEF Waiters
<1>1. ASSUME NEW w \in Waiters, TryAgain(w) PROVE TypeInv'
    BY <1>1 DEF TryAgain, GotoW, WaiterSteps, epollVars, sockVars
<1>2. ASSUME NEW w \in Waiters, Lookup(w) PROVE TypeInv'
  <2>1. MaxGen \in Nat
    OBVIOUS
  <2>2. gen[w[1]] \in 0 .. MaxGen
    BY <1>00
  <2>3. wobj' \in [Waiters -> 0 .. MaxGen]
    BY <1>2, <2>2 DEF Lookup
  <2>4. wpc' \in [Waiters -> WaiterSteps]
    BY <1>2 DEF Lookup, GotoW, WaiterSteps
  <2> QED
    BY <1>2, <2>3, <2>4 DEF Lookup, GotoW, epollVars, sockVars
<1>3. ASSUME NEW w \in Waiters, Resize(w) PROVE TypeInv'
  <2> DEFINE n == (w[1] * 3) \div 2
  <2>1. n \in Nat
    <3>1. w[1] \in Nat
        BY <1>00
    <3> QED
        BY <3>1
  <2>2. \A fd \in Fds : Resized(n)[fd] \in 0 .. MaxGen
    BY <1>3, <2>1 DEF Resize, Resized
  <2>3. gen' \in [Fds -> 0 .. MaxGen] /\ m_size' \in Nat
    BY <1>3, <2>1, <2>2 DEF Resize, Resized
  <2>4. wobj' \in [Waiters -> 0 .. MaxGen]
    BY <1>3, <1>00, <2>2 DEF Resize
  <2>5. wpc' \in [Waiters -> WaiterSteps]
    BY <1>3 DEF Resize, GotoW, WaiterSteps
  <2> QED
    BY <1>3, <2>3, <2>4, <2>5 DEF Resize, epollVars, sockVars
<1>a. ASSUME NEW fd \in Fds, NEW g \in 0 .. MaxGen, NEW new \in SUBSET Ev, Ctl(fd, g, new)
      PROVE  /\ interest' \in [Fds -> SUBSET Ev] /\ owner' \in [Fds -> 0 .. MaxGen]
             /\ armed' \in [Fds -> BOOLEAN]
  <2>1. 0 \in 0 .. MaxGen
    OBVIOUS
  <2> QED
    BY <1>a, <2>1 DEF Ctl
<1>4. ASSUME NEW w \in Waiters, AddEvent(w) PROVE TypeInv'
  <2> DEFINE o == <<w[1], wobj[w]>>
  <2>1. o \in Objs /\ w[1] \in Fds /\ wobj[w] \in 0 .. MaxGen /\ events[o] \cup {w[2]} \in SUBSET Ev
    BY <1>00, ObjsFact
  <2>2. wpc' \in [Waiters -> WaiterSteps]
    BY <1>4 DEF AddEvent, GotoW, WaiterSteps, Abort
  <2>3. CASE Abort("addEvent")
    BY <2>3 DEF Abort, epollVars, sockVars
  <2>4. CASE UNCHANGED events /\ ~Abort("addEvent")
    <3>1. UNCHANGED <<m_size, gen, events, m_pendingEventCount, epollVars, sockVars, wobj,
                      scheduled, got>>
        BY <1>4, <2>4, <2>1 DEF AddEvent
    <3> QED
        BY <3>1, <2>2 DEF epollVars, sockVars
  <2>5. CASE Ctl(w[1], wobj[w], events[o] \cup {w[2]}) /\ ~UNCHANGED events /\ ~Abort("addEvent")
    <3>1. events' = [events EXCEPT ![o] = @ \cup {w[2]}]
          /\ m_pendingEventCount' = m_pendingEventCount + 1
          /\ UNCHANGED <<m_size, gen, sockVars, wobj, scheduled, got>>
        BY <1>4, <2>5 DEF AddEvent
    <3>2. events' \in [Objs -> SUBSET Ev]
        BY <3>1, <2>1
    <3>3. interest' \in [Fds -> SUBSET Ev] /\ owner' \in [Fds -> 0 .. MaxGen]
          /\ armed' \in [Fds -> BOOLEAN]
        BY <2>1, <2>5, <1>a
    <3>4. m_pendingEventCount' \in Int
        BY <3>1
    <3>5. /\ m_size' \in Nat /\ gen' \in [Fds -> 0 .. MaxGen] /\ ready' \in [Fds -> Mask]
          /\ opened' \in [Fds -> Nat] /\ closing' \in [Fds -> {"open", "closing", "closed"}]
        BY <3>1 DEF sockVars
    <3>6. /\ wobj' \in [Waiters -> 0 .. MaxGen] /\ scheduled' \in [Waiters -> 0 .. 2]
          /\ got' \in [Pollers -> {None} \cup (Objs \X Mask)]
        BY <3>1
    <3> QED
        BY <3>2, <3>3, <3>4, <3>5, <3>6, <2>2
  <2> QED
    BY <1>4, <2>3, <2>4, <2>5 DEF AddEvent
<1>5. ASSUME NEW w \in Waiters, Resume(w) PROVE TypeInv'
  <2>1. ready' \in [Fds -> Mask]
    BY <1>5, <1>00 DEF Resume, Mask
  <2>2. wpc' \in [Waiters -> WaiterSteps] /\ scheduled' \in [Waiters -> 0 .. 2]
    BY <1>5 DEF Resume, GotoW, WaiterSteps
  <2> QED
    BY <1>5, <2>1, <2>2 DEF Resume
<1>6. ASSUME NEW w \in Waiters, DelEvent(w) PROVE TypeInv'
  <2> DEFINE o == Current(w[1])
  <2>1. o \in Objs /\ w[1] \in Fds /\ gen[w[1]] \in 0 .. MaxGen /\ events[o] \ {w[2]} \in SUBSET Ev
    <3>1. w[1] \in Fds /\ gen[w[1]] \in 0 .. MaxGen
        BY <1>00
    <3>2. o \in Objs
        BY <3>1, ObjsFact DEF Current
    <3> QED
        BY <3>1, <3>2
  <2>2. wpc' \in [Waiters -> WaiterSteps] /\ events' \in [Objs -> SUBSET Ev]
    BY <1>6, <2>1 DEF DelEvent, GotoW, WaiterSteps
  <2>3. Ctl(w[1], gen[w[1]], events[o] \ {w[2]})
    BY <1>6 DEF DelEvent
  <2>4. interest' \in [Fds -> SUBSET Ev] /\ owner' \in [Fds -> 0 .. MaxGen]
          /\ armed' \in [Fds -> BOOLEAN]
    BY <2>1, <2>3, <1>a
  <2> QED
    BY <1>6, <2>2, <2>4 DEF DelEvent, sockVars
<1>7. ASSUME NEW o \in Objs, NEW evs \in SUBSET Ev, Trigger(o, evs)
      PROVE  /\ events' \in [Objs -> SUBSET Ev] /\ scheduled' \in [Waiters -> 0 .. 2]
             /\ m_pendingEventCount' \in Int
  <2>1. Cardinality(evs) \in Nat
    BY EvFinite, FS_Subset, FS_CardinalityType
  <2> QED
    BY <1>7, <2>1 DEF Trigger
<1>8. ASSUME NEW fd \in Fds, NEW ev \in Ev, CancelEvent(fd, ev) PROVE TypeInv'
  <2> DEFINE o == Current(fd)
  <2>1. o \in Objs /\ gen[fd] \in 0 .. MaxGen /\ events[o] \ {ev} \in SUBSET Ev
        /\ {ev} \in SUBSET Ev
    BY ObjsFact DEF Current
  <2> QED
    BY <1>8, <1>7, <1>a, <2>1 DEF CancelEvent, sockVars
<1>9. ASSUME NEW fd \in Fds, CancelAllBody(fd)
      PROVE  /\ events' \in [Objs -> SUBSET Ev] /\ scheduled' \in [Waiters -> 0 .. 2]
             /\ m_pendingEventCount' \in Int
             /\ interest' \in [Fds -> SUBSET Ev] /\ owner' \in [Fds -> 0 .. MaxGen]
             /\ armed' \in [Fds -> BOOLEAN]
  <2> DEFINE o == Current(fd)
  <2>1. o \in Objs /\ gen[fd] \in 0 .. MaxGen /\ events[o] \in SUBSET Ev
    BY ObjsFact DEF Current
  <2> QED
    BY <1>9, <1>7, <1>a, <2>1 DEF CancelAllBody, epollVars
<1>10. ASSUME NEW fd \in Fds, CancelAll(fd) PROVE TypeInv'
    BY <1>10, <1>9 DEF CancelAll, sockVars
<1>11. ASSUME NEW fd \in Fds, CloseCancels(fd) PROVE TypeInv'
    BY <1>11, <1>9 DEF CloseCancels
<1>12. ASSUME NEW fd \in Fds, CloseSystem(fd) PROVE TypeInv'
  <2>1. interest' \in [Fds -> SUBSET Ev] /\ ready' \in [Fds -> Mask]
    BY <1>12 DEF CloseSystem, Mask
  <2>2. owner' \in [Fds -> 0 .. MaxGen] /\ armed' \in [Fds -> BOOLEAN]
    BY <1>12 DEF CloseSystem
  <2> QED
    BY <1>12, <2>1, <2>2 DEF CloseSystem
<1>13. ASSUME NEW fd \in Fds, Open(fd) PROVE TypeInv'
    BY <1>13 DEF Open
<1>14. ASSUME NEW fd \in Fds, NEW r \in Ev \cup {"ERR"}, BecomeReady(fd, r) PROVE TypeInv'
  <2>1. ready' \in [Fds -> Mask]
    BY <1>14 DEF BecomeReady, Mask
  <2>2. armed' \in [Fds -> BOOLEAN]
    BY <1>14 DEF BecomeReady
  <2> QED
    BY <1>14, <2>1, <2>2 DEF BecomeReady
<1>15. ASSUME NEW p \in Pollers, NEW fd \in Fds, EpollWait(p, fd) PROVE TypeInv'
  <2>1. Reportable(fd) \in Mask
    BY DEF Reportable, Mask
  <2>2. <<<<fd, owner[fd]>>, Reportable(fd)>> \in Objs \X Mask
    BY <2>1, ObjsFact
  <2> QED
    BY <1>15, <2>2 DEF EpollWait
<1>16. ASSUME NEW p \in Pollers, HandleEvent(p) PROVE TypeInv'
  <2> DEFINE o == got[p][1]  evs == RealEvents(got[p][2])
  <2>1. got[p] \in Objs \X Mask
    BY <1>16 DEF HandleEvent
  <2>2. o \in Objs /\ o[1] \in Fds /\ o[2] \in 0 .. MaxGen
    BY <2>1, <1>0
  <2>3. events[o] \cap evs \in SUBSET Ev /\ events[o] \ evs \in SUBSET Ev
    BY <2>2
  <2>4. evs \in SUBSET Ev
    BY <2>1 DEF RealEvents, Mask
  <2>5. CASE Abort("triggerEvent")
    BY <2>5 DEF Abort, epollVars, sockVars
  <2>6. CASE ~Abort("triggerEvent")
    <3>1. got' = [got EXCEPT ![p] = None] /\ UNCHANGED <<m_size, gen, sockVars, wpc, wobj>>
        BY <1>16, <2>6 DEF HandleEvent
    <3>2. got' \in [Pollers -> {None} \cup (Objs \X Mask)]
        BY <3>1
    <3>3. CASE UNCHANGED <<events, m_pendingEventCount, epollVars, scheduled>>
        BY <3>1, <3>2, <3>3 DEF epollVars, sockVars
    <3>4. CASE Ctl(o[1], o[2], events[o] \ evs) /\ Trigger(o, evs)
      <4>1. interest' \in [Fds -> SUBSET Ev] /\ owner' \in [Fds -> 0 .. MaxGen]
          /\ armed' \in [Fds -> BOOLEAN]
        BY <3>4, <1>a, <2>2, <2>3
      <4>2. /\ events' \in [Objs -> SUBSET Ev] /\ scheduled' \in [Waiters -> 0 .. 2]
            /\ m_pendingEventCount' \in Int
        BY <3>4, <1>7, <2>2, <2>4
      <4> QED
        BY <3>1, <3>2, <4>1, <4>2 DEF sockVars
    <3> QED
        BY <1>16, <2>6, <3>3, <3>4 DEF HandleEvent
  <2> QED
    BY <2>5, <2>6
<1>17. CASE UNCHANGED vars
    BY <1>17 DEF vars, epollVars, sockVars
<1> QED
    BY <1>1, <1>2, <1>3, <1>4, <1>5, <1>6, <1>8, <1>10, <1>11, <1>12, <1>13, <1>14, <1>15,
       <1>16, <1>17
    DEF Next, WaiterStep, Poll, Environment

-----------------------------------------------------------------------------
(* The pending count. *)

\* An event is registered in an FdContext and counted.
Adds(o, ev) ==
    /\ ev \notin events[o]
    /\ events' = [events EXCEPT ![o] = @ \cup {ev}]
    /\ m_pendingEventCount' = m_pendingEventCount + 1

\* Registered events of an FdContext are withdrawn and counted off.
Withdraws(o, evs) ==
    /\ evs \subseteq events[o]
    /\ events' = [events EXCEPT ![o] = @ \ evs]
    /\ m_pendingEventCount' = m_pendingEventCount - Cardinality(evs)

\* A step leaves the FdContexts and the count alone, registers one event or
\* withdraws some: addEvent, delEvent, triggerEvent.
LEMMA EventSteps ==
    ASSUME TypeInv, [Next]_vars
    PROVE  \/ UNCHANGED <<events, m_pendingEventCount>>
           \/ \E o \in Objs, ev \in Ev : Adds(o, ev)
           \/ \E o \in Objs, evs \in SUBSET Ev : Withdraws(o, evs)
<1> DEFINE Goal == \/ UNCHANGED <<events, m_pendingEventCount>>
                   \/ \E o \in Objs, ev \in Ev : Adds(o, ev)
                   \/ \E o \in Objs, evs \in SUBSET Ev : Withdraws(o, evs)
<1>0. \A w \in Waiters : w[1] \in Fds /\ w[2] \in Ev
    BY DEF Waiters
<1>00. \A fd \in Fds : Current(fd) \in Objs
    BY ObjsFact DEF Current, TypeInv
<1>1. ASSUME NEW w \in Waiters, AddEvent(w) PROVE Goal
  <2>1. <<w[1], wobj[w]>> \in Objs
    BY <1>0, ObjsFact DEF TypeInv
  <2>2. \/ UNCHANGED <<events, m_pendingEventCount>>
        \/ Adds(<<w[1], wobj[w]>>, w[2])
    BY <1>1 DEF AddEvent, Abort, Adds
  <2> QED
    BY <1>0, <2>1, <2>2
<1>2. ASSUME NEW w \in Waiters, DelEvent(w) PROVE Goal
  <2>1. Cardinality({w[2]}) = 1 /\ {w[2]} \in SUBSET Ev
    BY <1>0, FS_Singleton
  <2>2. Withdraws(Current(w[1]), {w[2]})
    BY <1>2, <2>1 DEF DelEvent, Withdraws
  <2> QED
    BY <1>0, <1>00, <2>1, <2>2
<1>3. ASSUME NEW fd \in Fds, NEW ev \in Ev, CancelEvent(fd, ev) PROVE Goal
  <2>1. Withdraws(Current(fd), {ev})
    BY <1>3 DEF CancelEvent, Trigger, Withdraws
  <2> QED
    BY <1>00, <2>1
<1>4. ASSUME NEW fd \in Fds, CancelAllBody(fd) PROVE Goal
  <2>1. \/ UNCHANGED <<events, m_pendingEventCount>>
        \/ Withdraws(Current(fd), events[Current(fd)])
    BY <1>4 DEF CancelAllBody, Trigger, Withdraws
  <2>2. events[Current(fd)] \in SUBSET Ev
    BY <1>00 DEF TypeInv
  <2> QED
    BY <1>00, <2>1, <2>2
<1>5. ASSUME NEW p \in Pollers, HandleEvent(p) PROVE Goal
  <2> DEFINE o == got[p][1]  evs == RealEvents(got[p][2])
  <2>1. got[p] \in Objs \X Mask
    BY <1>5 DEF HandleEvent, TypeInv
  <2>2. o \in Objs /\ evs \in SUBSET Ev
    BY <2>1 DEF RealEvents, Mask
  <2>3. \/ UNCHANGED <<events, m_pendingEventCount>>
        \/ Withdraws(o, evs)
    BY <1>5 DEF HandleEvent, TriggerFails, Abort, Trigger, Withdraws
  <2> QED
    BY <2>2, <2>3
<1>6. ASSUME NEW w \in Waiters, TryAgain(w) \/ Lookup(w) \/ Resize(w) \/ Resume(w) PROVE Goal
    BY <1>6 DEF TryAgain, Lookup, Resize, Resume
<1>7. ASSUME NEW fd \in Fds, CloseSystem(fd) \/ Open(fd)
                               \/ \E r \in Ev \cup {"ERR"} : BecomeReady(fd, r)
      PROVE Goal
    BY <1>7 DEF CloseSystem, Open, BecomeReady
<1>8. ASSUME NEW p \in Pollers, NEW fd \in Fds, EpollWait(p, fd) PROVE Goal
    BY <1>8 DEF EpollWait
<1>9. CASE UNCHANGED vars
    BY <1>9 DEF vars
<1> QED
    BY <1>1, <1>2, <1>3, <1>4, <1>5, <1>6, <1>7, <1>8, <1>9
    DEF Next, WaiterStep, Poll, Environment, CancelAll, CloseCancels

\* The registered events are finitely many.
LEMMA RegisteredFinite == IsFiniteSet(Registered)
<1>1. IsFiniteSet(0 .. MaxGen)
    BY IOManagerConstants, FS_Interval
<1>2. IsFiniteSet(Objs)
    BY <1>1, IOManagerConstants, FS_Product DEF Objs
<1>3. IsFiniteSet(Objs \X Ev)
    BY <1>2, EvFinite, FS_Product
<1>4. Registered \in SUBSET (Objs \X Ev)
    BY DEF Registered
<1> QED
    BY <1>3, <1>4, FS_Subset

\* m_pendingEventCount keeps counting the registered events.
LEMMA NextPending == TypeInv /\ PendingExact /\ [Next]_vars => PendingExact'
<1> SUFFICES ASSUME TypeInv, PendingExact, [Next]_vars PROVE PendingExact'
    OBVIOUS
<1>0. Cardinality(Registered) \in Nat
    BY RegisteredFinite, FS_CardinalityType
<1>1. CASE UNCHANGED <<events, m_pendingEventCount>>
    BY <1>1 DEF PendingExact, Registered
<1>2. ASSUME NEW o \in Objs, NEW ev \in Ev, Adds(o, ev) PROVE PendingExact'
  <2>1. Registered' = Registered \cup {<<o, ev>>} /\ <<o, ev>> \notin Registered
    <3>1. \A x \in Objs : events'[x] = IF x = o THEN events[o] \cup {ev} ELSE events[x]
        BY <1>2 DEF Adds, TypeInv
    <3>2. \A x \in Objs, e \in Ev :
            <<x, e>> \in Registered' <=> <<x, e>> \in Registered \/ (x = o /\ e = ev)
        BY <3>1 DEF Registered
    <3> QED
        BY <3>2, <1>2 DEF Registered, Adds
  <2>2. Cardinality(Registered') = Cardinality(Registered) + 1
    BY <2>1, RegisteredFinite, FS_AddElement
  <2> QED
    BY <1>2, <2>2 DEF PendingExact, Adds
<1>3. ASSUME NEW o \in Objs, NEW evs \in SUBSET Ev, Withdraws(o, evs) PROVE PendingExact'
  <2> DEFINE gone == {o} \X evs
  <2>1. Registered' = Registered \ gone
    <3>1. \A x \in Objs : events'[x] = IF x = o THEN events[o] \ evs ELSE events[x]
        BY <1>3 DEF Withdraws, TypeInv
    <3>2. \A x \in Objs, e \in Ev :
            <<x, e>> \in Registered' <=> <<x, e>> \in Registered /\ ~(x = o /\ e \in evs)
        BY <3>1 DEF Registered
    <3> QED
        BY <3>2 DEF Registered
  <2>2. Registered \cap gone = gone
    BY <1>3 DEF Registered, Withdraws
  <2>3. Cardinality(gone) = Cardinality(evs) /\ Cardinality(evs) \in Nat
    <3>1. IsFiniteSet(evs) /\ Cardinality(evs) \in Nat
        BY EvFinite, FS_Subset, FS_CardinalityType
    <3>2. IsFiniteSet({o}) /\ Cardinality({o}) = 1
        BY FS_Singleton
    <3>3. Cardinality(gone) = Cardinality({o}) * Cardinality(evs)
        BY <3>1, <3>2, FS_Product
    <3> QED
        BY <3>1, <3>2, <3>3
  <2>4. Cardinality(Registered \ gone) = Cardinality(Registered) - Cardinality(Registered \cap gone)
    <3> HIDE DEF gone
    <3> QED
        BY RegisteredFinite, FS_Difference
  <2> QED
    BY <1>3, <2>1, <2>2, <2>3, <2>4 DEF PendingExact, Withdraws
<1> QED
    BY <1>1, <1>2, <1>3, EventSteps

\* m_pendingEventCount, on which stopping() relies, is exact, whatever size
\* the table has and whether or not waiters register during close().
THEOREM PendingCorrect == Spec => []PendingExact
<1>1. Init => TypeInv /\ PendingExact
  <2> SUFFICES ASSUME Init PROVE PendingExact
    BY InitInv DEF IInv
  <2>1. Registered = {}
    BY DEF Init, Registered
  <2>2. Cardinality({}) = 0
    BY FS_EmptySet
  <2> QED
    BY <2>1, <2>2 DEF Init, PendingExact
<1>2. TypeInv /\ PendingExact /\ [Next]_vars => (TypeInv /\ PendingExact)'
    BY NextType, NextPending
<1> QED
    BY <1>1, <1>2, PTL DEF Spec

-----------------------------------------------------------------------------
(* The steps, as the invariant sees them. *)

\* A waiter is a pair of a descriptor and an event.
LEMMA WaitersFact ==
    /\ \A w \in Waiters : w[1] \in Fds /\ w[2] \in Ev /\ w = <<w[1], w[2]>>
    /\ \A fd \in Fds, ev \in Ev :
         <<fd, ev>> \in Waiters /\ <<fd, ev>>[1] = fd /\ <<fd, ev>>[2] = ev
    BY DEF Waiters

\* The events evs of descriptor fd are withdrawn, here and in the kernel.
Drops(fd, evs) ==
    /\ evs # {} /\ evs \subseteq events[Current(fd)]
    /\ Ctl(fd, gen[fd], events[Current(fd)] \ evs)
    /\ events' = [events EXCEPT ![Current(fd)] = @ \ evs]
    /\ UNCHANGED <<m_size, gen, wobj, ready, opened>>

\* The waiters of these events are scheduled.
Wakes(fd, evs) ==
    /\ scheduled' = [w \in Waiters |->
                       IF w[1] = fd /\ w[2] \in evs /\ scheduled[w] < 2
                       THEN scheduled[w] + 1 ELSE scheduled[w]]
    /\ UNCHANGED wpc

\* epoll_ctl of a descriptor that is not closed does not fail.
LEMMA CtlSucceeds ==
    ASSUME IInv, NEW fd \in Fds, m_size > fd, closing[fd] # "closed"
    PROVE  ~CtlFails(fd, events[Current(fd)]) /\ interest[fd] = events[Current(fd)]
    BY DEF CtlFails, IInv, KernelAgrees

\* A closed descriptor has no events.
LEMMA EventsOpen ==
    ASSUME IInv, NEW fd \in Fds, events[Current(fd)] # {}
    PROVE  closing[fd] = "open" /\ m_size > fd /\ interest[fd] = events[Current(fd)]
<1>1. closing[fd] = "open"
    BY DEF IInv, ClosedInv
<1>2. gen[fd] \in 0 .. MaxGen /\ Current(fd) \in Objs /\ events[Current(fd)] \in SUBSET Ev
    BY ObjsFact DEF IInv, TypeInv, Current
<1>3. m_size > fd
    BY <1>2 DEF IInv, RegisteredInv, Current
<1> QED
    BY <1>1, <1>3, CtlSucceeds

\* cancelAll() withdraws and wakes all there is.
LEMMA CancelAllSteps ==
    ASSUME IInv, NEW fd \in Fds, CancelAllBody(fd),
           UNCHANGED <<m_size, gen, wobj, ready, opened, wpc>>
    PROVE  \/ /\ events[Current(fd)] = {}
              /\ UNCHANGED <<epollVars, events, scheduled>>
           \/ Drops(fd, events[Current(fd)]) /\ Wakes(fd, events[Current(fd)])
<1>1. CASE events[Current(fd)] = {}
    BY <1>1 DEF CancelAllBody
<1>2. CASE events[Current(fd)] # {}
  <2>1. ~CtlFails(fd, events[Current(fd)]) /\ m_size > fd
    BY <1>2, EventsOpen, CtlSucceeds
  <2>2. Ctl(fd, gen[fd], {}) /\ Trigger(Current(fd), events[Current(fd)])
    BY <1>2, <2>1 DEF CancelAllBody
  <2>3. events[Current(fd)] \ events[Current(fd)] = {} /\ Current(fd)[1] = fd
    BY DEF Current
  <2> QED
    BY <1>2, <2>2, <2>3 DEF Drops, Wakes, Trigger
<1> QED
    BY <1>1, <1>2

\* A report withdraws and wakes the events it is about, or nothing.
LEMMA HandleSteps ==
    ASSUME IInv, NEW p \in Pollers, HandleEvent(p)
    PROVE  /\ got[p] \in Objs \X Mask
           /\ UNCHANGED <<m_size, gen, wobj, sockVars, wpc>>
           /\ got' \in {got, [got EXCEPT ![p] = None]}
           /\ LET fd == got[p][1][1]
                  evs == RealEvents(got[p][2])
              IN  /\ fd \in Fds /\ got[p][1] = Current(fd) /\ m_size > fd
                  /\ \/ /\ UNCHANGED <<epollVars, events, scheduled>>
                        /\ got' = got \/ events[Current(fd)] \cap evs = {}
                     \/ Drops(fd, evs) /\ Wakes(fd, evs) /\ evs \subseteq Ev
<1> DEFINE o == got[p][1]  fd == o[1]  evs == RealEvents(got[p][2])
<1>1. got[p] \in Objs \X Mask /\ got[p] # None
    BY DEF HandleEvent, IInv, TypeInv
<1>2. o \in Objs /\ fd \in Fds /\ o = <<fd, o[2]>> /\ o[2] \in 0 .. MaxGen
    BY <1>1 DEF Objs
<1>3. o[2] = gen[fd] /\ m_size > fd
    BY <1>1 DEF IInv, NewestInv
<1>4. o = Current(fd)
    BY <1>2, <1>3 DEF Current
<1>5. UNCHANGED <<m_size, gen, wobj, sockVars, wpc>> /\ got' \in {got, [got EXCEPT ![p] = None]}
    BY DEF HandleEvent, Abort
<1>6. evs \subseteq Ev
    BY <1>1 DEF RealEvents, Mask
<1>7. CASE events[o] \cap evs = {}
    BY <1>1, <1>2, <1>3, <1>4, <1>5, <1>6, <1>7 DEF HandleEvent
<1>8. CASE events[o] \cap evs # {}
  <2>1. ~CtlFails(fd, events[o])
    BY <1>2, <1>4, <1>8, EventsOpen, CtlSucceeds
  <2>2. \/ Abort("triggerEvent")
        \/ evs \subseteq events[o] /\ Ctl(fd, o[2], events[o] \ evs) /\ Trigger(o, evs)
    BY <1>8, <2>1 DEF HandleEvent, TriggerFails
  <2>3. CASE Abort("triggerEvent")
    BY <2>3, <1>1, <1>2, <1>3, <1>4, <1>5 DEF Abort
  <2>4. CASE evs \subseteq events[o] /\ Ctl(fd, o[2], events[o] \ evs) /\ Trigger(o, evs)
    <3>1. Drops(fd, evs)
        BY <2>4, <1>3, <1>4, <1>5, <1>8 DEF Drops, Trigger, sockVars
    <3>2. Wakes(fd, evs)
        BY <2>4, <1>5 DEF Wakes, Trigger
    <3> QED
        BY <3>1, <3>2, <1>1, <1>2, <1>3, <1>4, <1>5, <1>6
  <2> QED
    BY <2>2, <2>3, <2>4
<1> QED
    BY <1>7, <1>8

\* What a withdrawal changes, descriptor by descriptor.
Dropped(fd, evs) ==
    /\ closing[fd] = "open" /\ m_size > fd
    /\ interest[fd] = events[Current(fd)] /\ owner[fd] = gen[fd]
    /\ UNCHANGED <<m_size, gen, wobj, ready, opened>>
    /\ events'[<<fd, gen[fd]>>] = events[<<fd, gen[fd]>>] \ evs
    /\ \A f \in Fds, g \in 0 .. MaxGen :
         ~(f = fd /\ g = gen[fd]) => events'[<<f, g>>] = events[<<f, g>>]
    /\ interest'[fd] = interest[fd] \ evs
    /\ armed'[fd] = (interest'[fd] # {})
    /\ \A f \in Fds : interest'[f] # {} => owner'[f] = owner[f]
    /\ \A f \in Fds : f # fd => interest'[f] = interest[f] /\ armed'[f] = armed[f]

\* A withdrawal changes that and no more.
LEMMA DropsFacts ==
    ASSUME IInv, NEW fd \in Fds, NEW evs, Drops(fd, evs)
    PROVE  Dropped(fd, evs)
<1>1. events[Current(fd)] # {}
    BY DEF Drops
<1>2. closing[fd] = "open" /\ m_size > fd /\ interest[fd] = events[Current(fd)]
    BY <1>1, EventsOpen
<1>3. owner[fd] = gen[fd]
    BY <1>1, <1>2 DEF IInv, NewestInv
<1>4. UNCHANGED <<m_size, gen, wobj, ready, opened>>
    BY DEF Drops
<1>5. /\ events'[<<fd, gen[fd]>>] = events[<<fd, gen[fd]>>] \ evs
      /\ \A f \in Fds, g \in 0 .. MaxGen :
           ~(f = fd /\ g = gen[fd]) => events'[<<f, g>>] = events[<<f, g>>]
  <2>1. /\ events \in [Objs -> SUBSET Ev] /\ gen[fd] \in 0 .. MaxGen /\ <<fd, gen[fd]>> \in Objs
        /\ \A f \in Fds, g \in 0 .. MaxGen : <<f, g>> \in Objs
    BY ObjsFact DEF IInv, TypeInv
  <2> QED
    BY <2>1 DEF Drops, Current
<1>6. /\ interest'[fd] = interest[fd] \ evs
      /\ armed'[fd] = (interest'[fd] # {})
      /\ \A f \in Fds : interest'[f] # {} => owner'[f] = owner[f]
      /\ \A f \in Fds : f # fd => interest'[f] = interest[f] /\ armed'[f] = armed[f]
  <2>1. /\ interest \in [Fds -> SUBSET Ev] /\ owner \in [Fds -> 0 .. MaxGen]
        /\ armed \in [Fds -> BOOLEAN]
    BY DEF IInv, TypeInv
  <2> QED
    BY <1>2, <1>3, <2>1 DEF Drops, Ctl
<1> QED
    BY <1>2, <1>3, <1>4, <1>5, <1>6 DEF Dropped

\* The table still has its first size or holds every descriptor.
LEMMA NextTable == IInv /\ TableFits /\ [Next]_vars => TableInv'
<1> SUFFICES ASSUME IInv, TableFits, [Next]_vars PROVE TableInv'
    OBVIOUS
<1>0. wpc \in [Waiters -> WaiterSteps] /\ TableInv
    BY DEF IInv, TypeInv
<1>1. ASSUME NEW w \in Waiters, TryAgain(w) PROVE TableInv'
    BY <1>0, <1>1 DEF TryAgain, GotoW, TableInv
<1>2. ASSUME NEW w \in Waiters, Lookup(w) PROVE TableInv'
  <2>1. w[1] \in Nat /\ m_size \in Nat /\ InitSize \in Nat
    BY WaitersFact, IOManagerConstants DEF IInv, TypeInv
  <2>2. \A v \in Waiters : v[1] \in Fds
    BY WaitersFact
  <2> QED
    BY <1>0, <1>2, <2>1, <2>2 DEF Lookup, GotoW, TableInv
<1>3. ASSUME NEW w \in Waiters, Resize(w) PROVE TableInv'
  <2>1. w[1] >= InitSize /\ w[1] \in Fds /\ w[1] \in Nat /\ Fds \subseteq Nat
    BY <1>0, <1>3, WaitersFact, IOManagerConstants DEF Resize, TableInv
  <2>2. \A fd \in Fds : m_size' > fd
    BY <1>3, <2>1 DEF TableFits, Resize
  <2> QED
    BY <1>0, <1>3, <2>2 DEF Resize, GotoW, TableInv
<1>4. ASSUME NEW w \in Waiters, AddEvent(w) PROVE TableInv'
    BY <1>0, <1>4 DEF AddEvent, Abort, GotoW, TableInv
<1>5. ASSUME NEW w \in Waiters, Resume(w) \/ DelEvent(w) PROVE TableInv'
    BY <1>0, <1>5 DEF Resume, DelEvent, GotoW, TableInv
<1>6. CASE UNCHANGED <<m_size, wpc>>
    BY <1>0, <1>6 DEF TableInv
<1>7. ASSUME NEW p \in Pollers, Poll(p) PROVE TableInv'
    BY <1>6, <1>7 DEF Poll, HandleEvent, EpollWait, Abort
<1>8. CASE Environment
    BY <1>6, <1>8
    DEF Environment, CancelEvent, CancelAll, CloseCancels, CloseSystem, Open, BecomeReady
<1>9. CASE UNCHANGED vars
    BY <1>6, <1>9 DEF vars
<1> QED
    BY <1>1, <1>2, <1>3, <1>4, <1>5, <1>7, <1>8, <1>9 DEF Next, WaiterStep

\* What contextResize() changes.
ResizedBy(w) ==
    /\ wpc[w] = "resize" /\ w[1] \in Fds
    /\ \A fd \in Fds : m_size' > fd /\ gen'[fd] \in 0 .. MaxGen
    /\ \A fd \in Fds : m_size > fd => gen'[fd] = gen[fd]
    /\ \A fd \in Fds : ~(m_size > fd) =>
         interest[fd] = {} /\ \A g \in 0 .. MaxGen : events[<<fd, g>>] = {}
    /\ \A v \in Waiters :
         /\ wobj'[v] = IF v = w THEN gen'[w[1]] ELSE wobj[v]
         /\ wpc'[v] = IF v = w THEN "add" ELSE wpc[v]
    /\ UNCHANGED <<events, epollVars, sockVars, scheduled, got>>

\* What contextResize() changes: FdContexts are made only for descriptors that
\* have no events anywhere.
LEMMA ResizeFacts ==
    ASSUME IInv, TableFits, NEW w \in Waiters, Resize(w)
    PROVE  ResizedBy(w)
<1>1. wpc[w] = "resize" /\ w[1] \in Fds /\ w[1] \in Nat /\ Fds \subseteq Nat
    BY WaitersFact, IOManagerConstants DEF Resize
<1>2. \A fd \in Fds : m_size' > fd /\ gen'[fd] \in 0 .. MaxGen
  <2>1. w[1] >= InitSize
    BY <1>1 DEF IInv, TableInv
  <2>2. \A fd \in Fds : m_size' > fd
    BY <1>1, <2>1 DEF TableFits, Resize
  <2>3. gen' \in [Fds -> 0 .. MaxGen]
    <3>1. gen \in [Fds -> 0 .. MaxGen] /\ MaxGen \in Nat
        BY IOManagerConstants DEF IInv, TypeInv
    <3> QED
        BY <3>1, <1>1 DEF Resize, Resized
  <2> QED
    BY <2>2, <2>3
<1>3. \A fd \in Fds : m_size > fd => gen'[fd] = gen[fd]
  <2>1. m_size \in Nat
    BY DEF IInv, TypeInv
  <2>2. PICK n : gen' = [fd \in Fds |-> IF m_size <= fd /\ fd < n THEN gen[fd] + 1 ELSE gen[fd]]
    BY DEF Resize, Resized
  <2>3. ASSUME NEW fd \in Fds, m_size > fd PROVE ~(m_size <= fd)
    BY <1>1, <2>1, <2>3
  <2> QED
    BY <2>2, <2>3
<1>4. ASSUME NEW fd \in Fds, ~(m_size > fd)
      PROVE  interest[fd] = {} /\ \A g \in 0 .. MaxGen : events[<<fd, g>>] = {}
  <2>1. \A g \in 0 .. MaxGen : events[<<fd, g>>] \in SUBSET Ev
    BY ObjsFact DEF IInv, TypeInv
  <2>2. \A g \in 0 .. MaxGen : events[<<fd, g>>] = {}
    BY <1>4, <2>1 DEF IInv, RegisteredInv
  <2>3. interest[fd] = {}
    BY <1>4 DEF IInv, KernelAgrees, ClosedInv
  <2> QED
    BY <2>2, <2>3
<1>5. \A v \in Waiters :
        /\ wobj'[v] = IF v = w THEN gen'[w[1]] ELSE wobj[v]
        /\ wpc'[v] = IF v = w THEN "add" ELSE wpc[v]
  <2>1. wobj \in [Waiters -> 0 .. MaxGen] /\ wpc \in [Waiters -> WaiterSteps]
    BY DEF IInv, TypeInv
  <2> QED
    BY <2>1 DEF Resize, GotoW
<1>6. UNCHANGED <<events, epollVars, sockVars, scheduled, got>>
    BY DEF Resize
<1> QED
    BY <1>1, <1>2, <1>3, <1>4, <1>5, <1>6 DEF ResizedBy

\* What addEvent() changes.
AddedBy(w) ==
    /\ wpc[w] = "add" /\ closing[w[1]] = "open"
    /\ w[1] \in Fds /\ w[2] \in Ev /\ wobj[w] = gen[w[1]] /\ m_size > w[1]
    /\ events'[<<w[1], gen[w[1]]>>] = events[<<w[1], gen[w[1]]>>] \cup {w[2]}
    /\ \A f \in Fds, g \in 0 .. MaxGen :
         ~(f = w[1] /\ g = gen[f]) => events'[<<f, g>>] = events[<<f, g>>]
    /\ interest'[w[1]] = events[<<w[1], gen[w[1]]>>] \cup {w[2]}
    /\ owner'[w[1]] = gen[w[1]] /\ armed'[w[1]] = TRUE
    /\ \A f \in Fds : f # w[1] =>
         interest'[f] = interest[f] /\ owner'[f] = owner[f] /\ armed'[f] = armed[f]
    /\ \A v \in Waiters : wpc'[v] = IF v = w THEN "wait" ELSE wpc[v]
    /\ UNCHANGED <<m_size, gen, sockVars, wobj, scheduled, got>>

\* addEvent() always succeeds: its assertion holds, and so does epoll_ctl.
LEMMA AddFacts ==
    ASSUME IInv, NEW w \in Waiters, AddEvent(w)
    PROVE  AddedBy(w)
<1> DEFINE fd == w[1]  o == <<fd, wobj[w]>>
<1>1. wpc[w] = "add" /\ fd \in Fds /\ w[2] \in Ev /\ w = <<fd, w[2]>>
    BY WaitersFact DEF AddEvent
<1>2. wobj[w] = gen[fd] /\ m_size > fd /\ gen[fd] \in 0 .. MaxGen
    BY <1>1 DEF IInv, NewestInv, TypeInv
<1>3. o = Current(fd) /\ o \in Objs
    BY <1>1, <1>2, ObjsFact DEF Current
<1>4. closing[fd] = "open"
    BY <1>1 DEF IInv, ClosedInv
<1>5. w[2] \notin events[o]
    BY <1>1, <1>2 DEF IInv, RegisteredInv
<1>6. ~CtlFails(fd, events[o])
    BY <1>1, <1>2, <1>3, <1>4, CtlSucceeds
<1>7. /\ Ctl(fd, wobj[w], events[o] \cup {w[2]})
      /\ events' = [events EXCEPT ![o] = @ \cup {w[2]}]
      /\ wpc' = [wpc EXCEPT ![w] = "wait"]
      /\ UNCHANGED <<m_size, gen, sockVars, wobj, scheduled, got>>
    BY <1>5, <1>6 DEF AddEvent, GotoW
<1>8. /\ events'[<<fd, gen[fd]>>] = events[<<fd, gen[fd]>>] \cup {w[2]}
      /\ \A f \in Fds, g \in 0 .. MaxGen :
           ~(f = fd /\ g = gen[f]) => events'[<<f, g>>] = events[<<f, g>>]
  <2>1. /\ events \in [Objs -> SUBSET Ev] /\ <<fd, gen[fd]>> \in Objs /\ o = <<fd, gen[fd]>>
        /\ \A f \in Fds, g \in 0 .. MaxGen : <<f, g>> \in Objs
    BY <1>2, <1>3, ObjsFact DEF IInv, TypeInv
  <2> QED
    BY <1>7, <2>1
<1>9. /\ interest'[fd] = events[<<fd, gen[fd]>>] \cup {w[2]}
      /\ owner'[fd] = gen[fd] /\ armed'[fd] = TRUE
      /\ \A f \in Fds : f # fd =>
           interest'[f] = interest[f] /\ owner'[f] = owner[f] /\ armed'[f] = armed[f]
  <2>1. /\ interest \in [Fds -> SUBSET Ev] /\ owner \in [Fds -> 0 .. MaxGen]
        /\ armed \in [Fds -> BOOLEAN]
    BY DEF IInv, TypeInv
  <2>2. events[o] \cup {w[2]} # {} /\ o = <<fd, gen[fd]>>
    BY <1>2
  <2> QED
    BY <1>1, <1>2, <1>7, <2>1, <2>2 DEF Ctl
<1>10. \A v \in Waiters : wpc'[v] = IF v = w THEN "wait" ELSE wpc[v]
    BY <1>7 DEF IInv, TypeInv
<1> QED
    BY <1>1, <1>2, <1>4, <1>7, <1>8, <1>9, <1>10 DEF AddedBy

\* delEvent() and cancelEvent() are withdrawals.
LEMMA WithdrawSteps ==
    ASSUME IInv
    PROVE  /\ \A w \in Waiters : DelEvent(w) =>
                /\ Drops(w[1], {w[2]}) /\ wpc[w] = "wait" /\ wpc' = [wpc EXCEPT ![w] = "run"]
                /\ UNCHANGED <<closing, scheduled, got>>
           /\ \A fd \in Fds, ev \in Ev : CancelEvent(fd, ev) =>
                Drops(fd, {ev}) /\ Wakes(fd, {ev}) /\ UNCHANGED <<closing, got>>
<1>1. ASSUME NEW w \in Waiters, DelEvent(w)
      PROVE  /\ Drops(w[1], {w[2]}) /\ wpc[w] = "wait" /\ wpc' = [wpc EXCEPT ![w] = "run"]
             /\ UNCHANGED <<closing, scheduled, got>>
    BY <1>1 DEF DelEvent, Drops, GotoW, sockVars
<1>2. ASSUME NEW fd \in Fds, NEW ev \in Ev, CancelEvent(fd, ev)
      PROVE  Drops(fd, {ev}) /\ Wakes(fd, {ev}) /\ UNCHANGED <<closing, got>>
  <2>1. Current(fd)[1] = fd
    BY DEF Current
  <2> QED
    BY <1>2, <2>1 DEF CancelEvent, Drops, Wakes, Trigger, sockVars
<1> QED
    BY <1>1, <1>2

-----------------------------------------------------------------------------
(* Preservation of the invariant, conjunct by conjunct. *)

\* Whoever holds an FdContext still holds the newest one.
LEMMA NextNewest == IInv /\ TableFits /\ [Next]_vars => NewestInv'
<1> SUFFICES ASSUME IInv, TableFits, [Next]_vars PROVE NewestInv'
    OBVIOUS
<1>0. NewestInv /\ wpc \in [Waiters -> WaiterSteps] /\ wobj \in [Waiters -> 0 .. MaxGen]
      /\ got \in [Pollers -> {None} \cup (Objs \X Mask)]
    BY DEF IInv, TypeInv
<1>00. \A w \in Waiters : w[1] \in Fds
    BY WaitersFact
<1>1. ASSUME NEW w \in Waiters, TryAgain(w) \/ Resume(w) PROVE NewestInv'
    BY <1>0, <1>1 DEF TryAgain, Resume, GotoW, epollVars, NewestInv
<1>2. ASSUME NEW w \in Waiters, Lookup(w) PROVE NewestInv'
    BY <1>0, <1>2 DEF Lookup, GotoW, epollVars, NewestInv
<1>3. ASSUME NEW w \in Waiters, Resize(w) PROVE NewestInv'
  <2>d. ResizedBy(w)
    BY <1>3, ResizeFacts
  <2>1. \A v \in Waiters : wpc'[v] \in {"add", "wait"} => wobj'[v] = gen'[v[1]] /\ m_size' > v[1]
    BY <2>d, <1>0, <1>00, <1>3 DEF ResizedBy, NewestInv
  <2>2. \A fd \in Fds : interest'[fd] # {} => owner'[fd] = gen'[fd]
    BY <2>d, <1>0, <1>3 DEF ResizedBy, NewestInv, epollVars
  <2>3. \A p \in Pollers : got'[p] # None =>
          got'[p][1][2] = gen'[got'[p][1][1]] /\ m_size' > got'[p][1][1]
    <3>1. \A p \in Pollers : got[p] # None => got[p][1][1] \in Fds
        BY <1>0 DEF Objs
    <3> QED
        BY <2>d, <1>0, <1>3, <3>1 DEF ResizedBy, NewestInv
  <2> QED
    BY <2>1, <2>2, <2>3 DEF NewestInv
<1>4. ASSUME NEW w \in Waiters, AddEvent(w) PROVE NewestInv'
  <2>d. AddedBy(w)
    BY <1>4, AddFacts
  <2>1. \A v \in Waiters : wpc'[v] \in {"add", "wait"} => wpc[v] \in {"add", "wait"}
    BY <2>d, <1>4 DEF AddedBy
  <2>2. \A fd \in Fds : owner'[fd] = gen[fd] \/ (interest'[fd] = interest[fd] /\ owner'[fd] = owner[fd])
    BY <2>d, <1>4 DEF AddedBy
  <2>3. UNCHANGED <<m_size, gen, wobj, got>>
    BY <2>d, <1>4 DEF AddedBy
  <2> QED
    BY <1>0, <2>1, <2>2, <2>3 DEF NewestInv
<1>5. ASSUME NEW w \in Waiters, DelEvent(w) PROVE NewestInv'
  <2>1. Drops(w[1], {w[2]}) /\ wpc' = [wpc EXCEPT ![w] = "run"] /\ got' = got
    BY <1>5, WithdrawSteps
  <2>d. Dropped(w[1], {w[2]})
    BY <1>00, <2>1, DropsFacts
  <2>a. /\ interest'[w[1]] = interest[w[1]] \ {w[2]}
        /\ \A f \in Fds : f # w[1] => interest'[f] = interest[f]
        /\ \A f \in Fds : interest'[f] # {} => owner'[f] = owner[f]
    BY <2>d, <1>00, <2>1 DEF Dropped
  <2>2. \A f \in Fds : interest'[f] # {} => interest[f] # {} /\ owner'[f] = owner[f]
    BY <2>a
  <2>3. UNCHANGED <<m_size, gen, wobj>>
    BY <2>d, <1>00, <2>1 DEF Dropped
  <2> QED
    BY <1>0, <2>1, <2>2, <2>3 DEF NewestInv
<1>6. ASSUME NEW fd \in Fds, NEW evs, Drops(fd, evs), UNCHANGED wpc,
             \A p \in Pollers : got'[p] \in {got[p], None}
      PROVE  NewestInv'
  <2>d. Dropped(fd, evs)
    BY <1>6, DropsFacts
  <2>1. \A f \in Fds : interest'[f] # {} => interest[f] # {} /\ owner'[f] = owner[f]
    BY <2>d, <1>6 DEF Dropped
  <2>2. UNCHANGED <<m_size, gen, wobj>>
    BY <2>d, <1>6 DEF Dropped
  <2> QED
    BY <1>0, <1>6, <2>1, <2>2 DEF NewestInv
<1>7. ASSUME UNCHANGED <<m_size, gen, wpc, wobj, interest, owner>>,
             \A p \in Pollers : got'[p] \in {got[p], None}
      PROVE  NewestInv'
    BY <1>0, <1>7 DEF NewestInv
<1>8. ASSUME NEW fd \in Fds, CancelAll(fd) \/ CloseCancels(fd) PROVE NewestInv'
  <2>1. CancelAllBody(fd) /\ UNCHANGED <<m_size, gen, wobj, ready, opened, wpc, got>>
    BY <1>8 DEF CancelAll, CloseCancels, sockVars
  <2> QED
    BY <2>1, CancelAllSteps, <1>6, <1>7 DEF epollVars
<1>9. ASSUME NEW fd \in Fds, NEW ev \in Ev, CancelEvent(fd, ev) PROVE NewestInv'
    BY <1>6, <1>9, WithdrawSteps DEF Wakes
<1>10. ASSUME NEW fd \in Fds, CloseSystem(fd) PROVE NewestInv'
  <2>1. \A f \in Fds : interest'[f] # {} => interest[f] # {} /\ owner'[f] = owner[f]
    BY <1>10 DEF CloseSystem, IInv, TypeInv
  <2> QED
    BY <1>0, <1>10, <2>1 DEF CloseSystem, NewestInv
<1>11. ASSUME NEW fd \in Fds, Open(fd) \/ \E r \in Ev \cup {"ERR"} : BecomeReady(fd, r)
       PROVE  NewestInv'
    BY <1>7, <1>11 DEF Open, BecomeReady
<1>12. ASSUME NEW p \in Pollers, NEW fd \in Fds, EpollWait(p, fd) PROVE NewestInv'
  <2>1. interest[fd] # {}
    BY <1>12 DEF EpollWait, Reportable
  <2>2. fd \in Nat /\ owner[fd] = gen[fd] /\ m_size > fd
    <3>1. closing[fd] # "closed"
        BY <2>1 DEF IInv, ClosedInv
    <3> QED
        BY <2>1, <3>1, IOManagerConstants DEF IInv, KernelAgrees, NewestInv
  <2>3. \A q \in Pollers :
          got'[q] = IF q = p THEN <<<<fd, gen[fd]>>, Reportable(fd)>> ELSE got[q]
    BY <1>0, <1>12, <2>2 DEF EpollWait
  <2> QED
    BY <1>0, <1>12, <2>2, <2>3 DEF EpollWait, NewestInv
<1>13. ASSUME NEW p \in Pollers, HandleEvent(p) PROVE NewestInv'
  <2>1. \A q \in Pollers : got'[q] \in {got[q], None}
    BY <1>0, <1>13, HandleSteps
  <2> QED
    BY <1>13, <1>6, <1>7, <2>1, HandleSteps DEF epollVars
<1>14. CASE UNCHANGED vars
    BY <1>7, <1>14 DEF vars, epollVars
<1> QED
    BY <1>1, <1>2, <1>3, <1>4, <1>5, <1>8, <1>9, <1>10, <1>11, <1>12, <1>13, <1>14
    DEF Next, WaiterStep, Poll, Environment

\* Events stay registered in the newest FdContext and by waiters that wait.
LEMMA NextRegistered == IInv /\ TableFits /\ [Next]_vars => RegisteredInv'
<1> SUFFICES ASSUME IInv, TableFits, [Next]_vars PROVE RegisteredInv'
    OBVIOUS
<1>0. RegisteredInv /\ wpc \in [Waiters -> WaiterSteps]
    BY DEF IInv, TypeInv
<1>00. \A fd \in Fds, ev \in Ev :
         <<fd, ev>> \in Waiters /\ <<fd, ev>>[1] = fd /\ <<fd, ev>>[2] = ev
    BY WaitersFact
<1>1. ASSUME NEW w \in Waiters, TryAgain(w) PROVE RegisteredInv'
    BY <1>0, <1>00, <1>1 DEF TryAgain, GotoW, RegisteredInv
<1>2. ASSUME NEW w \in Waiters, Lookup(w) PROVE RegisteredInv'
    BY <1>0, <1>00, <1>2 DEF Lookup, GotoW, RegisteredInv
<1>3. ASSUME NEW w \in Waiters, Resize(w) PROVE RegisteredInv'
  <2>d. ResizedBy(w)
    BY <1>3, ResizeFacts
  <2>1. \A fd \in Fds, g \in 0 .. MaxGen : events[<<fd, g>>] # {} => m_size > fd
    BY <2>d, <1>3 DEF ResizedBy
  <2>2. \A fd \in Fds, ev \in Ev : wpc[<<fd, ev>>] = "wait" => wpc'[<<fd, ev>>] = "wait"
    BY <2>d, <1>3, <1>00 DEF ResizedBy
  <2>3. \A fd \in Fds : m_size' > fd /\ (m_size > fd => gen'[fd] = gen[fd])
    BY <2>d, <1>3 DEF ResizedBy
  <2>4. events' = events
    BY <2>d, <1>3 DEF ResizedBy
  <2> QED
    BY <1>0, <2>1, <2>2, <2>3, <2>4 DEF RegisteredInv
<1>4. ASSUME NEW w \in Waiters, AddEvent(w) PROVE RegisteredInv'
  <2>d. AddedBy(w)
    BY <1>4, AddFacts
  <2>0. /\ w[1] \in Fds /\ w[2] \in Ev /\ m_size > w[1]
        /\ events'[<<w[1], gen[w[1]]>>] = events[<<w[1], gen[w[1]]>>] \cup {w[2]}
        /\ \A f \in Fds, g \in 0 .. MaxGen :
             ~(f = w[1] /\ g = gen[f]) => events'[<<f, g>>] = events[<<f, g>>]
        /\ \A v \in Waiters : wpc'[v] = IF v = w THEN "wait" ELSE wpc[v]
    BY <2>d, <1>4 DEF AddedBy
  <2>1. \A f \in Fds, g \in 0 .. MaxGen, ev \in Ev : ev \in events'[<<f, g>>] =>
          \/ ev \in events[<<f, g>>]
          \/ f = w[1] /\ g = gen[f] /\ ev = w[2] /\ m_size > f
    BY <2>0
  <2>2. \A fd \in Fds, ev \in Ev :
          wpc[<<fd, ev>>] = "wait" \/ (fd = w[1] /\ ev = w[2]) => wpc'[<<fd, ev>>] = "wait"
    <3>1. w = <<w[1], w[2]>>
        BY WaitersFact
    <3> QED
        BY <2>0, <1>00, <3>1
  <2>3. UNCHANGED <<gen, m_size>>
    BY <2>d, <1>4 DEF AddedBy
  <2> QED
    BY <1>0, <2>1, <2>2, <2>3 DEF RegisteredInv
<1>5. ASSUME NEW w \in Waiters, Resume(w) PROVE RegisteredInv'
  <2>1. w[1] \in Fds /\ w[2] \in Ev /\ w = <<w[1], w[2]>> /\ wpc[w] = "wait"
    BY <1>5, WaitersFact DEF Resume
  <2>2. wobj[w] = gen[w[1]] /\ scheduled[w] # 0
    BY <1>5, <2>1 DEF IInv, NewestInv, Resume, TypeInv
  <2>3. w[2] \notin events[<<w[1], gen[w[1]]>>]
    BY <2>1, <2>2 DEF IInv, WaiterAccounted
  <2>4. \A fd \in Fds, ev \in Ev : <<fd, ev>> = w <=> fd = w[1] /\ ev = w[2]
    BY <2>1
  <2> QED
    BY <1>0, <1>00, <1>5, <2>1, <2>3, <2>4 DEF Resume, GotoW, RegisteredInv
<1>6. ASSUME NEW fd \in Fds, NEW evs, Drops(fd, evs),
             \A f \in Fds, ev \in Ev :
               wpc[<<f, ev>>] = "wait" /\ ~(f = fd /\ ev \in evs) => wpc'[<<f, ev>>] = "wait"
      PROVE  RegisteredInv'
  <2>d. Dropped(fd, evs)
    BY <1>6, DropsFacts
  <2>0. /\ events'[<<fd, gen[fd]>>] = events[<<fd, gen[fd]>>] \ evs
        /\ \A f \in Fds, g \in 0 .. MaxGen :
             ~(f = fd /\ g = gen[fd]) => events'[<<f, g>>] = events[<<f, g>>]
    BY <2>d, <1>6 DEF Dropped
  <2>1. \A f \in Fds, g \in 0 .. MaxGen, ev \in Ev : ev \in events'[<<f, g>>] =>
          ev \in events[<<f, g>>] /\ ~(f = fd /\ g = gen[fd] /\ ev \in evs)
    BY <2>0
  <2>2. UNCHANGED <<gen, m_size>>
    BY <2>d, <1>6 DEF Dropped
  <2> QED
    BY <1>0, <1>6, <2>1, <2>2 DEF RegisteredInv
<1>7. ASSUME NEW w \in Waiters, DelEvent(w) PROVE RegisteredInv'
  <2>1. w[1] \in Fds /\ w = <<w[1], w[2]>>
    BY WaitersFact
  <2>2. Drops(w[1], {w[2]}) /\ wpc' = [wpc EXCEPT ![w] = "run"]
    BY <1>7, WithdrawSteps
  <2>3. \A f \in Fds, ev \in Ev : ~(f = w[1] /\ ev \in {w[2]}) => <<f, ev>> # w
    BY <2>1
  <2> QED
    BY <1>0, <1>00, <1>6, <2>1, <2>2, <2>3
<1>8. CASE UNCHANGED <<m_size, gen, events, wpc>>
    BY <1>0, <1>8 DEF RegisteredInv
<1>9. ASSUME NEW fd \in Fds, CancelAll(fd) \/ CloseCancels(fd) PROVE RegisteredInv'
  <2>1. CancelAllBody(fd) /\ UNCHANGED <<m_size, gen, wobj, ready, opened, wpc>>
    BY <1>9 DEF CancelAll, CloseCancels, sockVars
  <2> QED
    BY <2>1, CancelAllSteps, <1>6, <1>8
<1>10. ASSUME NEW fd \in Fds, NEW ev \in Ev, CancelEvent(fd, ev) PROVE RegisteredInv'
    BY <1>6, <1>10, WithdrawSteps DEF Wakes
<1>11. ASSUME NEW p \in Pollers, HandleEvent(p) PROVE RegisteredInv'
    BY <1>11, <1>6, <1>8, HandleSteps
<1>12. ASSUME NEW fd \in Fds, CloseSystem(fd) \/ Open(fd)
                                \/ \E r \in Ev \cup {"ERR"} : BecomeReady(fd, r)
       PROVE  RegisteredInv'
    BY <1>8, <1>12 DEF CloseSystem, Open, BecomeReady
<1>13. ASSUME NEW p \in Pollers, NEW fd \in Fds, EpollWait(p, fd) PROVE RegisteredInv'
    BY <1>8, <1>13 DEF EpollWait
<1>14. CASE UNCHANGED vars
    BY <1>8, <1>14 DEF vars
<1> QED
    BY <1>1, <1>2, <1>3, <1>4, <1>5, <1>7, <1>9, <1>10, <1>11, <1>12, <1>13, <1>14
    DEF Next, WaiterStep, Poll, Environment

\* The kernel's interest list still agrees with the FdContexts.
LEMMA NextKernel == IInv /\ TableFits /\ [Next]_vars => KernelAgrees'
<1> SUFFICES ASSUME IInv, TableFits, [Next]_vars PROVE KernelAgrees'
    OBVIOUS
<1>0. KernelAgrees /\ gen \in [Fds -> 0 .. MaxGen]
      /\ closing \in [Fds -> {"open", "closing", "closed"}] /\ interest \in [Fds -> SUBSET Ev]
    BY DEF IInv, TypeInv
<1>1. CASE UNCHANGED <<m_size, gen, events, interest, closing>>
    BY <1>0, <1>1 DEF KernelAgrees, Current
<1>2. ASSUME NEW w \in Waiters, Resize(w) PROVE KernelAgrees'
  <2>d. ResizedBy(w)
    BY <1>2, ResizeFacts
  <2>1. \A fd \in Fds :
          /\ m_size' > fd /\ gen'[fd] \in 0 .. MaxGen
          /\ m_size > fd => gen'[fd] = gen[fd]
          /\ ~(m_size > fd) => interest[fd] = {} /\ events[<<fd, gen'[fd]>>] = {}
    BY <2>d, <1>2 DEF ResizedBy
  <2>2. UNCHANGED <<events, interest, closing>>
    BY <2>d, <1>2 DEF ResizedBy, epollVars, sockVars
  <2> QED
    BY <1>0, <2>1, <2>2 DEF KernelAgrees, Current
<1>3. ASSUME NEW w \in Waiters, AddEvent(w) PROVE KernelAgrees'
  <2>d. AddedBy(w)
    BY <1>3, AddFacts
  <2>0. /\ w[1] \in Fds /\ w[2] \in Ev /\ m_size > w[1]
        /\ events'[<<w[1], gen[w[1]]>>] = events[<<w[1], gen[w[1]]>>] \cup {w[2]}
        /\ \A f \in Fds, g \in 0 .. MaxGen :
             ~(f = w[1] /\ g = gen[f]) => events'[<<f, g>>] = events[<<f, g>>]
    BY <2>d, <1>3 DEF AddedBy
  <2>00. /\ interest'[w[1]] = events[<<w[1], gen[w[1]]>>] \cup {w[2]}
         /\ \A f \in Fds : f # w[1] => interest'[f] = interest[f]
    BY <2>d, <1>3 DEF AddedBy
  <2>1. \A f \in Fds :
          /\ f = w[1] => m_size > f /\ events'[<<f, gen[f]>>] = events[<<f, gen[f]>>] \cup {w[2]}
                           /\ interest'[f] = events[<<f, gen[f]>>] \cup {w[2]}
          /\ f # w[1] => events'[<<f, gen[f]>>] = events[<<f, gen[f]>>]
                           /\ interest'[f] = interest[f]
    BY <1>0, <2>0, <2>00
  <2>2. UNCHANGED <<gen, m_size, closing>>
    BY <2>d, <1>3 DEF AddedBy, sockVars
  <2> QED
    BY <1>0, <2>1, <2>2 DEF KernelAgrees, Current
<1>4. ASSUME NEW fd \in Fds, NEW evs, Drops(fd, evs),
             \A f \in Fds : closing'[f] # "closed" => closing[f] # "closed"
      PROVE  KernelAgrees'
  <2>d. Dropped(fd, evs)
    BY <1>4, DropsFacts
  <2>0. /\ m_size > fd /\ interest[fd] = events[Current(fd)]
        /\ events'[<<fd, gen[fd]>>] = events[<<fd, gen[fd]>>] \ evs
        /\ \A f \in Fds, g \in 0 .. MaxGen :
             ~(f = fd /\ g = gen[fd]) => events'[<<f, g>>] = events[<<f, g>>]
        /\ interest'[fd] = interest[fd] \ evs
        /\ \A f \in Fds : f # fd => interest'[f] = interest[f]
    BY <2>d, <1>4 DEF Dropped
  <2>1. \A f \in Fds :
          /\ f = fd => m_size > f /\ interest[f] = events[<<f, gen[f]>>]
                         /\ events'[<<f, gen[f]>>] = events[<<f, gen[f]>>] \ evs
                         /\ interest'[f] = interest[f] \ evs
          /\ f # fd => events'[<<f, gen[f]>>] = events[<<f, gen[f]>>]
                         /\ interest'[f] = interest[f]
    BY <1>0, <2>0 DEF Current
  <2>2. UNCHANGED <<gen, m_size>>
    BY <2>d, <1>4 DEF Dropped
  <2> QED
    BY <1>0, <1>4, <2>1, <2>2 DEF KernelAgrees, Current
<1>5. ASSUME NEW w \in Waiters, DelEvent(w) PROVE KernelAgrees'
  <2>1. w[1] \in Fds
    BY WaitersFact
  <2>2. Drops(w[1], {w[2]}) /\ UNCHANGED closing
    BY <1>5, WithdrawSteps
  <2> QED
    BY <1>4, <2>1, <2>2
<1>6. ASSUME NEW fd \in Fds, NEW ev \in Ev, CancelEvent(fd, ev) PROVE KernelAgrees'
    BY <1>4, <1>6, WithdrawSteps
<1>7. ASSUME NEW fd \in Fds, CancelAll(fd) PROVE KernelAgrees'
  <2>1. CancelAllBody(fd) /\ UNCHANGED <<m_size, gen, wobj, ready, opened, wpc, closing>>
    BY <1>7 DEF CancelAll, sockVars
  <2> QED
    BY <2>1, CancelAllSteps, <1>1, <1>4 DEF epollVars
<1>8. ASSUME NEW fd \in Fds, CloseCancels(fd) PROVE KernelAgrees'
  <2>1. CancelAllBody(fd) /\ UNCHANGED <<m_size, gen, wobj, ready, opened, wpc>>
    BY <1>8 DEF CloseCancels
  <2>2. \A f \in Fds : closing'[f] # "closed" => closing[f] # "closed"
    BY <1>0, <1>8 DEF CloseCancels
  <2>3. CASE UNCHANGED <<epollVars, events>>
    BY <1>0, <2>1, <2>2, <2>3 DEF KernelAgrees, Current, epollVars
  <2> QED
    BY <2>1, <2>2, <2>3, CancelAllSteps, <1>4
<1>9. ASSUME NEW fd \in Fds, CloseSystem(fd) PROVE KernelAgrees'
    BY <1>0, <1>9 DEF CloseSystem, KernelAgrees, Current
<1>10. ASSUME NEW fd \in Fds, Open(fd) PROVE KernelAgrees'
  <2>1. interest[fd] = {} /\ events[Current(fd)] = {}
    BY <1>10 DEF Open, IInv, ClosedInv
  <2> QED
    BY <1>0, <1>10, <2>1 DEF Open, KernelAgrees, Current
<1>11. ASSUME NEW p \in Pollers, HandleEvent(p) PROVE KernelAgrees'
  <2>1. UNCHANGED closing
    BY <1>11, HandleSteps DEF sockVars
  <2> QED
    BY <1>11, <1>1, <1>4, <2>1, HandleSteps DEF epollVars
<1>12. ASSUME NEW w \in Waiters, TryAgain(w) \/ Lookup(w) \/ Resume(w) PROVE KernelAgrees'
    BY <1>1, <1>12 DEF TryAgain, Lookup, Resume, epollVars, sockVars
<1>13. ASSUME NEW fd \in Fds, NEW r \in Ev \cup {"ERR"}, BecomeReady(fd, r) PROVE KernelAgrees'
    BY <1>1, <1>13 DEF BecomeReady
<1>14. ASSUME NEW p \in Pollers, NEW fd \in Fds, EpollWait(p, fd) PROVE KernelAgrees'
    BY <1>1, <1>14 DEF EpollWait
<1>15. CASE UNCHANGED vars
    BY <1>1, <1>15 DEF vars, epollVars, sockVars
<1> QED
    BY <1>2, <1>3, <1>5, <1>6, <1>7, <1>8, <1>9, <1>10, <1>11, <1>12, <1>13, <1>14, <1>15
    DEF Next, WaiterStep, Poll, Environment

\* Nothing is registered for a descriptor between the cancelAll() of close()
\* and the next open().
LEMMA NextClosed == IInv /\ TableFits /\ NoRetry /\ [Next]_vars => ClosedInv'
<1> SUFFICES ASSUME IInv, TableFits, NoRetry, [Next]_vars PROVE ClosedInv'
    OBVIOUS
<1>0. ClosedInv /\ gen \in [Fds -> 0 .. MaxGen] /\ wpc \in [Waiters -> WaiterSteps]
      /\ closing \in [Fds -> {"open", "closing", "closed"}] /\ interest \in [Fds -> SUBSET Ev]
    BY DEF IInv, TypeInv
<1>00. \A fd \in Fds, ev \in Ev :
         <<fd, ev>> \in Waiters /\ <<fd, ev>>[1] = fd /\ <<fd, ev>>[2] = ev
    BY WaitersFact
<1>1. ASSUME UNCHANGED <<gen, events, interest>>,
             \A fd \in Fds : closing'[fd] # "open" => closing[fd] # "open",
             \A fd \in Fds, ev \in Ev : closing[fd] # "open" /\ wpc[<<fd, ev>>] \in {"run", "wait"}
                                          => wpc'[<<fd, ev>>] \in {"run", "wait"}
      PROVE  ClosedInv'
    BY <1>0, <1>1 DEF ClosedInv, Current
<1>2. ASSUME NEW w \in Waiters, TryAgain(w) PROVE ClosedInv'
  <2>1. closing[w[1]] = "open" /\ UNCHANGED <<gen, events, interest, closing>>
        /\ wpc' = [wpc EXCEPT ![w] = "lookup"]
    BY <1>2 DEF TryAgain, NoRetry, GotoW, epollVars, sockVars
  <2> QED
    BY <1>0, <1>00, <1>1, <2>1
<1>3. ASSUME NEW w \in Waiters, Lookup(w) PROVE ClosedInv'
  <2>1. wpc[w] = "lookup" /\ UNCHANGED <<gen, events, interest, closing>>
        /\ wpc' \in {[wpc EXCEPT ![w] = "add"], [wpc EXCEPT ![w] = "resize"]}
    BY <1>3 DEF Lookup, GotoW, epollVars, sockVars
  <2> QED
    BY <1>0, <1>00, <1>1, <2>1
<1>4. ASSUME NEW w \in Waiters, Resume(w) PROVE ClosedInv'
  <2>1. UNCHANGED <<gen, events, interest, closing>> /\ wpc' = [wpc EXCEPT ![w] = "run"]
    BY <1>4 DEF Resume, GotoW
  <2> QED
    BY <1>0, <1>00, <1>1, <2>1
<1>5. ASSUME NEW w \in Waiters, Resize(w) PROVE ClosedInv'
  <2>d. ResizedBy(w)
    BY <1>5, ResizeFacts
  <2>1. \A fd \in Fds : closing[fd] # "open" => interest[fd] = {} /\ events[<<fd, gen'[fd]>>] = {}
    BY <1>0, <2>d DEF ResizedBy, ClosedInv, Current
  <2>2. \A fd \in Fds, ev \in Ev : wpc[<<fd, ev>>] \in {"run", "wait"} =>
          wpc'[<<fd, ev>>] \in {"run", "wait"}
    BY <1>00, <2>d DEF ResizedBy
  <2>3. UNCHANGED <<events, interest, closing>>
    BY <2>d DEF ResizedBy, epollVars, sockVars
  <2> QED
    BY <1>0, <2>1, <2>2, <2>3 DEF ClosedInv, Current
<1>6. ASSUME NEW w \in Waiters, AddEvent(w) PROVE ClosedInv'
  <2>d. AddedBy(w)
    BY <1>6, AddFacts
  <2>1. \A fd \in Fds : closing[fd] # "open" =>
          interest'[fd] = interest[fd] /\ events'[<<fd, gen[fd]>>] = events[<<fd, gen[fd]>>]
    BY <1>0, <2>d DEF AddedBy
  <2>2. \A fd \in Fds, ev \in Ev : wpc[<<fd, ev>>] \in {"run", "wait"} =>
          wpc'[<<fd, ev>>] \in {"run", "wait"}
    BY <1>00, <2>d DEF AddedBy
  <2>3. UNCHANGED <<gen, closing>>
    BY <2>d DEF AddedBy, sockVars
  <2> QED
    BY <1>0, <2>1, <2>2, <2>3 DEF ClosedInv, Current
<1>7. ASSUME NEW fd \in Fds, NEW evs, Drops(fd, evs), UNCHANGED closing,
             \A f \in Fds, ev \in Ev : wpc[<<f, ev>>] \in {"run", "wait"} =>
               wpc'[<<f, ev>>] \in {"run", "wait"}
      PROVE  ClosedInv'
  <2>d. Dropped(fd, evs)
    BY <1>7, DropsFacts
  <2>1. \A f \in Fds : closing[f] # "open" =>
          interest'[f] = interest[f] /\ events'[<<f, gen[f]>>] = events[<<f, gen[f]>>]
    BY <1>0, <2>d DEF Dropped
  <2>2. UNCHANGED gen
    BY <2>d DEF Dropped
  <2> QED
    BY <1>0, <1>7, <2>1, <2>2 DEF ClosedInv, Current
<1>8. ASSUME NEW w \in Waiters, DelEvent(w) PROVE ClosedInv'
  <2>1. Drops(w[1], {w[2]}) /\ wpc' = [wpc EXCEPT ![w] = "run"] /\ UNCHANGED closing /\ w[1] \in Fds
    BY <1>8, WithdrawSteps, WaitersFact
  <2> QED
    BY <1>0, <1>00, <1>7, <2>1
<1>9. ASSUME NEW fd \in Fds, NEW ev \in Ev, CancelEvent(fd, ev) PROVE ClosedInv'
    BY <1>7, <1>9, WithdrawSteps DEF Wakes
<1>10. ASSUME NEW fd \in Fds, CancelAll(fd) PROVE ClosedInv'
  <2>1. CancelAllBody(fd) /\ UNCHANGED <<m_size, gen, wobj, ready, opened, wpc, closing>>
    BY <1>10 DEF CancelAll, sockVars
  <2> QED
    BY <2>1, CancelAllSteps, <1>1, <1>7 DEF epollVars
<1>11. ASSUME NEW fd \in Fds, CloseCancels(fd) PROVE ClosedInv'
  <2>1. /\ CancelAllBody(fd) /\ UNCHANGED <<m_size, gen, wobj, ready, opened, wpc>>
        /\ closing[fd] = "open" /\ closing' = [closing EXCEPT ![fd] = "closing"]
        /\ \A ev \in Ev : wpc[<<fd, ev>>] \notin {"lookup", "resize", "add"}
    BY <1>11 DEF CloseCancels, NoRetry, Registering
  <2>2. \A ev \in Ev : wpc[<<fd, ev>>] \in {"run", "wait"}
    BY <1>0, <1>00, <2>1 DEF WaiterSteps
  <2>3. /\ interest'[fd] = {} /\ events'[<<fd, gen[fd]>>] = {}
        /\ \A f \in Fds : f # fd => interest'[f] = interest[f]
                                      /\ events'[<<f, gen[f]>>] = events[<<f, gen[f]>>]
    <3>1. CASE events[Current(fd)] = {} /\ UNCHANGED <<epollVars, events, scheduled>>
      <4>1. interest[fd] = {}
        BY <2>1, <3>1 DEF IInv, KernelAgrees
      <4> QED
        BY <3>1, <4>1 DEF epollVars, Current
    <3>2. CASE Drops(fd, events[Current(fd)])
      <4>1. Dropped(fd, events[Current(fd)])
        BY <3>2, DropsFacts
      <4> QED
        BY <1>0, <4>1 DEF Dropped, Current
    <3> QED
        BY <2>1, <3>1, <3>2, CancelAllSteps
  <2> QED
    BY <1>0, <2>1, <2>2, <2>3 DEF ClosedInv, Current
<1>12. ASSUME NEW fd \in Fds, CloseSystem(fd) PROVE ClosedInv'
    BY <1>0, <1>12 DEF CloseSystem, ClosedInv, Current
<1>13. ASSUME NEW fd \in Fds, Open(fd) PROVE ClosedInv'
    BY <1>0, <1>1, <1>13 DEF Open
<1>14. ASSUME NEW fd \in Fds, NEW r \in Ev \cup {"ERR"}, BecomeReady(fd, r) PROVE ClosedInv'
    BY <1>1, <1>14 DEF BecomeReady
<1>15. ASSUME NEW p \in Pollers, NEW fd \in Fds, EpollWait(p, fd) PROVE ClosedInv'
    BY <1>1, <1>15 DEF EpollWait
<1>16. ASSUME NEW p \in Pollers, HandleEvent(p) PROVE ClosedInv'
  <2>1. UNCHANGED <<closing, gen, wpc>>
    BY <1>16, HandleSteps DEF sockVars
  <2> QED
    BY <1>16, <1>1, <1>7, <2>1, HandleSteps DEF epollVars
<1>17. CASE UNCHANGED vars
    BY <1>1, <1>17 DEF vars, epollVars, sockVars
<1> QED
    BY <1>2, <1>3, <1>4, <1>5, <1>6, <1>8, <1>9, <1>10, <1>11, <1>12, <1>13, <1>14, <1>15,
       <1>16, <1>17
    DEF Next, WaiterStep, Poll, Environment

\* A suspended waiter stays registered or scheduled, never both or neither.
LEMMA NextAccounted == IInv /\ TableFits /\ [Next]_vars => WaiterAccounted'
<1> SUFFICES ASSUME IInv, TableFits, [Next]_vars PROVE WaiterAccounted'
    OBVIOUS
<1>0. WaiterAccounted /\ wpc \in [Waiters -> WaiterSteps] /\ scheduled \in [Waiters -> 0 .. 2]
      /\ wobj \in [Waiters -> 0 .. MaxGen] /\ gen \in [Fds -> 0 .. MaxGen]
    BY DEF IInv, TypeInv
<1>00. \A w \in Waiters : w[1] \in Fds /\ w[2] \in Ev /\ w = <<w[1], w[2]>>
    BY WaitersFact
<1>1. CASE UNCHANGED <<events, wpc, wobj, scheduled>>
    BY <1>0, <1>1 DEF WaiterAccounted
<1>2. ASSUME NEW w \in Waiters, TryAgain(w) PROVE WaiterAccounted'
    BY <1>0, <1>2 DEF TryAgain, GotoW, WaiterAccounted
<1>3. ASSUME NEW w \in Waiters, Lookup(w) PROVE WaiterAccounted'
    BY <1>0, <1>3 DEF Lookup, GotoW, WaiterAccounted
<1>4. ASSUME NEW w \in Waiters, Resize(w) PROVE WaiterAccounted'
  <2>d. ResizedBy(w)
    BY <1>4, ResizeFacts
  <2>1. wpc[w] = "resize" /\ wpc'[w] = "add" /\ UNCHANGED <<events, scheduled>>
    BY <2>d DEF ResizedBy
  <2>2. \A v \in Waiters : v # w => wpc'[v] = wpc[v] /\ wobj'[v] = wobj[v]
    BY <2>d DEF ResizedBy
  <2> QED
    BY <1>0, <2>1, <2>2 DEF WaiterAccounted
<1>5. ASSUME NEW w \in Waiters, AddEvent(w) PROVE WaiterAccounted'
  <2>d. AddedBy(w)
    BY <1>5, AddFacts
  <2>1. UNCHANGED <<gen, wobj, scheduled>> /\ wobj[w] = gen[w[1]] /\ wpc[w] = "add"
    BY <2>d DEF AddedBy
  <2>2. \A v \in Waiters : v # w =>
          /\ wpc'[v] = wpc[v]
          /\ v[2] \in events'[<<v[1], wobj[v]>>] <=> v[2] \in events[<<v[1], wobj[v]>>]
    <3> SUFFICES ASSUME NEW v \in Waiters, v # w
                 PROVE  /\ wpc'[v] = wpc[v]
                        /\ v[2] \in events'[<<v[1], wobj[v]>>] <=> v[2] \in events[<<v[1], wobj[v]>>]
        OBVIOUS
    <3>1. ~(v[1] = w[1] /\ v[2] = w[2])
        BY <1>00
    <3>2. CASE v[1] = w[1] /\ wobj[v] = gen[w[1]]
        BY <2>d, <3>1, <3>2 DEF AddedBy
    <3>3. CASE ~(v[1] = w[1] /\ wobj[v] = gen[w[1]])
        BY <1>0, <1>00, <2>d, <3>3 DEF AddedBy
    <3> QED
        BY <3>2, <3>3
  <2>3. wpc'[w] = "wait" /\ w[2] \in events'[<<w[1], wobj[w]>>]
    BY <2>d DEF AddedBy
  <2> QED
    BY <1>0, <2>1, <2>2, <2>3 DEF WaiterAccounted
<1>6. ASSUME NEW w \in Waiters, Resume(w) PROVE WaiterAccounted'
    BY <1>0, <1>6 DEF Resume, GotoW, WaiterAccounted
<1>7. ASSUME NEW fd \in Fds, NEW evs, Drops(fd, evs)
      PROVE  /\ UNCHANGED <<gen, wobj>>
             /\ \A v \in Waiters : v[1] = fd /\ v[2] \in evs =>
                  /\ wpc[v] = "wait" /\ scheduled[v] = 0
                  /\ v[2] \notin events'[<<v[1], wobj[v]>>]
             /\ \A v \in Waiters : ~(v[1] = fd /\ v[2] \in evs) =>
                  (v[2] \in events'[<<v[1], wobj[v]>>] <=> v[2] \in events[<<v[1], wobj[v]>>])
  <2>d. Dropped(fd, evs)
    BY <1>7, DropsFacts
  <2>1. ASSUME NEW v \in Waiters, v[1] = fd, v[2] \in evs
        PROVE  /\ wpc[v] = "wait" /\ scheduled[v] = 0
               /\ v[2] \notin events'[<<v[1], wobj[v]>>]
    <3>1. v[2] \in events[<<fd, gen[fd]>>]
        BY <1>7, <2>1 DEF Drops, Current
    <3>2. wpc[v] = "wait"
        BY <1>0, <1>00, <2>1, <3>1 DEF IInv, RegisteredInv
    <3>3. wobj[v] = gen[fd]
        BY <2>1, <3>2 DEF IInv, NewestInv
    <3>4. scheduled[v] = 0
        BY <1>0, <2>1, <3>1, <3>2, <3>3 DEF WaiterAccounted
    <3> QED
        BY <2>1, <2>d, <3>2, <3>3, <3>4 DEF Dropped
  <2>2. ASSUME NEW v \in Waiters, ~(v[1] = fd /\ v[2] \in evs)
        PROVE  v[2] \in events'[<<v[1], wobj[v]>>] <=> v[2] \in events[<<v[1], wobj[v]>>]
    <3>1. CASE v[1] = fd /\ wobj[v] = gen[fd]
        BY <2>2, <2>d, <3>1 DEF Dropped
    <3>2. CASE ~(v[1] = fd /\ wobj[v] = gen[fd])
        BY <1>0, <1>00, <2>d, <3>2 DEF Dropped
    <3> QED
        BY <3>1, <3>2
  <2>3. UNCHANGED <<gen, wobj>>
    BY <2>d DEF Dropped
  <2> QED
    BY <2>1, <2>2, <2>3
<1>8. ASSUME NEW fd \in Fds, NEW evs, Drops(fd, evs), Wakes(fd, evs) PROVE WaiterAccounted'
    BY <1>0, <1>7, <1>8 DEF Wakes, WaiterAccounted
<1>9. ASSUME NEW w \in Waiters, DelEvent(w) PROVE WaiterAccounted'
  <2>1. Drops(w[1], {w[2]}) /\ wpc' = [wpc EXCEPT ![w] = "run"] /\ UNCHANGED scheduled
    BY <1>9, WithdrawSteps
  <2>2. \A v \in Waiters : v[1] = w[1] /\ v[2] \in {w[2]} <=> v = w
    BY <1>00
  <2> QED
    BY <1>0, <1>00, <1>7, <2>1, <2>2 DEF WaiterAccounted
<1>10. ASSUME NEW fd \in Fds, NEW ev \in Ev, CancelEvent(fd, ev) PROVE WaiterAccounted'
    BY <1>8, <1>10, WithdrawSteps
<1>11. ASSUME NEW fd \in Fds, CancelAll(fd) \/ CloseCancels(fd) PROVE WaiterAccounted'
  <2>1. CancelAllBody(fd) /\ UNCHANGED <<m_size, gen, wobj, ready, opened, wpc>>
    BY <1>11 DEF CancelAll, CloseCancels, sockVars
  <2> QED
    BY <2>1, CancelAllSteps, <1>1, <1>8
<1>12. ASSUME NEW p \in Pollers, HandleEvent(p) PROVE WaiterAccounted'
    BY <1>12, <1>1, <1>8, HandleSteps
<1>13. ASSUME NEW fd \in Fds, CloseSystem(fd) \/ Open(fd)
                                \/ \E r \in Ev \cup {"ERR"} : BecomeReady(fd, r)
       PROVE  WaiterAccounted'
    BY <1>1, <1>13 DEF CloseSystem, Open, BecomeReady
<1>14. ASSUME NEW p \in Pollers, NEW fd \in Fds, EpollWait(p, fd) PROVE WaiterAccounted'
    BY <1>1, <1>14 DEF EpollWait
<1>15. CASE UNCHANGED vars
    BY <1>1, <1>15 DEF vars
<1> QED
    BY <1>2, <1>3, <1>4, <1>5, <1>6, <1>9, <1>10, <1>11, <1>12, <1>13, <1>14, <1>15
    DEF Next, WaiterStep, Poll, Environment

-----------------------------------------------------------------------------
(* Edges.  What NoLostEdge says of the waiters is said of the events here:   *)
(* a registered event of an open descriptor that is ready for it is covered, *)
(* by a report that is due or by one that a poller holds.                    *)

Due(fd, ev) ==
    /\ ev \in events[<<fd, gen[fd]>>] /\ closing[fd] = "open"
    /\ ready[fd] \cap {ev, "ERR"} # {}

Holds(p, fd, ev) ==
    /\ got[p] # None /\ got[p][1] = <<fd, gen[fd]>>
    /\ ev \in RealEvents(got[p][2])

EdgeInv ==
    \A fd \in Fds, ev \in Ev :
      Due(fd, ev) => armed[fd] \/ \E p \in Pollers : Holds(p, fd, ev)

\* A waiter waits for an event of the newest FdContext.
LEMMA EdgeSound == IInv /\ EdgeInv => NoLostEdge
<1> SUFFICES ASSUME IInv, EdgeInv, NEW w \in Waiters,
                    wpc[w] = "wait", w[2] \in events[<<w[1], wobj[w]>>],
                    closing[w[1]] = "open", ready[w[1]] \cap {w[2], "ERR"} # {}
             PROVE  \/ armed[w[1]]
                    \/ \E p \in Pollers : /\ got[p] # None /\ got[p][1] = <<w[1], wobj[w]>>
                                          /\ w[2] \in RealEvents(got[p][2])
    BY DEF NoLostEdge
<1>1. wobj[w] = gen[w[1]] /\ w[1] \in Fds /\ w[2] \in Ev
    BY WaitersFact DEF IInv, NewestInv
<1>2. Due(w[1], w[2])
    BY <1>1 DEF Due
<1> QED
    BY <1>1, <1>2 DEF EdgeInv, Holds

\* The report that epoll_wait returns covers every registered event that the
\* descriptor is ready for.
LEMMA ReportCovers ==
    ASSUME IInv, NEW p \in Pollers, NEW fd \in Fds, EpollWait(p, fd), NEW ev \in Ev, Due(fd, ev)
    PROVE  Holds(p, fd, ev)'
<1>1. interest[fd] = events[Current(fd)] /\ interest[fd] # {} /\ ev \in interest[fd]
    BY EventsOpen DEF Due, Current
<1>2. owner[fd] = gen[fd] /\ gen[fd] \in 0 .. MaxGen /\ ready[fd] \in Mask
      /\ interest[fd] \in SUBSET Ev /\ got \in [Pollers -> {None} \cup (Objs \X Mask)]
    BY <1>1 DEF IInv, NewestInv, TypeInv
<1>3. got'[p] = <<<<fd, gen[fd]>>, Reportable(fd)>> /\ UNCHANGED gen
    BY <1>2 DEF EpollWait
<1>4. Reportable(fd) \in Mask /\ <<fd, gen[fd]>> \in Objs
    BY <1>1, <1>2, ObjsFact DEF Reportable, Mask
<1>5. got'[p] # None
    BY <1>3, <1>4, IOManagerConstants DEF Mask
<1>6. ev \in RealEvents(Reportable(fd))
    BY <1>1 DEF Due, Reportable, RealEvents
<1> QED
    BY <1>3, <1>5, <1>6 DEF Holds

\* No step uncovers an event.
LEMMA NextEdge == IInv /\ EdgeInv /\ TableFits /\ [Next]_vars => EdgeInv'
<1> SUFFICES ASSUME IInv, EdgeInv, TableFits, [Next]_vars PROVE EdgeInv'
    OBVIOUS
<1>0. gen \in [Fds -> 0 .. MaxGen] /\ ready \in [Fds -> Mask] /\ armed \in [Fds -> BOOLEAN]
      /\ closing \in [Fds -> {"open", "closing", "closed"}]
      /\ got \in [Pollers -> {None} \cup (Objs \X Mask)]
    BY DEF IInv, TypeInv
<1>1. ASSUME NEW fd \in Fds, NEW ev \in Ev, armed'[fd] = armed[fd], Due(fd, ev),
             \A p \in Pollers : Holds(p, fd, ev) => Holds(p, fd, ev)'
      PROVE  armed'[fd] \/ \E p \in Pollers : Holds(p, fd, ev)'
    BY <1>1 DEF EdgeInv
<1>2. CASE UNCHANGED <<events, gen, closing, ready, armed, got>>
    BY <1>2 DEF EdgeInv, Due, Holds
<1>3. ASSUME NEW w \in Waiters, TryAgain(w) \/ Lookup(w) PROVE EdgeInv'
    BY <1>2, <1>3 DEF TryAgain, Lookup, epollVars, sockVars
<1>4. ASSUME NEW w \in Waiters, Resize(w) PROVE EdgeInv'
  <2>d. ResizedBy(w)
    BY <1>4, ResizeFacts
  <2> SUFFICES ASSUME NEW fd \in Fds, NEW ev \in Ev, Due(fd, ev)'
               PROVE  armed'[fd] \/ \E p \in Pollers : Holds(p, fd, ev)'
    BY DEF EdgeInv
  <2>1. UNCHANGED <<events, closing, ready, armed, got>>
    BY <2>d DEF ResizedBy, epollVars, sockVars
  <2>2. m_size > fd
    BY <2>1, <2>d DEF ResizedBy, Due
  <2>3. gen'[fd] = gen[fd]
    BY <2>2, <2>d DEF ResizedBy
  <2> QED
    BY <1>1, <2>1, <2>3 DEF Due, Holds
<1>5. ASSUME NEW w \in Waiters, AddEvent(w) PROVE EdgeInv'
  <2>d. AddedBy(w)
    BY <1>5, AddFacts
  <2> SUFFICES ASSUME NEW fd \in Fds, NEW ev \in Ev, Due(fd, ev)', fd # w[1]
               PROVE  armed'[fd] \/ \E p \in Pollers : Holds(p, fd, ev)'
    BY <2>d DEF EdgeInv, AddedBy
  <2>1. UNCHANGED <<gen, closing, ready, got>>
    BY <2>d DEF AddedBy, sockVars
  <2>2. events'[<<fd, gen[fd]>>] = events[<<fd, gen[fd]>>] /\ armed'[fd] = armed[fd]
    BY <1>0, <2>d DEF AddedBy
  <2> QED
    BY <1>1, <2>1, <2>2 DEF Due, Holds
<1>6. ASSUME NEW w \in Waiters, Resume(w) PROVE EdgeInv'
  <2>1. UNCHANGED <<events, gen, closing, armed, got>>
    BY <1>6 DEF Resume
  <2>2. \A fd \in Fds : ready'[fd] \subseteq ready[fd]
    BY <1>0, <1>6 DEF Resume
  <2> QED
    BY <2>1, <2>2 DEF EdgeInv, Due, Holds
<1>7. ASSUME NEW fd \in Fds, NEW evs, Drops(fd, evs),
             \A f \in Fds : closing'[f] = "open" => closing[f] = "open",
             \A p \in Pollers : got'[p] = got[p] \/ (got[p] # None /\ got[p][1][1] = fd)
      PROVE  EdgeInv'
  <2>d. Dropped(fd, evs)
    BY <1>7, DropsFacts
  <2> SUFFICES ASSUME NEW f \in Fds, NEW ev \in Ev, Due(f, ev)'
               PROVE  armed'[f] \/ \E p \in Pollers : Holds(p, f, ev)'
    BY DEF EdgeInv
  <2>1. UNCHANGED <<gen, ready>>
    BY <2>d DEF Dropped
  <2>2. CASE f = fd
    <3>1. interest'[fd] # {}
        BY <2>1, <2>2, <2>d DEF Dropped, Due, Current
    <3> QED
        BY <2>2, <2>d, <3>1 DEF Dropped
  <2>3. CASE f # fd
    <3>1. events'[<<f, gen[f]>>] = events[<<f, gen[f]>>] /\ armed'[f] = armed[f]
        BY <1>0, <2>3, <2>d DEF Dropped
    <3>2. Due(f, ev)
        BY <1>7, <2>1, <3>1 DEF Due
    <3>3. \A p \in Pollers : Holds(p, f, ev) => Holds(p, f, ev)'
      <4> SUFFICES ASSUME NEW p \in Pollers, Holds(p, f, ev) PROVE Holds(p, f, ev)'
        OBVIOUS
      <4>1. got[p][1][1] = f
        BY DEF Holds
      <4>2. got'[p] = got[p]
        BY <1>7, <2>3, <4>1
      <4> QED
        BY <2>1, <4>2 DEF Holds
    <3> QED
        BY <1>1, <3>1, <3>2, <3>3
  <2> QED
    BY <2>2, <2>3
<1>8. ASSUME NEW w \in Waiters, DelEvent(w) PROVE EdgeInv'
  <2>1. Drops(w[1], {w[2]}) /\ UNCHANGED <<closing, got>> /\ w[1] \in Fds
    BY <1>8, WithdrawSteps, WaitersFact
  <2> QED
    BY <1>7, <2>1
<1>9. ASSUME NEW fd \in Fds, NEW ev \in Ev, CancelEvent(fd, ev) PROVE EdgeInv'
    BY <1>7, <1>9, WithdrawSteps
<1>10. ASSUME NEW fd \in Fds, CancelAll(fd) \/ CloseCancels(fd) PROVE EdgeInv'
  <2>1. CancelAllBody(fd) /\ UNCHANGED <<m_size, gen, wobj, ready, opened, wpc, got>>
    BY <1>10 DEF CancelAll, CloseCancels, sockVars
  <2>2. \A f \in Fds : closing'[f] = "open" => closing[f] = "open"
    BY <1>0, <1>10 DEF CancelAll, CloseCancels, sockVars
  <2>3. CASE UNCHANGED <<epollVars, events, scheduled>>
    BY <2>1, <2>2, <2>3 DEF epollVars, EdgeInv, Due, Holds
  <2>4. CASE Drops(fd, events[Current(fd)])
    BY <1>7, <2>1, <2>2, <2>4
  <2> QED
    BY <2>1, <2>3, <2>4, CancelAllSteps
<1>11. ASSUME NEW fd \in Fds, CloseSystem(fd) PROVE EdgeInv'
  <2>1. UNCHANGED <<events, gen, got>> /\ closing'[fd] = "closed"
        /\ \A f \in Fds : f # fd => closing'[f] = closing[f] /\ ready'[f] = ready[f]
                                      /\ armed'[f] = armed[f]
    BY <1>0, <1>11 DEF CloseSystem
  <2> QED
    BY <2>1 DEF EdgeInv, Due, Holds
<1>12. ASSUME NEW fd \in Fds, Open(fd) PROVE EdgeInv'
  <2>1. UNCHANGED <<events, gen, got, ready, armed>> /\ events[<<fd, gen[fd]>>] = {}
        /\ \A f \in Fds : f # fd => closing'[f] = closing[f]
    BY <1>0, <1>12 DEF Open, IInv, ClosedInv, Current
  <2> QED
    BY <2>1 DEF EdgeInv, Due, Holds
<1>13. ASSUME NEW fd \in Fds, NEW r \in Ev \cup {"ERR"}, BecomeReady(fd, r) PROVE EdgeInv'
  <2> SUFFICES ASSUME NEW f \in Fds, NEW ev \in Ev, Due(f, ev)', ~armed'[f]
               PROVE  \E p \in Pollers : Holds(p, f, ev)'
    BY DEF EdgeInv
  <2>1. UNCHANGED <<events, gen, got, closing>>
    BY <1>13 DEF BecomeReady
  <2>2. ~armed[f]
    BY <1>0, <1>13 DEF BecomeReady
  <2>3. Due(f, ev)
    <3>1. CASE f # fd
        BY <1>0, <1>13, <2>1, <3>1 DEF BecomeReady, Due
    <3>2. CASE f = fd
      <4>1. interest[f] = events[Current(f)] /\ ev \in interest[f]
        BY <2>1, EventsOpen DEF Due, Current
      <4>2. r \notin {ev, "ERR"}
        BY <1>0, <1>13, <3>2, <4>1 DEF BecomeReady
      <4>3. ready'[f] = ready[f] \cup {r}
        BY <1>0, <1>13, <3>2 DEF BecomeReady
      <4> QED
        BY <2>1, <4>2, <4>3 DEF Due
    <3> QED
        BY <3>1, <3>2
  <2>4. PICK p \in Pollers : Holds(p, f, ev)
    BY <2>2, <2>3 DEF EdgeInv
  <2> QED
    BY <2>1, <2>4 DEF Holds
<1>14. ASSUME NEW p \in Pollers, NEW fd \in Fds, EpollWait(p, fd) PROVE EdgeInv'
  <2> SUFFICES ASSUME NEW f \in Fds, NEW ev \in Ev, Due(f, ev)'
               PROVE  armed'[f] \/ \E q \in Pollers : Holds(q, f, ev)'
    BY DEF EdgeInv
  <2>1. Due(f, ev) /\ UNCHANGED gen
    BY <1>14 DEF EpollWait, Due
  <2>2. CASE f = fd
    BY <1>14, <2>1, <2>2, ReportCovers
  <2>3. CASE f # fd
    <3>1. armed'[f] = armed[f] /\ got[p] = None /\ \A q \in Pollers : q # p => got'[q] = got[q]
        BY <1>0, <1>14, <2>3 DEF EpollWait
    <3>2. \A q \in Pollers : Holds(q, f, ev) => Holds(q, f, ev)'
        BY <2>1, <3>1 DEF Holds
    <3> QED
        BY <1>1, <2>1, <3>1, <3>2
  <2> QED
    BY <2>2, <2>3
<1>15. ASSUME NEW p \in Pollers, HandleEvent(p) PROVE EdgeInv'
  <2> DEFINE fd == got[p][1][1]  evs == RealEvents(got[p][2])
  <2>1. got[p] # None /\ fd \in Fds /\ UNCHANGED <<gen, closing, ready>>
        /\ got' \in {got, [got EXCEPT ![p] = None]} /\ got[p][1] = Current(fd)
    BY <1>15, HandleSteps DEF sockVars, HandleEvent
  <2>2. \A q \in Pollers : q # p => got'[q] = got[q]
    BY <1>0, <2>1
  <2>3. CASE UNCHANGED <<epollVars, events>> /\ got' = got
    BY <1>2, <2>1, <2>3 DEF epollVars
  <2>4. CASE UNCHANGED <<epollVars, events>> /\ events[Current(fd)] \cap evs = {}
    <3> SUFFICES ASSUME NEW f \in Fds, NEW ev \in Ev, Due(f, ev)'
                 PROVE  armed'[f] \/ \E q \in Pollers : Holds(q, f, ev)'
        BY DEF EdgeInv
    <3>1. Due(f, ev) /\ armed'[f] = armed[f]
        BY <2>1, <2>4 DEF Due, epollVars
    <3>2. ~Holds(p, f, ev)
        BY <2>4, <3>1 DEF Holds, Due, Current
    <3>3. \A q \in Pollers : Holds(q, f, ev) => Holds(q, f, ev)'
        BY <2>1, <2>2, <3>2 DEF Holds
    <3> QED
        BY <1>1, <3>1, <3>3
  <2>5. CASE Drops(fd, evs)
    BY <1>7, <2>1, <2>2, <2>5
  <2> QED
    BY <1>15, <2>3, <2>4, <2>5, HandleSteps
<1>16. CASE UNCHANGED vars
    BY <1>2, <1>16 DEF vars, epollVars, sockVars
<1> QED
    BY <1>3, <1>4, <1>5, <1>6, <1>8, <1>9, <1>10, <1>11, <1>12, <1>13, <1>14, <1>15, <1>16
    DEF Next, WaiterStep, Poll, Environment

-----------------------------------------------------------------------------
(* The theorems. *)

\* The invariant is inductive.
LEMMA Inductive == IInv /\ EdgeInv /\ TableFits /\ NoRetry /\ [Next]_vars => IInv' /\ EdgeInv'
    BY NextType, NextTable, NextNewest, NextRegistered, NextClosed, NextKernel, NextAccounted,
       NextEdge DEF IInv

\* It holds at first.
LEMMA InitEdge == Init => IInv /\ EdgeInv
<1> SUFFICES ASSUME Init PROVE EdgeInv
    BY InitInv
<1> QED
    BY ObjsFact, IOManagerConstants DEF Init, EdgeInv, Due

\* It holds always.
LEMMA Invariant == ASSUME TableFits, NoRetry PROVE Spec => [](IInv /\ EdgeInv)
<1>1. IInv /\ EdgeInv /\ [Next]_vars => (IInv /\ EdgeInv)'
    BY Inductive
<1>2. Init => IInv /\ EdgeInv
    BY InitEdge
<1> QED
    BY <1>1, <1>2, PTL DEF Spec

\* KernelAgrees: while every resize leaves room for every descriptor and no
\* waiter retries during close(), the kernel's interest list and the table's
\* FdContexts agree after every step, so each epoll_ctl of addEvent, delEvent,
\* cancelEvent, cancelAll and idle() is the ADD, MOD or DEL that the kernel
\* expects.
THEOREM KernelCorrect == ASSUME TableFits, NoRetry PROVE Spec => []KernelAgrees
<1>1. IInv /\ EdgeInv => KernelAgrees
    BY DEF IInv
<1> QED
    BY <1>1, Invariant, PTL

\* WaiterAccounted: under the same conditions a fiber suspended in addEvent is
\* registered or in the scheduler's queue, exactly one of the two, whatever
\* reports, timeouts, cancellations and closes race for its event.
THEOREM WaitersCorrect == ASSUME TableFits, NoRetry PROVE Spec => []WaiterAccounted
<1>1. IInv /\ EdgeInv => WaiterAccounted
    BY DEF IInv
<1> QED
    BY <1>1, Invariant, PTL

\* ClosedFdQuiet: under the same conditions close() leaves no event behind: an
\* FdContext of a closed descriptor, an old one too, has no event registered.
THEOREM ClosedCorrect == ASSUME TableFits, NoRetry PROVE Spec => []ClosedFdQuiet
<1>1. IInv /\ EdgeInv => ClosedFdQuiet
  <2> SUFFICES ASSUME IInv, NEW x \in Registered PROVE closing[x[1][1]] # "closed"
    BY DEF ClosedFdQuiet
  <2> DEFINE fd == x[1][1]  g == x[1][2]
  <2>1. fd \in Fds /\ g \in 0 .. MaxGen /\ x[1] = <<fd, g>> /\ x[2] \in Ev /\ x[2] \in events[<<fd, g>>]
    BY DEF Registered, Objs
  <2>2. g = gen[fd]
    BY <2>1 DEF IInv, RegisteredInv
  <2>3. events[Current(fd)] # {}
    BY <2>1, <2>2 DEF Current
  <2> QED
    BY <2>1, <2>3, EventsOpen
<1> QED
    BY <1>1, Invariant, PTL

\* NoLostEdge: under the same conditions the edge-triggered reports suffice: a
\* registered waiter whose descriptor is ready has a report due to it, in the
\* kernel or in the hands of a poller.
THEOREM EdgesCorrect == ASSUME TableFits, NoRetry PROVE Spec => []NoLostEdge
<1>1. IInv /\ EdgeInv => NoLostEdge
    BY EdgeSound
<1> QED
    BY <1>1, Invariant, PTL

=============================================================================
