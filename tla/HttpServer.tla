------------------------------ MODULE HttpServer ------------------------------
(***************************************************************************)
(* TcpServer (tcp_server.cpp) with HttpServer::handleClient, the Sockets   *)
(* they use and the descriptor table FdManager (fd_manager.cpp).  Accept   *)
(* loops, client fibers, the task that closes the listeners and the        *)
(* threads that call bind, start and stop take turns; the kernel gives a   *)
(* free descriptor number to every new socket.                             *)
(***************************************************************************)
EXTENDS Integers, FiniteSets, Functions

CONSTANTS
    Fds,        \* descriptor numbers, all below the size of FdManager::m_datas
    NoFd,       \* -1
    Listeners,  \* Socket objects that listen
    Acceptors,  \* fibers that run startAccept
    Clients,    \* fibers that run handleClient
    Threads,    \* threads of the IOManager that is both worker and accept worker
    Keepalive,  \* the argument of the constructor
    None,       \* the null Socket::ptr
    MaxBind, MaxStart, MaxStop  \* bounds: calls of bind, start and stop

ASSUME ServerAssumption ==
    /\ Threads \in Nat \ {0} /\ Keepalive \in BOOLEAN
    /\ Fds \subseteq Nat /\ NoFd \notin Fds /\ None \notin Listeners \cup Acceptors
    /\ MaxBind \in Nat /\ MaxStart \in Nat /\ MaxStop \in Nat

VARIABLES
    calls,      \* calls of bind, start and stop so far
    m_isStop, m_isKeepalive,
    m_socks,    \* the bound listeners
    m_sock,     \* the descriptor of a listener
    acc,        \* accept loops: pc, listener, the descriptor passed to accept, and whether
                \* the loop waits since after the last cancelAll for that descriptor
    close,      \* close tasks of stop(): pc, listener, listeners left and tasks queued
    client,     \* client fibers: pc and the descriptor of the client's Socket
    open,       \* kernel: what a descriptor number is: "free", "listen" or "conn"
    nonblock,   \* kernel: the numbers with O_NONBLOCK
    ctxs,       \* the numbers that have an FdCtx
    reused,     \* open numbers whose FdCtx is that of an earlier socket
    hasty       \* bind() or start() was called while loops ran or a close task was to end

callVars == <<calls, m_isKeepalive, hasty>>
serverVars == <<m_isStop, m_socks, m_sock>>
fdVars == <<open, nonblock, ctxs, reused>>
vars == <<callVars, serverVars, acc, close, client, fdVars>>

NoLoop == [pc |-> "none", sock |-> None, fd |-> NoFd, late |-> FALSE]

\* The constructor, and FdManager's with an empty table.
Init ==
    /\ calls = [bind |-> 0, start |-> 0, stop |-> 0]
    /\ m_isStop = TRUE /\ m_isKeepalive = Keepalive
    /\ m_socks = {} /\ m_sock = [l \in Listeners |-> NoFd]
    /\ acc = [a \in Acceptors |-> NoLoop]
    /\ close = [pc |-> "idle", sock |-> None, rest |-> {}, queued |-> 0]
    /\ client = [c \in Clients |-> [pc |-> "none", fd |-> NoFd]]
    /\ open = [f \in Fds |-> "free"] /\ nonblock = {} /\ ctxs = {} /\ reused = {}
    /\ hasty = FALSE

-----------------------------------------------------------------------------
(* Descriptors. *)

\* Mutant: init() leaves the flags of the socket alone.
GetNoInit(f) ==
    /\ ctxs' = ctxs \cup {f} /\ nonblock' = nonblock
    /\ reused' = IF f \in ctxs THEN reused \cup {f} ELSE reused
\* FdManager::get(f, true): a number without an FdCtx gets one, whose init() makes
\* the socket non-blocking; a number that has one keeps it, and init() is not run.
Get(f) ==
    /\ ctxs' = ctxs \cup {f}
    /\ nonblock' = IF f \in ctxs THEN nonblock ELSE nonblock \cup {f}
    /\ reused' = IF f \in ctxs THEN reused \cup {f} ELSE reused

\* socket() and accept() as hooked: the kernel gives the lowest free number.
NewFd(f, what) ==
    /\ open[f] = "free" /\ \A g \in Fds : g < f => open[g] # "free"
    /\ open' = [open EXCEPT ![f] = what]
    /\ Get(f)
\* A member of S: objects and fibers are all alike, so any will do.
Fresh(S) == CHOOSE o \in S : TRUE

\* close(), hooked, of the numbers in S: FdManager::del() leaves the FdCtx.
CloseFds(S) ==
    /\ open' = [f \in Fds |-> IF f \in S THEN "free" ELSE open[f]]
    /\ nonblock' = nonblock \ S /\ reused' = reused \ S /\ UNCHANGED ctxs

\* Mutant: nobody is woken.
CancelNone(f) == f \in Fds \cup {NoFd} /\ UNCHANGED acc
\* cancelAll(f) on the IOManager of the accept loops: who waits on f tries again.
CancelAll(f) ==
    acc' = [a \in Acceptors |-> IF acc[a].pc = "wait" /\ acc[a].fd = f
                                THEN [acc[a] EXCEPT !.pc = "accept", !.late = FALSE]
                                ELSE acc[a]]

\* The listeners that accept loops other than a refer to.
HeldBut(a) == {acc[b].sock : b \in Acceptors \ {a}}
\* ~Socket of the listeners in S.
Destroy(S) ==
    /\ CloseFds({m_sock[l] : l \in S} \cap Fds)
    /\ m_sock' = [l \in Listeners |-> IF l \in S THEN NoFd ELSE m_sock[l]]

-----------------------------------------------------------------------------
(* The threads of the IOManager.  A fiber leaves its thread where the hook waits for an  *)
(* event; it keeps it while it runs, and in a system call on a socket that blocks.       *)

At(a, pc) == acc[a].pc = pc
OnThread(c) ==
    \/ client[c].pc = "handle"
    \/ client[c].pc \in {"recv", "send"} /\ client[c].fd \notin nonblock
\* A thread for the fibers that are ready to run.
FreeThread ==
    Cardinality({a \in Acceptors : At(a, "blocked")})
        + Cardinality({c \in Clients : OnThread(c)}) < Threads

-----------------------------------------------------------------------------
(* The threads that use the server. *)

Called(op) == calls' = [calls EXCEPT ![op] = @ + 1]
Hasty == hasty \/ close.pc # "idle" \/ close.queued > 0 \/ \E a \in Acceptors : acc[a] # NoLoop

\* Not while the close task goes through m_socks: a data race on the vector.
MayBind == close.pc = "idle"
\* bind: socket, bind and listen succeed.
Bind(f) ==
    /\ calls.bind < MaxBind /\ Called("bind") /\ MayBind
    /\ NewFd(f, "listen")
    /\ LET free == Listeners \ (m_socks \cup HeldBut(None))
           l == Fresh(free)
       IN  /\ free # {}
           /\ m_sock' = [m_sock EXCEPT ![l] = f] /\ m_socks' = m_socks \cup {l}
    /\ hasty' = Hasty
    /\ UNCHANGED <<m_isStop, m_isKeepalive, acc, close, client>>
\* bind: the address is taken: every listener is dropped.
BindFails ==
    /\ calls.bind < MaxBind /\ Called("bind") /\ MayBind
    /\ Destroy(m_socks \ HeldBut(None)) /\ m_socks' = {}
    /\ hasty' = Hasty
    /\ UNCHANGED <<m_isStop, m_isKeepalive, acc, close, client>>

\* A loop for every bound listener.
NewLoops ==
    LET free == {a \in Acceptors : acc[a] = NoLoop}
        g == Fresh(Injection(m_socks, free))
    IN  /\ Injection(m_socks, free) # {}
        /\ acc' = [a \in Acceptors |->
                      IF \E l \in m_socks : g[l] = a
                      THEN [NoLoop EXCEPT !.pc = "test", !.sock = CHOOSE l \in m_socks : g[l] = a]
                      ELSE acc[a]]
\* Mutant: a running server is started again.
StartAgain ==
    /\ calls.start < MaxStart /\ Called("start")
    /\ m_isStop' = FALSE /\ NewLoops /\ hasty' = (hasty \/ (m_isStop /\ Hasty))
    /\ UNCHANGED <<m_socks, m_sock, m_isKeepalive, close, client, fdVars>>
\* start: a running server stays as it is.
Start ==
    /\ calls.start < MaxStart /\ Called("start")
    /\ IF ~m_isStop THEN UNCHANGED <<m_isStop, acc, hasty>>
       ELSE m_isStop' = FALSE /\ NewLoops /\ hasty' = Hasty
    /\ UNCHANGED <<m_socks, m_sock, m_isKeepalive, close, client, fdVars>>

Stop ==
    /\ calls.stop < MaxStop /\ Called("stop")
    /\ m_isStop' = TRUE /\ close' = [close EXCEPT !.queued = @ + 1]
    /\ UNCHANGED <<m_isKeepalive, hasty, m_socks, m_sock, acc, client, fdVars>>

-----------------------------------------------------------------------------
(* The task that stop() schedules. *)

CloseBegins ==
    /\ close.pc = "idle" /\ close.queued > 0
    /\ close' = [close EXCEPT !.pc = "next", !.rest = m_socks, !.queued = @ - 1]
    /\ UNCHANGED <<callVars, serverVars, acc, client, fdVars>>
\* Socket::cancelAll, then the cancelAll in the hooked close(), then the system call.
CloseCancels ==
    /\ close.pc = "next"
    /\ \E l \in close.rest :
          /\ CancelAll(m_sock[l])
          /\ close' = [close EXCEPT !.pc = "hook", !.sock = l, !.rest = @ \ {l}]
    /\ UNCHANGED <<callVars, serverVars, client, fdVars>>
CloseHook ==
    /\ close.pc = "hook" /\ close' = [close EXCEPT !.pc = "close"]
    /\ CancelAll(m_sock[close.sock])
    /\ UNCHANGED <<callVars, serverVars, client, fdVars>>
CloseListener ==
    /\ close.pc = "close" /\ close' = [close EXCEPT !.pc = "next", !.sock = None]
    /\ CloseFds({m_sock[close.sock]} \cap Fds)
    /\ m_sock' = [m_sock EXCEPT ![close.sock] = NoFd]
    /\ UNCHANGED <<callVars, m_isStop, m_socks, acc, client>>
CloseEnds ==
    /\ close.pc = "next" /\ close.rest = {}
    /\ close' = [close EXCEPT !.pc = "idle"]
    /\ Destroy(m_socks \ HeldBut(None)) /\ m_socks' = {}
    /\ UNCHANGED <<callVars, m_isStop, acc, client>>
CloseTask ==
    FreeThread /\ (CloseBegins \/ CloseCancels \/ CloseHook \/ CloseListener \/ CloseEnds)

-----------------------------------------------------------------------------
(* startAccept. *)

Goto(a, pc) == acc' = [acc EXCEPT ![a].pc = pc]
Again(a) == acc' = [acc EXCEPT ![a] = [NoLoop EXCEPT !.pc = "test", !.sock = acc[a].sock]]

\* while(!m_isStop): m_sock is read and passed to accept() as a number.
Test(a) ==
    /\ At(a, "test") /\ ~m_isStop
    /\ acc' = [acc EXCEPT ![a].pc = "accept", ![a].fd = m_sock[acc[a].sock]]
    /\ UNCHANGED <<callVars, serverVars, close, client, fdVars>>
\* The loop ends and drops its listener.
LoopEnds(a) ==
    /\ At(a, "test") /\ m_isStop
    /\ acc' = [acc EXCEPT ![a] = NoLoop]
    /\ Destroy({acc[a].sock} \ (m_socks \cup HeldBut(a)))
    /\ UNCHANGED <<callVars, m_isStop, m_socks, close, client>>

\* A connection is accepted and its Socket handed to a client fiber.
Accepts(a, f) ==
    /\ \/ At(a, "accept") /\ FreeThread /\ acc[a].fd \in Fds /\ open[acc[a].fd] = "listen"
       \/ At(a, "blocked")
    /\ NewFd(f, "conn")
    /\ LET free == {c \in Clients : client[c].pc = "none"}
       IN  free # {} /\ client' = [client EXCEPT ![Fresh(free)] = [pc |-> "start", fd |-> f]]
    /\ Again(a)
    /\ UNCHANGED <<callVars, serverVars, close>>
\* EBADF, EINVAL, EMFILE and other errors are logged.
AcceptFails(a) ==
    /\ At(a, "accept") /\ Again(a)
    /\ UNCHANGED <<callVars, serverVars, close, client, fdVars>>
\* No connection: EAGAIN, or the system call blocks when O_NONBLOCK is not set.
NoConnection(a) ==
    /\ At(a, "accept") /\ acc[a].fd \in Fds /\ open[acc[a].fd] = "listen"
    /\ Goto(a, IF acc[a].fd \in nonblock THEN "event" ELSE "blocked")
    /\ UNCHANGED <<callVars, serverVars, close, client, fdVars>>
\* addEvent: an error if the number is not open, an assertion if a READ event is
\* registered for it already.
WaitsOn(f) == {a \in Acceptors : At(a, "wait") /\ acc[a].fd = f}
AddEvent(a) ==
    /\ At(a, "event")
    /\ LET fd == acc[a].fd
           late == \/ fd # m_sock[acc[a].sock]
                   \/ close.pc = "close" /\ close.sock = acc[a].sock
       IN  IF open[fd] = "free" THEN Again(a)
           ELSE acc' = [acc EXCEPT ![a].pc = IF WaitsOn(fd) # {} THEN "abort" ELSE "wait",
                                   ![a].late = late]
    /\ UNCHANGED <<callVars, serverVars, close, client, fdVars>>
\* The event is triggered: the call is tried again.
Ready(a) ==
    /\ At(a, "wait") /\ FreeThread /\ open[acc[a].fd] # "free"
    /\ acc' = [acc EXCEPT ![a].pc = "accept", ![a].late = FALSE]
    /\ UNCHANGED <<callVars, serverVars, close, client, fdVars>>
LoopStep(a) ==
    FreeThread /\ (Test(a) \/ LoopEnds(a) \/ AcceptFails(a) \/ NoConnection(a) \/ AddEvent(a))

-----------------------------------------------------------------------------
(* handleClient. *)

ClientGoto(c, pc) ==
    /\ client' = [client EXCEPT ![c].pc = pc]
    /\ UNCHANGED <<callVars, serverVars, acc, close>>
\* Mutant: m_sock keeps the number.
ClientCloseKeeps(c, pc) ==
    /\ CloseFds({client[c].fd} \cap Fds) /\ client' = [client EXCEPT ![c].pc = pc]
    /\ UNCHANGED <<callVars, serverVars, acc, close>>
\* Socket::close: the second call finds m_sock = -1.
ClientClose(c, pc) ==
    /\ CloseFds({client[c].fd} \cap Fds)
    /\ client' = [client EXCEPT ![c] = [pc |-> pc, fd |-> NoFd]]
    /\ UNCHANGED <<callVars, serverVars, acc, close>>

ClientBegins(c) ==
    /\ client[c].pc = "start" /\ ClientGoto(c, "recv") /\ UNCHANGED fdVars
RecvRequest(c) ==
    /\ client[c].pc = "recv" /\ ClientGoto(c, "handle") /\ UNCHANGED fdVars
\* recvRequest returns nullptr: the loop breaks.
RecvFails(c) == client[c].pc = "recv" /\ ClientGoto(c, "close") /\ UNCHANGED fdVars
\* The servlet runs; its response is sent.  The do loop asks only whether the server
\* keeps connections alive.
Handle(c) == client[c].pc = "handle" /\ ClientGoto(c, "send") /\ UNCHANGED fdVars
SendResponse(c) ==
    /\ client[c].pc = "send"
    /\ ClientGoto(c, IF m_isKeepalive THEN "recv" ELSE "close") /\ UNCHANGED fdVars
SessionClose(c) == client[c].pc = "close" /\ ClientClose(c, "destroy")
\* ~SocketStream and ~Socket close once more.
SessionDestroyed(c) == client[c].pc = "destroy" /\ ClientClose(c, "none")
ClientStep(c) ==
    /\ FreeThread \/ OnThread(c)
    /\ \/ ClientBegins(c) \/ RecvRequest(c) \/ RecvFails(c) \/ Handle(c) \/ SendResponse(c)
       \/ SessionClose(c) \/ SessionDestroyed(c)

-----------------------------------------------------------------------------
\* A failed assertion ends the process.
Running == \A a \in Acceptors : acc[a].pc # "abort"
Next ==
    /\ Running
    /\ \/ \E f \in Fds : Bind(f) \/ \E a \in Acceptors : Accepts(a, f)
       \/ BindFails \/ Start \/ Stop \/ CloseTask
       \/ \E a \in Acceptors : LoopStep(a) \/ Ready(a)
       \/ \E c \in Clients : ClientStep(c)

\* What is scheduled runs if a thread is free for it again and again: the scheduler takes
\* from the front of its list and appends to its end.  Nothing is assumed of clients, nor
\* of the servlets.
Fairness == SF_vars(Running /\ CloseTask) /\ \A a \in Acceptors : SF_vars(Running /\ LoopStep(a))
Spec == Init /\ [][Next]_vars /\ Fairness

-----------------------------------------------------------------------------
TypeOK ==
    /\ m_isStop \in BOOLEAN /\ m_isKeepalive \in BOOLEAN /\ hasty \in BOOLEAN
    /\ m_socks \subseteq Listeners /\ m_sock \in [Listeners -> Fds \cup {NoFd}]
    /\ acc \in [Acceptors -> [pc : {"none", "test", "accept", "event", "wait", "blocked",
                                    "abort"},
                              sock : Listeners \cup {None}, fd : Fds \cup {NoFd},
                              late : BOOLEAN]]
    /\ close.rest \subseteq m_socks
    /\ open \in [Fds -> {"free", "listen", "conn"}]
    /\ nonblock \subseteq Fds /\ ctxs \subseteq Fds /\ reused \subseteq ctxs

\* Every open descriptor has exactly one Socket that will close it, and no Socket
\* refers to a number that was closed or given to somebody else: Socket::close is
\* called three times for one client (by handleClient, ~SocketStream and ~Socket),
\* while other threads are given the numbers it frees.
OneSocketPerFd ==
    LET holders(f) == {l \in Listeners : m_sock[l] = f} \cup {c \in Clients : client[c].fd = f}
    IN  \A f \in Fds :
            /\ Cardinality(holders(f)) = IF open[f] = "free" THEN 0 ELSE 1
            /\ open[f] = "listen" => holders(f) \subseteq Listeners

\* A socket that would block the thread instead of the fiber is one whose number
\* was used before (FdManager::del() forgets nothing, so FdCtx::init() is not run
\* again): the first socket of a number is always non-blocking.
BlockingOnlyIfReused ==
    \A f \in Fds : open[f] # "free" /\ f \notin nonblock => f \in reused

\* Unless bind() or start() is called while loops run or before the close task of stop()
\* has ended, no accept loop runs on a closed listener of a server that is not
\* stopped (it would spin), and no two loops wait on one listener (addEvent would
\* assert).
LoopsOnlyOnOpen ==
    ~hasty => \A a \in Acceptors :
        /\ acc[a].pc # "abort"
        /\ acc[a].sock # None /\ ~m_isStop => m_sock[acc[a].sock] # NoFd

\* After stop() every accept loop ends, unless the server is started again, the
\* loop registered its event between the last cancelAll of close() and the system
\* call, or accept() blocks because the listener's number was reused; and unless in the
\* end servlets that do not return and sockets with reused numbers on which the system
\* call blocks hold all the threads, so that none is left for the close task and the loops.
StopEndsAccepting ==
    \/ \A a \in Acceptors :
           m_isStop /\ acc[a].pc # "none" ~>
               \/ acc[a].pc = "none" \/ ~m_isStop \/ At(a, "blocked") \/ hasty
               \/ At(a, "wait") /\ acc[a].late
    \/ <>[]~FreeThread
=============================================================================
