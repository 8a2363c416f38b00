--------------------------- MODULE HttpServerProofs ---------------------------
(***************************************************************************)
(* Theorems about HttpServer, for any sets of descriptors, listeners,      *)
(* accept loops and clients and any number of calls of bind, start and     *)
(* stop: every open descriptor has one Socket, the first socket of a       *)
(* number is non-blocking, and loops run on open listeners only.           *)
(***************************************************************************)
EXTENDS HttpServer, FiniteSetTheorems, TLAPS

-----------------------------------------------------------------------------
(* The inductive invariant. *)

LoopSteps == {"none", "test", "accept", "event", "wait", "blocked", "abort"}
CloseSteps == {"idle", "next", "hook", "close"}
ClientSteps == {"none", "start", "recv", "handle", "send", "close", "destroy"}
AnyFd == Fds \cup {NoFd}

TypeInv ==
    /\ m_isStop \in BOOLEAN /\ m_isKeepalive \in BOOLEAN /\ hasty \in BOOLEAN
    /\ m_socks \in SUBSET Listeners /\ m_sock \in [Listeners -> AnyFd]
    /\ acc \in [Acceptors -> [pc : LoopSteps, sock : Listeners \cup {None}, fd : AnyFd,
                              late : BOOLEAN]]
    /\ close \in [pc : CloseSteps, sock : Listeners \cup {None}, rest : SUBSET Listeners,
                  queued : Int]
    /\ client \in [Clients -> [pc : ClientSteps, fd : AnyFd]]
    /\ open \in [Fds -> {"free", "listen", "conn"}]
    /\ nonblock \in SUBSET Fds /\ ctxs \in SUBSET Fds /\ reused \in SUBSET Fds

\* What the place in startAccept, in the close task and in handleClient says of
\* the locals.
LocalInv ==
    /\ \A a \in Acceptors :
         /\ acc[a].pc # "none" => acc[a].sock \in Listeners
         /\ acc[a].pc = "none" => acc[a] = NoLoop
         /\ acc[a].pc \in {"event", "wait"} => acc[a].fd \in Fds
    /\ close.pc \in {"hook", "close"} => close.sock \in Listeners
    /\ \A c \in Clients : client[c].pc = "none" => client[c].fd = NoFd

\* A listener that has a descriptor is bound, or a loop has it.
HeldInv ==
    \A l \in Listeners :
      m_sock[l] # NoFd => l \in m_socks \/ \E a \in Acceptors : acc[a].sock = l

\* OneSocketPerFd, socket by socket.
SocketInv ==
    /\ \A l \in Listeners : m_sock[l] \in Fds => open[m_sock[l]] = "listen"
    /\ \A c \in Clients : client[c].fd \in Fds => open[client[c].fd] = "conn"
    /\ \A f \in Fds : open[f] = "listen" => \E l \in Listeners : m_sock[l] = f
    /\ \A f \in Fds : open[f] = "conn" => \E c \in Clients : client[c].fd = f
    /\ \A l, k \in Listeners : m_sock[l] = m_sock[k] /\ m_sock[l] \in Fds => l = k
    /\ \A c, d \in Clients : client[c].fd = client[d].fd /\ client[c].fd \in Fds => c = d

\* The bound listeners have descriptors, unless the close task goes through them.
BoundInv == close.pc = "idle" => \A l \in m_socks : m_sock[l] \in Fds

\* Why loops run on open listeners while nobody was hasty: a running server is not
\* being closed, no two loops have one listener or one descriptor, and while the
\* server runs a loop's descriptor is that of its listener.
LoopInv ==
    ~hasty =>
      /\ ~m_isStop => /\ close.pc = "idle" /\ close.queued = 0
                      /\ \A a \in Acceptors : acc[a].sock \in Listeners =>
                           /\ m_sock[acc[a].sock] \in Fds
                           /\ acc[a].fd \in {NoFd, m_sock[acc[a].sock]}
      /\ close.queued >= 0
      /\ \A a, b \in Acceptors : a # b =>
           /\ acc[a].sock \in Listeners => acc[a].sock # acc[b].sock
           /\ acc[a].fd \in Fds => acc[a].fd # acc[b].fd
      /\ \A a \in Acceptors : acc[a].pc # "abort"

IInv ==
    /\ TypeInv /\ LocalInv /\ HeldInv /\ SocketInv /\ BoundInv /\ LoopInv
    /\ BlockingOnlyIfReused

\* The initial state satisfies the invariant.
LEMMA InitInv == Init => IInv
<1> SUFFICES ASSUME Init PROVE IInv
    OBVIOUS
<1>1. TypeInv
  <2>1. NoLoop \in [pc : LoopSteps, sock : Listeners \cup {None}, fd : AnyFd, late : BOOLEAN]
    BY DEF NoLoop, LoopSteps, AnyFd
  <2>2. acc \in [Acceptors -> [pc : LoopSteps, sock : Listeners \cup {None}, fd : AnyFd,
                               late : BOOLEAN]]
    BY <2>1 DEF Init
  <2>3. close \in [pc : CloseSteps, sock : Listeners \cup {None}, rest : SUBSET Listeners,
                   queued : Int]
    BY DEF Init, CloseSteps
  <2>4. client \in [Clients -> [pc : ClientSteps, fd : AnyFd]]
    BY DEF Init, ClientSteps, AnyFd
  <2>5. m_isStop \in BOOLEAN /\ m_isKeepalive \in BOOLEAN /\ hasty \in BOOLEAN
    BY ServerAssumption, Zenon DEF Init
  <2> QED
    BY <2>2, <2>3, <2>4, <2>5 DEF Init, TypeInv, AnyFd
<1>2. LocalInv /\ HeldInv /\ SocketInv /\ BoundInv
    BY ServerAssumption DEF Init, LocalInv, HeldInv, SocketInv, BoundInv, NoLoop
<1>3. LoopInv /\ BlockingOnlyIfReused
    BY ServerAssumption DEF Init, LoopInv, BlockingOnlyIfReused, NoLoop
<1> QED
    BY <1>1, <1>2, <1>3 DEF IInv

-----------------------------------------------------------------------------
(* The steps, as the invariant sees them. *)

LoopRecord == [pc : LoopSteps, sock : Listeners \cup {None}, fd : AnyFd, late : BOOLEAN]

\* Loop a goes to step p, with listener s and descriptor f.
Turns(a, p, s, f) ==
    /\ acc' \in [Acceptors -> LoopRecord]
    /\ acc'[a].pc = p /\ acc'[a].sock = s /\ acc'[a].fd = f
    /\ \A b \in Acceptors : b # a => acc'[b] = acc[b]

\* Some loops that wait are woken.
Wakes ==
    /\ acc' \in [Acceptors -> LoopRecord]
    /\ \A a \in Acceptors :
         \/ acc'[a] = acc[a]
         \/ /\ acc[a].pc = "wait" /\ acc'[a].pc = "accept"
            /\ acc'[a].sock = acc[a].sock /\ acc'[a].fd = acc[a].fd

\* The numbers of the listeners in S are closed.
Destroys(S) ==
    /\ m_sock' \in [Listeners -> AnyFd]
    /\ \A l \in Listeners : IF l \in S THEN m_sock'[l] = NoFd ELSE m_sock'[l] = m_sock[l]
    /\ open' \in [Fds -> {"free", "listen", "conn"}]
    /\ \A f \in Fds : IF \E l \in S : m_sock[l] = f THEN open'[f] = "free" ELSE open'[f] = open[f]
    /\ nonblock' \in SUBSET Fds /\ reused' \in SUBSET Fds /\ ctxs' = ctxs
    /\ \A f \in Fds : open'[f] # "free" => (f \in nonblock' <=> f \in nonblock)
                                           /\ (f \in reused' <=> f \in reused)

\* Number f becomes a socket.
Opens(f, what) ==
    /\ open[f] = "free" /\ open' \in [Fds -> {"free", "listen", "conn"}]
    /\ open'[f] = what /\ \A g \in Fds : g # f => open'[g] = open[g]
    /\ nonblock' \in SUBSET Fds /\ reused' \in SUBSET Fds /\ ctxs' \in SUBSET Fds
    /\ f \in nonblock' \/ f \in reused'
    /\ \A g \in Fds : g # f => (g \in nonblock' <=> g \in nonblock)
                               /\ (g \in reused' <=> g \in reused)

\* A client's socket, if it has one, is closed, and its fiber goes to step p.
Drops(c, p) ==
    /\ client' \in [Clients -> [pc : ClientSteps, fd : AnyFd]]
    /\ client'[c].pc = p /\ client'[c].fd = NoFd
    /\ \A d \in Clients : d # c => client'[d] = client[d]
    /\ open' \in [Fds -> {"free", "listen", "conn"}]
    /\ \A f \in Fds : open'[f] = IF client[c].fd = f THEN "free" ELSE open[f]
    /\ nonblock' \in SUBSET Fds /\ reused' \in SUBSET Fds /\ ctxs' = ctxs
    /\ \A f \in Fds : open'[f] # "free" => (f \in nonblock' <=> f \in nonblock)
                                           /\ (f \in reused' <=> f \in reused)

\* ~Socket of several listeners.
LEMMA DestroyFacts ==
    ASSUME TypeInv, NEW S \in SUBSET Listeners, Destroy(S) PROVE Destroys(S)
<1> DEFINE T == {m_sock[l] : l \in S} \cap Fds
<1>1. /\ open \in [Fds -> {"free", "listen", "conn"}] /\ m_sock \in [Listeners -> AnyFd]
      /\ nonblock \in SUBSET Fds /\ reused \in SUBSET Fds
    BY DEF TypeInv
<1>2. /\ open' = [f \in Fds |-> IF f \in T THEN "free" ELSE open[f]]
      /\ nonblock' = nonblock \ T /\ reused' = reused \ T /\ ctxs' = ctxs
      /\ m_sock' = [l \in Listeners |-> IF l \in S THEN NoFd ELSE m_sock[l]]
    BY DEF Destroy, CloseFds
<1>3. \A f \in Fds : f \in T <=> \E l \in S : m_sock[l] = f
    OBVIOUS
<1> HIDE DEF T
<1>4. m_sock' \in [Listeners -> AnyFd]
      /\ \A l \in Listeners : IF l \in S THEN m_sock'[l] = NoFd ELSE m_sock'[l] = m_sock[l]
    BY <1>1, <1>2 DEF AnyFd
<1>5. /\ open' \in [Fds -> {"free", "listen", "conn"}]
      /\ \A f \in Fds : IF \E l \in S : m_sock[l] = f THEN open'[f] = "free" ELSE open'[f] = open[f]
    BY <1>1, <1>2, <1>3
<1>6. /\ nonblock' \in SUBSET Fds /\ reused' \in SUBSET Fds
      /\ \A f \in Fds : open'[f] # "free" => (f \in nonblock' <=> f \in nonblock)
                                             /\ (f \in reused' <=> f \in reused)
    BY <1>1, <1>2
<1> QED
    BY <1>2, <1>4, <1>5, <1>6 DEF Destroys

\* socket() and accept().
LEMMA OpenFacts ==
    ASSUME TypeInv, NEW f \in Fds, NEW what \in {"listen", "conn"}, NewFd(f, what)
    PROVE  Opens(f, what)
<1>1. /\ open \in [Fds -> {"free", "listen", "conn"}]
      /\ nonblock \in SUBSET Fds /\ reused \in SUBSET Fds /\ ctxs \in SUBSET Fds
    BY DEF TypeInv
<1>2. /\ open[f] = "free" /\ open' = [open EXCEPT ![f] = what] /\ ctxs' = ctxs \cup {f}
      /\ nonblock' = IF f \in ctxs THEN nonblock ELSE nonblock \cup {f}
      /\ reused' = IF f \in ctxs THEN reused \cup {f} ELSE reused
    BY DEF NewFd, Get
<1>3. open' \in [Fds -> {"free", "listen", "conn"}]
      /\ open'[f] = what /\ \A g \in Fds : g # f => open'[g] = open[g]
    BY <1>1, <1>2
<1>4. CASE f \in ctxs
    BY <1>1, <1>2, <1>3, <1>4 DEF Opens
<1>5. CASE f \notin ctxs
    BY <1>1, <1>2, <1>3, <1>5 DEF Opens
<1> QED
    BY <1>4, <1>5

\* Socket::close of a client.
LEMMA DropFacts ==
    ASSUME TypeInv, NEW c \in Clients, NEW p \in ClientSteps, ClientClose(c, p)
    PROVE  Drops(c, p)
<1>1. /\ open \in [Fds -> {"free", "listen", "conn"}] /\ nonblock \in SUBSET Fds
      /\ reused \in SUBSET Fds /\ client \in [Clients -> [pc : ClientSteps, fd : AnyFd]]
    BY DEF TypeInv
<1> DEFINE T == {client[c].fd} \cap Fds
<1>2. /\ open' = [f \in Fds |-> IF f \in T THEN "free" ELSE open[f]]
      /\ nonblock' = nonblock \ T /\ reused' = reused \ T /\ ctxs' = ctxs
      /\ client' = [client EXCEPT ![c] = [pc |-> p, fd |-> NoFd]]
    BY DEF ClientClose, CloseFds
<1>3. \A f \in Fds : f \in T <=> client[c].fd = f
    OBVIOUS
<1> HIDE DEF T
<1>4. client' \in [Clients -> [pc : ClientSteps, fd : AnyFd]]
      /\ client'[c].pc = p /\ client'[c].fd = NoFd
      /\ \A d \in Clients : d # c => client'[d] = client[d]
    BY <1>1, <1>2 DEF AnyFd
<1>5. /\ open' \in [Fds -> {"free", "listen", "conn"}]
      /\ \A f \in Fds : open'[f] = IF client[c].fd = f THEN "free" ELSE open[f]
    BY <1>1, <1>2, <1>3
<1>6. /\ nonblock' \in SUBSET Fds /\ reused' \in SUBSET Fds
      /\ \A f \in Fds : open'[f] # "free" => (f \in nonblock' <=> f \in nonblock)
                                             /\ (f \in reused' <=> f \in reused)
    BY <1>1, <1>2
<1> QED
    BY <1>2, <1>4, <1>5, <1>6 DEF Drops

\* cancelAll() wakes.
LEMMA CancelFacts == ASSUME TypeInv, NEW f, CancelAll(f) PROVE Wakes
<1>1. acc \in [Acceptors -> LoopRecord]
    BY DEF TypeInv, LoopRecord
<1>2. acc' = [a \in Acceptors |-> IF acc[a].pc = "wait" /\ acc[a].fd = f
                                  THEN [acc[a] EXCEPT !.pc = "accept", !.late = FALSE]
                                  ELSE acc[a]]
    BY DEF CancelAll
<1>3. ASSUME NEW r \in LoopRecord
      PROVE  LET q == [r EXCEPT !.pc = "accept", !.late = FALSE]
             IN  q \in LoopRecord /\ q.pc = "accept" /\ q.sock = r.sock /\ q.fd = r.fd
    BY <1>3 DEF LoopRecord, LoopSteps
<1> QED
    BY <1>1, <1>2, <1>3 DEF Wakes

\* The steps of a loop.
LEMMA LoopFacts ==
    ASSUME TypeInv, LocalInv, NEW a \in Acceptors
    PROVE  /\ Test(a) => Turns(a, "accept", acc[a].sock, m_sock[acc[a].sock])
           /\ LoopEnds(a) => Turns(a, "none", None, NoFd) /\ acc'[a] = NoLoop
           /\ Again(a) => Turns(a, "test", acc[a].sock, NoFd)
           /\ NoConnection(a) =>
                Turns(a, "event", acc[a].sock, acc[a].fd) \/ Turns(a, "blocked", acc[a].sock, acc[a].fd)
           /\ Ready(a) => Turns(a, "accept", acc[a].sock, acc[a].fd)
           /\ AddEvent(a) =>
                \/ Turns(a, "test", acc[a].sock, NoFd)
                \/ Turns(a, "wait", acc[a].sock, acc[a].fd)
                \/ Turns(a, "abort", acc[a].sock, acc[a].fd) /\ WaitsOn(acc[a].fd) # {}
<1>1. acc \in [Acceptors -> LoopRecord] /\ m_sock \in [Listeners -> AnyFd]
      /\ acc[a] \in LoopRecord
    BY DEF TypeInv, LoopRecord
<1>2. ASSUME NEW r \in LoopRecord, acc' = [acc EXCEPT ![a] = r]
      PROVE  Turns(a, r.pc, r.sock, r.fd) /\ acc'[a] = r
    BY <1>1, <1>2 DEF Turns
<1>3. NoLoop \in LoopRecord /\ NoLoop.pc = "none" /\ NoLoop.sock = None /\ NoLoop.fd = NoFd
    BY DEF NoLoop, LoopRecord, LoopSteps, AnyFd
<1>4. ASSUME Test(a) PROVE Turns(a, "accept", acc[a].sock, m_sock[acc[a].sock])
  <2> DEFINE r == [acc[a] EXCEPT !.pc = "accept", !.fd = m_sock[acc[a].sock]]
  <2>1. acc' = [acc EXCEPT ![a] = r]
    BY <1>1, <1>4 DEF Test
  <2>2. acc[a].sock \in Listeners
    BY <1>4 DEF Test, At, LocalInv
  <2>3. r \in LoopRecord /\ r.pc = "accept" /\ r.sock = acc[a].sock /\ r.fd = m_sock[acc[a].sock]
    BY <1>1, <2>2 DEF LoopRecord, LoopSteps
  <2> HIDE DEF r
  <2>4. Turns(a, r.pc, r.sock, r.fd)
    BY <1>2, <2>1, <2>3
  <2> QED
    BY <2>3, <2>4
<1>5. ASSUME LoopEnds(a) PROVE Turns(a, "none", None, NoFd) /\ acc'[a] = NoLoop
  <2>1. Turns(a, NoLoop.pc, NoLoop.sock, NoLoop.fd) /\ acc'[a] = NoLoop
    BY <1>2, <1>3, <1>5 DEF LoopEnds
  <2> QED
    BY <1>3, <2>1
<1>6. ASSUME Again(a) PROVE Turns(a, "test", acc[a].sock, NoFd)
  <2> DEFINE r == [NoLoop EXCEPT !.pc = "test", !.sock = acc[a].sock]
  <2>1. r \in LoopRecord /\ r.pc = "test" /\ r.sock = acc[a].sock /\ r.fd = NoFd
    BY <1>1 DEF NoLoop, LoopRecord, LoopSteps, AnyFd
  <2>2. acc' = [acc EXCEPT ![a] = r]
    BY <1>6 DEF Again
  <2> HIDE DEF r
  <2>3. Turns(a, r.pc, r.sock, r.fd)
    BY <1>2, <2>1, <2>2
  <2> QED
    BY <2>1, <2>3
<1>7. ASSUME NEW p \in LoopSteps, acc' = [acc EXCEPT ![a].pc = p]
      PROVE  Turns(a, p, acc[a].sock, acc[a].fd)
  <2> DEFINE r == [acc[a] EXCEPT !.pc = p]
  <2>1. r \in LoopRecord /\ r.pc = p /\ r.sock = acc[a].sock /\ r.fd = acc[a].fd
    BY <1>1 DEF LoopRecord
  <2>2. acc' = [acc EXCEPT ![a] = r]
    BY <1>1, <1>7
  <2> HIDE DEF r
  <2>3. Turns(a, r.pc, r.sock, r.fd)
    BY <1>2, <2>1, <2>2
  <2> QED
    BY <2>1, <2>3
<1>8. ASSUME NEW p \in LoopSteps, NEW b \in BOOLEAN, acc' = [acc EXCEPT ![a].pc = p, ![a].late = b]
      PROVE  Turns(a, p, acc[a].sock, acc[a].fd)
  <2> DEFINE r == [acc[a] EXCEPT !.pc = p, !.late = b]
  <2>1. r \in LoopRecord /\ r.pc = p /\ r.sock = acc[a].sock /\ r.fd = acc[a].fd
    BY <1>1 DEF LoopRecord
  <2>2. acc' = [acc EXCEPT ![a] = r]
    BY <1>1, <1>8
  <2> HIDE DEF r
  <2>3. Turns(a, r.pc, r.sock, r.fd)
    BY <1>2, <2>1, <2>2
  <2> QED
    BY <2>1, <2>3
<1>9. {"event", "blocked", "accept", "wait", "abort"} \subseteq LoopSteps
    BY DEF LoopSteps
<1>10. ASSUME NoConnection(a)
       PROVE  Turns(a, "event", acc[a].sock, acc[a].fd) \/ Turns(a, "blocked", acc[a].sock, acc[a].fd)
    BY <1>7, <1>9, <1>10 DEF NoConnection, Goto
<1>11. ASSUME Ready(a) PROVE Turns(a, "accept", acc[a].sock, acc[a].fd)
    BY <1>8, <1>9, <1>11 DEF Ready
<1>12. ASSUME AddEvent(a)
       PROVE  \/ Turns(a, "test", acc[a].sock, NoFd)
              \/ Turns(a, "wait", acc[a].sock, acc[a].fd)
              \/ Turns(a, "abort", acc[a].sock, acc[a].fd) /\ WaitsOn(acc[a].fd) # {}
  <2> DEFINE late == \/ acc[a].fd # m_sock[acc[a].sock]
                     \/ close.pc = "close" /\ close.sock = acc[a].sock
  <2>1. late \in BOOLEAN
    OBVIOUS
  <2>2. \/ Again(a)
        \/ acc' = [acc EXCEPT ![a].pc = IF WaitsOn(acc[a].fd) # {} THEN "abort" ELSE "wait",
                              ![a].late = late]
    BY <1>12 DEF AddEvent
  <2> HIDE DEF late
  <2> QED
    BY <1>6, <1>8, <1>9, <2>1, <2>2
<1> QED
    BY <1>4, <1>5, <1>6, <1>10, <1>11, <1>12

\* Listener l, which nobody uses, is bound to number f.
Binds(f, l) ==
    /\ l \in Listeners /\ l \notin m_socks /\ \A a \in Acceptors : acc[a].sock # l
    /\ close.pc = "idle" /\ Opens(f, "listen")
    /\ m_sock' \in [Listeners -> AnyFd]
    /\ m_sock'[l] = f /\ \A k \in Listeners : k # l => m_sock'[k] = m_sock[k]
    /\ m_socks' = m_socks \cup {l} /\ hasty' = Hasty
    /\ UNCHANGED <<m_isStop, m_isKeepalive, acc, close, client>>

\* bind().
LEMMA BindFacts ==
    ASSUME TypeInv, NEW f \in Fds, Bind(f) PROVE \E l \in Listeners : Binds(f, l)
<1> DEFINE held == HeldBut(None)
           idle == Listeners \ (m_socks \cup held)
           l == Fresh(idle)
<1>1. /\ close.pc = "idle" /\ NewFd(f, "listen") /\ idle # {}
      /\ m_sock' = [m_sock EXCEPT ![l] = f] /\ m_socks' = m_socks \cup {l} /\ hasty' = Hasty
      /\ UNCHANGED <<m_isStop, m_isKeepalive, acc, close, client>>
    BY DEF Bind, MayBind
<1>2. \A a \in Acceptors : acc[a].sock \in held
    BY ServerAssumption DEF HeldBut
<1>3. l \in idle
    BY <1>1 DEF Fresh
<1> HIDE DEF l, held
<1>4. m_sock \in [Listeners -> AnyFd]
    BY DEF TypeInv
<1>5. Opens(f, "listen")
    BY <1>1, OpenFacts
<1>6. Binds(f, l)
    BY <1>1, <1>2, <1>3, <1>4, <1>5 DEF Binds, AnyFd
<1> QED
    BY <1>3, <1>6

\* Idle loops begin on bound listeners, no two on the same one.
Begins ==
    /\ acc' \in [Acceptors -> LoopRecord]
    /\ \A a \in Acceptors :
         \/ acc'[a] = acc[a]
         \/ /\ acc[a] = NoLoop /\ acc'[a].pc = "test"
            /\ acc'[a].sock \in m_socks /\ acc'[a].fd = NoFd
    /\ \A a, b \in Acceptors :
         acc'[a] # acc[a] /\ acc'[b] # acc[b] /\ acc'[a].sock = acc'[b].sock => a = b

\* start().
LEMMA BeginFacts == ASSUME TypeInv, NewLoops PROVE Begins
<1> DEFINE idle == {a \in Acceptors : acc[a] = NoLoop}
           inj == Injection(m_socks, idle)
           g == Fresh(inj)
           sock(a) == CHOOSE l \in m_socks : g[l] = a
           r(a) == [NoLoop EXCEPT !.pc = "test", !.sock = sock(a)]
<1>1. inj # {} /\ acc' = [a \in Acceptors |-> IF \E l \in m_socks : g[l] = a THEN r(a) ELSE acc[a]]
    BY DEF NewLoops
<1>2. g \in inj
    BY <1>1 DEF Fresh
<1>3. g \in [m_socks -> idle]
    BY <1>2 DEF Injection
<1> HIDE DEF g, inj
<1>4. acc \in [Acceptors -> LoopRecord] /\ m_socks \subseteq Listeners
    BY DEF TypeInv, LoopRecord
<1>5. ASSUME NEW a \in Acceptors, \E l \in m_socks : g[l] = a
      PROVE  sock(a) \in m_socks /\ g[sock(a)] = a /\ acc[a] = NoLoop
  <2>1. PICK l \in m_socks : g[l] = a
    BY <1>5
  <2>2. sock(a) \in m_socks /\ g[sock(a)] = a
    BY <2>1
  <2> QED
    BY <1>3, <2>1, <2>2
<1> HIDE DEF sock
<1>6. ASSUME NEW a \in Acceptors, sock(a) \in m_socks
      PROVE  r(a) \in LoopRecord /\ r(a).pc = "test" /\ r(a).sock = sock(a) /\ r(a).fd = NoFd
    BY <1>4, <1>6 DEF NoLoop, LoopRecord, LoopSteps, AnyFd
<1> HIDE DEF r
<1>7. acc' \in [Acceptors -> LoopRecord]
    BY <1>1, <1>4, <1>5, <1>6
<1>8. \A a \in Acceptors :
         \/ acc'[a] = acc[a]
         \/ /\ acc[a] = NoLoop /\ acc'[a].pc = "test"
            /\ acc'[a].sock \in m_socks /\ acc'[a].fd = NoFd
    BY <1>1, <1>5, <1>6
<1>9. \A a \in Acceptors : acc'[a] # acc[a] => acc'[a].sock \in m_socks /\ g[acc'[a].sock] = a
    BY <1>1, <1>5, <1>6
<1> QED
    BY <1>7, <1>8, <1>9 DEF Begins

CloseRecord == [pc : CloseSteps, sock : Listeners \cup {None}, rest : SUBSET Listeners,
                queued : Int]

\* The close task goes to step p, with n tasks left in the queue.
Closes(p, n) == close' \in CloseRecord /\ close'.pc = p /\ close'.queued = n

\* stop() and the close task.
LEMMA CloseFacts ==
    ASSUME TypeInv
    PROVE  /\ Stop => Closes(close.pc, close.queued + 1) /\ close'.sock = close.sock
           /\ CloseBegins => Closes("next", close.queued - 1)
           /\ CloseCancels => Closes("hook", close.queued) /\ close'.sock \in Listeners /\ Wakes
           /\ CloseHook => Closes("close", close.queued) /\ close'.sock = close.sock /\ Wakes
           /\ CloseListener => Closes("next", close.queued)
           /\ CloseEnds => Closes("idle", close.queued)
<1>1. close \in CloseRecord /\ close.queued \in Int /\ close.rest \subseteq Listeners
      /\ m_socks \subseteq Listeners
    BY DEF TypeInv, CloseRecord
<1>2. ASSUME Stop PROVE Closes(close.pc, close.queued + 1) /\ close'.sock = close.sock
    BY <1>1, <1>2 DEF Stop, Closes, CloseRecord
<1>3. ASSUME CloseBegins PROVE Closes("next", close.queued - 1)
  <2> DEFINE q == close.queued - 1
  <2>1. close' = [close EXCEPT !.pc = "next", !.rest = m_socks, !.queued = q]
    BY <1>3 DEF CloseBegins
  <2>2. q \in Int
    BY <1>1
  <2> HIDE DEF q
  <2>3. close' \in CloseRecord /\ close'.pc = "next" /\ close'.queued = q
    BY <1>1, <2>1, <2>2 DEF CloseRecord, CloseSteps
  <2> QED
    BY <2>3 DEF Closes, q
<1>4. ASSUME CloseCancels PROVE Closes("hook", close.queued) /\ close'.sock \in Listeners /\ Wakes
  <2>1. PICK l \in close.rest :
          /\ CancelAll(m_sock[l])
          /\ close' = [close EXCEPT !.pc = "hook", !.sock = l, !.rest = @ \ {l}]
    BY <1>4 DEF CloseCancels
  <2>2. Closes("hook", close.queued) /\ close'.sock \in Listeners
    BY <1>1, <2>1 DEF Closes, CloseRecord, CloseSteps
  <2> QED
    BY <2>1, <2>2, CancelFacts
<1>5. ASSUME CloseHook PROVE Closes("close", close.queued) /\ close'.sock = close.sock /\ Wakes
  <2>1. close' = [close EXCEPT !.pc = "close"] /\ CancelAll(m_sock[close.sock])
    BY <1>5 DEF CloseHook
  <2>2. Closes("close", close.queued) /\ close'.sock = close.sock
    BY <1>1, <2>1 DEF Closes, CloseRecord, CloseSteps
  <2> QED
    BY <2>1, <2>2, CancelFacts
<1>6. ASSUME CloseListener PROVE Closes("next", close.queued)
    BY <1>1, <1>6 DEF CloseListener, Closes, CloseRecord, CloseSteps
<1>7. ASSUME CloseEnds PROVE Closes("idle", close.queued)
    BY <1>1, <1>7 DEF CloseEnds, Closes, CloseRecord, CloseSteps
<1> QED
    BY <1>2, <1>3, <1>4, <1>5, <1>6, <1>7

\* The close task closes one listener as ~Socket does.
LEMMA ListenerFacts ==
    ASSUME TypeInv, LocalInv, CloseListener PROVE Destroys({close.sock}) /\ close.sock \in Listeners
<1>1. close.sock \in Listeners /\ m_sock \in [Listeners -> AnyFd]
    BY DEF CloseListener, LocalInv, TypeInv
<1>2. {m_sock[l] : l \in {close.sock}} = {m_sock[close.sock]}
    OBVIOUS
<1>3. m_sock' = [l \in Listeners |-> IF l \in {close.sock} THEN NoFd ELSE m_sock[l]]
    BY <1>1 DEF CloseListener
<1>4. Destroy({close.sock})
    BY <1>2, <1>3 DEF CloseListener, Destroy
<1> QED
    BY <1>1, <1>4, DestroyFacts

\* An accepted connection is handed to a fiber without one.
Hands(f, c) ==
    /\ client[c].pc = "none" /\ Opens(f, "conn")
    /\ client' \in [Clients -> [pc : ClientSteps, fd : AnyFd]]
    /\ client'[c].fd = f /\ client'[c].pc = "start"
    /\ \A d \in Clients : d # c => client'[d] = client[d]

\* accept() succeeds.
LEMMA AcceptFacts ==
    ASSUME TypeInv, NEW a \in Acceptors, NEW f \in Fds, Accepts(a, f)
    PROVE  Again(a) /\ \E c \in Clients : Hands(f, c)
<1> DEFINE idle == {c \in Clients : client[c].pc = "none"}
           c == Fresh(idle)
<1>1. /\ NewFd(f, "conn") /\ idle # {} /\ Again(a)
      /\ client' = [client EXCEPT ![c] = [pc |-> "start", fd |-> f]]
    BY DEF Accepts
<1>2. c \in idle
    BY <1>1 DEF Fresh
<1> HIDE DEF c
<1>3. client \in [Clients -> [pc : ClientSteps, fd : AnyFd]]
    BY DEF TypeInv
<1>4. /\ client' \in [Clients -> [pc : ClientSteps, fd : AnyFd]]
      /\ client'[c].fd = f /\ client'[c].pc = "start"
      /\ \A d \in Clients : d # c => client'[d] = client[d]
    BY <1>1, <1>2, <1>3 DEF ClientSteps, AnyFd
<1>5. Opens(f, "conn")
    BY <1>1, OpenFacts
<1> QED
    BY <1>1, <1>2, <1>4, <1>5 DEF Hands

\* A client fiber moves on with its socket.
Moves(c) ==
    /\ client' \in [Clients -> [pc : ClientSteps, fd : AnyFd]]
    /\ client[c].pc # "none" /\ client'[c].pc # "none" /\ client'[c].fd = client[c].fd
    /\ \A d \in Clients : d # c => client'[d] = client[d]
    /\ UNCHANGED <<callVars, serverVars, acc, close, fdVars>>

\* handleClient.
LEMMA ClientFacts ==
    ASSUME TypeInv, NEW c \in Clients, ClientStep(c)
    PROVE  \/ Moves(c)
           \/ /\ \E p \in ClientSteps : Drops(c, p)
              /\ UNCHANGED <<callVars, serverVars, acc, close>>
<1>1. client \in [Clients -> [pc : ClientSteps, fd : AnyFd]]
    BY DEF TypeInv
<1>2. ASSUME NEW p \in ClientSteps, p # "none", client[c].pc # "none", ClientGoto(c, p),
             UNCHANGED fdVars
      PROVE  Moves(c)
    BY <1>1, <1>2 DEF ClientGoto, Moves
<1>3. {"handle", "send", "close", "recv", "destroy", "none"} \subseteq ClientSteps
    BY DEF ClientSteps
<1>4. CASE ClientBegins(c) \/ RecvRequest(c) \/ RecvFails(c)
    BY <1>2, <1>3, <1>4 DEF ClientBegins, RecvRequest, RecvFails
<1>5. CASE Handle(c) \/ SendResponse(c)
    BY <1>2, <1>3, <1>5 DEF Handle, SendResponse
<1>6. ASSUME NEW p \in ClientSteps, ClientClose(c, p)
      PROVE  Drops(c, p) /\ UNCHANGED <<callVars, serverVars, acc, close>>
    BY <1>6, DropFacts DEF ClientClose
<1>7. CASE SessionClose(c) \/ SessionDestroyed(c)
    BY <1>3, <1>6, <1>7 DEF SessionClose, SessionDestroyed
<1> QED
    BY <1>4, <1>5, <1>7 DEF ClientStep

-----------------------------------------------------------------------------
(* Every step is one of these. *)

\* bind() fails.
BindStops ==
    /\ close.pc = "idle" /\ Destroys(m_socks \ HeldBut(None)) /\ m_socks' = {}
    /\ hasty' = Hasty /\ UNCHANGED <<m_isStop, m_isKeepalive, acc, close, client>>

\* start() of a server that is stopped.
Starts ==
    /\ m_isStop /\ m_isStop' = FALSE /\ Begins /\ hasty' = Hasty
    /\ UNCHANGED <<m_socks, m_sock, m_isKeepalive, close, client, fdVars>>

\* stop() and the first step of its task.
Stops ==
    /\ m_isStop' = TRUE /\ Closes(close.pc, close.queued + 1) /\ close'.sock = close.sock
    /\ UNCHANGED <<m_isKeepalive, hasty, m_socks, m_sock, acc, client, fdVars>>
TaskBegins ==
    /\ close.pc = "idle" /\ close.queued > 0 /\ Closes("next", close.queued - 1)
    /\ UNCHANGED <<m_isKeepalive, hasty, serverVars, acc, client, fdVars>>

\* The task cancels, closes and ends.
TaskCancels(p) ==
    /\ close.pc \in {"next", "hook"} /\ p \in {"hook", "close"} /\ Closes(p, close.queued)
    /\ close'.sock \in Listeners /\ Wakes
    /\ UNCHANGED <<m_isKeepalive, hasty, serverVars, client, fdVars>>
TaskCloses ==
    /\ close.pc = "close" /\ close.sock \in Listeners /\ Closes("next", close.queued)
    /\ Destroys({close.sock})
    /\ UNCHANGED <<m_isKeepalive, hasty, m_isStop, m_socks, acc, client>>
TaskEnds ==
    /\ close.pc = "next" /\ Closes("idle", close.queued)
    /\ Destroys(m_socks \ HeldBut(None)) /\ m_socks' = {}
    /\ UNCHANGED <<m_isKeepalive, hasty, m_isStop, acc, client>>

\* A loop ends, hands a connection to a client, or goes on.
Ends(a) ==
    /\ m_isStop /\ acc[a].sock \in Listeners
    /\ Turns(a, "none", None, NoFd) /\ acc'[a] = NoLoop
    /\ Destroys({acc[a].sock} \ (m_socks \cup HeldBut(a)))
    /\ UNCHANGED <<m_isKeepalive, hasty, m_isStop, m_socks, close, client>>
Serves(a, f, c) ==
    /\ acc[a].sock \in Listeners /\ Turns(a, "test", acc[a].sock, NoFd) /\ Hands(f, c)
    /\ UNCHANGED <<m_isKeepalive, hasty, serverVars, close>>
GoesOn(a, p, f) ==
    /\ acc[a].sock \in Listeners /\ Turns(a, p, acc[a].sock, f) /\ p # "none"
    /\ f \in {NoFd, acc[a].fd} \/ (~m_isStop /\ f = m_sock[acc[a].sock])
    /\ p \in {"event", "wait"} => f \in Fds
    /\ p = "abort" => f = acc[a].fd /\ f \in Fds /\ WaitsOn(f) # {} /\ acc[a].pc = "event"
    /\ UNCHANGED <<m_isKeepalive, hasty, serverVars, close, client, fdVars>>

\* A client closes its socket.
Leaves(c, p) ==
    Drops(c, p) /\ UNCHANGED <<m_isKeepalive, hasty, serverVars, acc, close>>

\* Nothing but the number of calls changes.
Rests == UNCHANGED <<m_isKeepalive, hasty, serverVars, acc, close, client, fdVars>>

\* What a step of the server is.
AnyStep ==
    \/ \E f \in Fds, l \in Listeners : Binds(f, l)
    \/ BindStops \/ Starts \/ Stops \/ TaskBegins \/ TaskCloses \/ TaskEnds
    \/ \E p \in CloseSteps : TaskCancels(p)
    \/ \E a \in Acceptors : Ends(a)
    \/ \E a \in Acceptors, f \in Fds, c \in Clients : Serves(a, f, c)
    \/ \E a \in Acceptors, p \in LoopSteps, f \in AnyFd : GoesOn(a, p, f)
    \/ \E c \in Clients : Moves(c)
    \/ \E c \in Clients, p \in ClientSteps : Leaves(c, p)
    \/ Rests

\* The steps of the close task.
LEMMA TaskSteps == ASSUME TypeInv, LocalInv, CloseTask PROVE AnyStep
<1>1. CASE CloseBegins
    BY <1>1, CloseFacts DEF CloseBegins, TaskBegins, AnyStep, callVars
<1>2. CASE CloseCancels
  <2>1. TaskCancels("hook")
    BY <1>2, CloseFacts DEF CloseCancels, TaskCancels, callVars
  <2> QED
    BY <2>1 DEF AnyStep, CloseSteps
<1>3. CASE CloseHook
  <2>1. close.sock \in Listeners
    BY <1>3 DEF CloseHook, LocalInv
  <2>2. TaskCancels("close")
    BY <1>3, <2>1, CloseFacts DEF CloseHook, TaskCancels, callVars
  <2> QED
    BY <2>2 DEF AnyStep, CloseSteps
<1>4. CASE CloseListener
  <2>1. TaskCloses
    BY <1>4, CloseFacts, ListenerFacts DEF CloseListener, TaskCloses, callVars
  <2> QED
    BY <2>1 DEF AnyStep
<1>5. CASE CloseEnds
  <2>1. m_socks \ HeldBut(None) \in SUBSET Listeners
    BY DEF TypeInv
  <2>2. Destroys(m_socks \ HeldBut(None))
    BY <1>5, <2>1, DestroyFacts DEF CloseEnds
  <2>3. TaskEnds
    BY <1>5, <2>2, CloseFacts DEF CloseEnds, TaskEnds, callVars
  <2> QED
    BY <2>3 DEF AnyStep
<1> QED
    BY <1>1, <1>2, <1>3, <1>4, <1>5 DEF CloseTask

\* The steps of an accept loop.
LEMMA LoopStepSteps ==
    ASSUME TypeInv, LocalInv, NEW a \in Acceptors, LoopStep(a) \/ Ready(a) PROVE AnyStep
<1>1. acc[a].fd \in AnyFd /\ m_sock \in [Listeners -> AnyFd] /\ NoFd \in AnyFd
  <2>1. acc[a] \in LoopRecord
    BY DEF TypeInv, LoopRecord
  <2> QED
    BY <2>1 DEF TypeInv, LoopRecord, AnyFd
<1>2. acc[a].sock \in Listeners
    BY DEF LoopStep, Ready, Test, LoopEnds, AcceptFails, NoConnection, AddEvent, At, LocalInv
<1>3. ASSUME NEW p \in LoopSteps, NEW f \in AnyFd, GoesOn(a, p, f) PROVE AnyStep
    BY <1>3 DEF AnyStep
<1>4. {"test", "accept", "event", "wait", "blocked", "abort"} \subseteq LoopSteps
    BY DEF LoopSteps
<1>5. CASE Test(a)
  <2>1. Turns(a, "accept", acc[a].sock, m_sock[acc[a].sock])
    BY <1>5, LoopFacts
  <2>2. GoesOn(a, "accept", m_sock[acc[a].sock])
    BY <1>2, <1>5, <2>1 DEF Test, GoesOn, callVars
  <2> QED
    BY <1>1, <1>2, <1>3, <1>4, <2>2
<1>6. CASE LoopEnds(a)
  <2>1. Turns(a, "none", None, NoFd) /\ acc'[a] = NoLoop
    BY <1>6, LoopFacts
  <2>2. {acc[a].sock} \ (m_socks \cup HeldBut(a)) \in SUBSET Listeners
    BY <1>2
  <2>3. Destroys({acc[a].sock} \ (m_socks \cup HeldBut(a)))
    BY <1>6, <2>2, DestroyFacts DEF LoopEnds
  <2>4. Ends(a)
    BY <1>2, <1>6, <2>1, <2>3 DEF LoopEnds, Ends, callVars
  <2> QED
    BY <2>4 DEF AnyStep
<1>7. CASE AcceptFails(a)
  <2>1. Turns(a, "test", acc[a].sock, NoFd)
    BY <1>7, LoopFacts DEF AcceptFails
  <2>2. GoesOn(a, "test", NoFd)
    BY <1>2, <1>7, <2>1 DEF AcceptFails, GoesOn, callVars
  <2> QED
    BY <1>1, <1>3, <1>4, <2>2
<1>8. CASE NoConnection(a)
  <2>1. Turns(a, "event", acc[a].sock, acc[a].fd) \/ Turns(a, "blocked", acc[a].sock, acc[a].fd)
    BY <1>8, LoopFacts
  <2>2. GoesOn(a, "event", acc[a].fd) \/ GoesOn(a, "blocked", acc[a].fd)
    BY <1>2, <1>8, <2>1 DEF NoConnection, GoesOn, callVars
  <2> QED
    BY <1>1, <1>3, <1>4, <2>2
<1>9. CASE AddEvent(a)
  <2>1. \/ Turns(a, "test", acc[a].sock, NoFd)
        \/ Turns(a, "wait", acc[a].sock, acc[a].fd)
        \/ Turns(a, "abort", acc[a].sock, acc[a].fd) /\ WaitsOn(acc[a].fd) # {}
    BY <1>9, LoopFacts
  <2>2. acc[a].fd \in Fds /\ acc[a].pc = "event"
    BY <1>9 DEF AddEvent, At, LocalInv
  <2>3. GoesOn(a, "test", NoFd) \/ GoesOn(a, "wait", acc[a].fd) \/ GoesOn(a, "abort", acc[a].fd)
    BY <1>2, <1>9, <2>1, <2>2 DEF AddEvent, GoesOn, callVars
  <2> QED
    BY <1>1, <1>3, <1>4, <2>3
<1>10. CASE Ready(a)
  <2>1. Turns(a, "accept", acc[a].sock, acc[a].fd)
    BY <1>10, LoopFacts
  <2>2. GoesOn(a, "accept", acc[a].fd)
    BY <1>2, <1>10, <2>1 DEF Ready, GoesOn, callVars
  <2> QED
    BY <1>1, <1>3, <1>4, <2>2
<1> QED
    BY <1>5, <1>6, <1>7, <1>8, <1>9, <1>10 DEF LoopStep

\* All of them.
LEMMA NextSteps == ASSUME TypeInv, LocalInv, [Next]_vars PROVE AnyStep
<1>1. ASSUME NEW f \in Fds, Bind(f) PROVE AnyStep
    BY <1>1, BindFacts DEF AnyStep
<1>2. ASSUME NEW f \in Fds, NEW a \in Acceptors, Accepts(a, f) PROVE AnyStep
  <2>1. acc[a].sock \in Listeners
    BY <1>2 DEF Accepts, At, LocalInv
  <2>2. PICK c \in Clients : Hands(f, c)
    BY <1>2, AcceptFacts
  <2>3. Turns(a, "test", acc[a].sock, NoFd)
    BY <1>2, AcceptFacts, LoopFacts
  <2>4. Serves(a, f, c)
    BY <1>2, <2>1, <2>2, <2>3 DEF Accepts, Serves, callVars
  <2> QED
    BY <2>4 DEF AnyStep
<1>3. CASE BindFails
  <2>1. m_socks \ HeldBut(None) \in SUBSET Listeners
    BY DEF TypeInv
  <2>2. Destroys(m_socks \ HeldBut(None))
    BY <1>3, <2>1, DestroyFacts DEF BindFails
  <2>3. BindStops
    BY <1>3, <2>2 DEF BindFails, BindStops, MayBind
  <2> QED
    BY <2>3 DEF AnyStep
<1>4. CASE Start
  <2>1. CASE ~m_isStop
    BY <1>4, <2>1 DEF Start, Rests, AnyStep, serverVars, fdVars
  <2>2. CASE m_isStop
    <3>1. Starts
        BY <1>4, <2>2, BeginFacts DEF Start, Starts
    <3> QED
        BY <3>1 DEF AnyStep
  <2> QED
    BY <2>1, <2>2
<1>5. CASE Stop
  <2>1. Stops
    BY <1>5, CloseFacts DEF Stop, Stops
  <2> QED
    BY <2>1 DEF AnyStep
<1>6. ASSUME NEW c \in Clients, ClientStep(c) PROVE AnyStep
  <2>1. \/ Moves(c)
        \/ (\E p \in ClientSteps : Drops(c, p)) /\ UNCHANGED <<callVars, serverVars, acc, close>>
    BY <1>6, ClientFacts
  <2>2. Moves(c) \/ \E p \in ClientSteps : Leaves(c, p)
    BY <2>1 DEF Leaves, callVars
  <2> QED
    BY <2>2 DEF AnyStep
<1>7. CASE UNCHANGED vars
    BY <1>7 DEF vars, callVars, Rests, AnyStep
<1> QED
    BY <1>1, <1>2, <1>3, <1>4, <1>5, <1>6, <1>7, TaskSteps, LoopStepSteps DEF Next

-----------------------------------------------------------------------------
(* The parts of the invariant, one by one. *)

\* Types.
LEMMA NextType == ASSUME TypeInv, AnyStep PROVE TypeInv'
<1> USE DEF serverVars, fdVars
<1> DEFINE loops == acc' \in [Acceptors -> LoopRecord]
           task == close' \in CloseRecord
           clients == client' \in [Clients -> [pc : ClientSteps, fd : AnyFd]]
           fds == /\ open' \in [Fds -> {"free", "listen", "conn"}]
                  /\ nonblock' \in SUBSET Fds /\ ctxs' \in SUBSET Fds /\ reused' \in SUBSET Fds
<1>1. /\ UNCHANGED acc => loops
      /\ UNCHANGED close => task
      /\ UNCHANGED client => clients
      /\ UNCHANGED <<open, nonblock, ctxs, reused>> => fds
    BY DEF TypeInv, LoopRecord, CloseRecord
<1>2. m_socks \in SUBSET Listeners /\ m_isStop \in BOOLEAN /\ ctxs \in SUBSET Fds
    BY DEF TypeInv
<1>3. m_isKeepalive' \in BOOLEAN /\ hasty' \in BOOLEAN
    BY DEF TypeInv, AnyStep, Binds, BindStops, Starts, Stops, TaskBegins, TaskCloses, TaskEnds,
           TaskCancels, Ends, Serves, GoesOn, Moves, Leaves, Rests, Hasty, callVars
<1>4. loops
    BY <1>1 DEF AnyStep, Binds, BindStops, Starts, Stops, TaskBegins, TaskCloses, TaskEnds,
                TaskCancels, Ends, Serves, GoesOn, Moves, Leaves, Rests, Turns, Wakes, Begins
<1>5. task
    BY <1>1 DEF AnyStep, Binds, BindStops, Starts, Stops, TaskBegins, TaskCloses, TaskEnds,
                TaskCancels, Ends, Serves, GoesOn, Moves, Leaves, Rests, Closes
<1>6. clients
    BY <1>1 DEF AnyStep, Binds, BindStops, Starts, Stops, TaskBegins, TaskCloses, TaskEnds,
                TaskCancels, Ends, Serves, GoesOn, Moves, Leaves, Rests, Hands, Drops
<1>7. fds
    BY <1>1, <1>2 DEF AnyStep, Binds, BindStops, Starts, Stops, TaskBegins, TaskCloses, TaskEnds,
                TaskCancels, Ends, Serves, GoesOn, Moves, Leaves, Rests, Destroys, Opens, Hands,
                Drops
<1>8. m_isStop' \in BOOLEAN
    BY <1>2 DEF AnyStep, Binds, BindStops, Starts, Stops, TaskBegins, TaskCloses, TaskEnds,
        TaskCancels, Ends, Serves, GoesOn, Moves, Leaves, Rests
<1>9. m_socks' \in SUBSET Listeners
  <2>1. UNCHANGED m_socks \/ m_socks' = {} \/ \E l \in Listeners : m_socks' = m_socks \cup {l}
    BY DEF AnyStep, Binds, BindStops, Starts, Stops, TaskBegins, TaskCloses, TaskEnds,
        TaskCancels, Ends, Serves, GoesOn, Moves, Leaves, Rests
  <2> QED
    BY <1>2, <2>1
<1>10. m_sock' \in [Listeners -> AnyFd]
  <2>1. UNCHANGED m_sock \/ m_sock' \in [Listeners -> AnyFd]
    BY DEF AnyStep, Binds, BindStops, Starts, Stops, TaskBegins, TaskCloses, TaskEnds,
        TaskCancels, Ends, Serves, GoesOn, Moves, Leaves, Rests,
        Destroys
  <2> QED
    BY <2>1 DEF TypeInv
<1> QED
    BY <1>3, <1>4, <1>5, <1>6, <1>7, <1>8, <1>9, <1>10 DEF TypeInv, LoopRecord, CloseRecord

\* Locals.
LEMMA NextLocal == ASSUME TypeInv, LocalInv, AnyStep PROVE LocalInv'
<1> USE DEF serverVars, fdVars
<1> DEFINE L(a) ==
             /\ acc'[a].pc # "none" => acc'[a].sock \in Listeners
             /\ acc'[a].pc = "none" => acc'[a] = NoLoop
             /\ acc'[a].pc \in {"event", "wait"} => acc'[a].fd \in Fds
           C == close'.pc \in {"hook", "close"} => close'.sock \in Listeners
           H(c) == client'[c].pc = "none" => client'[c].fd = NoFd
<1>0. m_socks \subseteq Listeners
    BY DEF TypeInv
<1>1. /\ \A a \in Acceptors : acc'[a] = acc[a] => L(a)
      /\ UNCHANGED close => C
      /\ \A c \in Clients : client'[c] = client[c] => H(c)
    BY DEF LocalInv
<1>2. \A a \in Acceptors : L(a)
  <2>1. CASE UNCHANGED acc
    BY <1>1, <2>1
  <2>2. CASE Wakes
    BY <1>1, <2>2 DEF Wakes, LocalInv
  <2>3. CASE Begins
    BY <1>0, <1>1, <2>3 DEF Begins, LocalInv
  <2>4. ASSUME NEW a \in Acceptors, Ends(a) PROVE \A b \in Acceptors : L(b)
    BY <1>1, <2>4 DEF Ends, Turns
  <2>5. ASSUME NEW a \in Acceptors, NEW f \in Fds, NEW c \in Clients, Serves(a, f, c)
        PROVE  \A b \in Acceptors : L(b)
    BY <1>1, <2>5 DEF Serves, Turns
  <2>6. ASSUME NEW a \in Acceptors, NEW p \in LoopSteps, NEW f \in AnyFd, GoesOn(a, p, f)
        PROVE  \A b \in Acceptors : L(b)
    BY <1>1, <2>6 DEF GoesOn, Turns
  <2> HIDE DEF L
  <2> QED
    BY <2>1, <2>2, <2>3, <2>4, <2>5, <2>6
    DEF AnyStep, Binds, BindStops, Starts, Stops, TaskBegins, TaskCloses, TaskEnds,
        TaskCancels, Moves, Leaves, Rests
<1>3. C
    BY <1>1 DEF AnyStep, Binds, BindStops, Starts, Stops, TaskBegins, TaskCloses, TaskEnds,
                TaskCancels, Ends, Serves, GoesOn, Moves, Leaves, Rests, Closes, LocalInv
<1>4. \A c \in Clients : H(c)
  <2>1. CASE UNCHANGED client
    BY <1>1, <2>1
  <2>2. ASSUME NEW a \in Acceptors, NEW f \in Fds, NEW c \in Clients, Serves(a, f, c)
        PROVE  \A d \in Clients : H(d)
    BY <1>1, <2>2 DEF Serves, Hands
  <2>3. ASSUME NEW c \in Clients, Moves(c) PROVE \A d \in Clients : H(d)
    BY <1>1, <2>3 DEF Moves
  <2>4. ASSUME NEW c \in Clients, NEW p \in ClientSteps, Leaves(c, p) PROVE \A d \in Clients : H(d)
    BY <1>1, <2>4 DEF Leaves, Drops
  <2> HIDE DEF H
  <2> QED
    BY <2>1, <2>2, <2>3, <2>4
    DEF AnyStep, Binds, BindStops, Starts, Stops, TaskBegins, TaskCloses, TaskEnds,
        TaskCancels, Ends, GoesOn, Rests
<1> QED
    BY <1>2, <1>3, <1>4 DEF LocalInv

\* A listener with a descriptor is bound or held.
LEMMA NextHeld == ASSUME TypeInv, LocalInv, HeldInv, AnyStep PROVE HeldInv'
<1> USE DEF serverVars, fdVars
<1>1. ASSUME UNCHANGED <<m_socks, m_sock>>, \A a \in Acceptors : acc[a].sock \in {acc'[a].sock, None}
      PROVE  HeldInv'
    BY <1>1, ServerAssumption DEF HeldInv
<1>2. \A a \in Acceptors : acc[a].sock \in HeldBut(None)
    BY ServerAssumption DEF HeldBut
<1>3. ASSUME NEW f \in Fds, NEW l \in Listeners, Binds(f, l) PROVE HeldInv'
    BY <1>3 DEF Binds, HeldInv
<1>4. ASSUME Destroys(m_socks \ HeldBut(None)), UNCHANGED acc PROVE HeldInv'
  <2>1. SUFFICES ASSUME NEW l \in Listeners, m_sock'[l] # NoFd
                 PROVE  \E a \in Acceptors : acc'[a].sock = l
    BY DEF HeldInv
  <2>2. l \notin m_socks \ HeldBut(None) /\ m_sock[l] # NoFd
    BY <1>4, <2>1 DEF Destroys
  <2>3. CASE l \in m_socks
    BY <1>4, <2>2, <2>3 DEF HeldBut
  <2> QED
    BY <1>4, <2>2, <2>3 DEF HeldInv
<1>5. CASE Starts
    BY <1>1, <1>5 DEF Starts, Begins, NoLoop
<1>6. CASE Stops \/ TaskBegins \/ Rests
    BY <1>1, <1>6 DEF Stops, TaskBegins, Rests
<1>7. CASE TaskCloses
    BY <1>7 DEF TaskCloses, Destroys, HeldInv
<1>8. ASSUME NEW p, TaskCancels(p) PROVE HeldInv'
    BY <1>1, <1>8 DEF TaskCancels, Wakes
<1>9. ASSUME NEW a \in Acceptors, Ends(a) PROVE HeldInv'
  <2>1. SUFFICES ASSUME NEW l \in Listeners, m_sock'[l] # NoFd, l \notin m_socks
                 PROVE  \E b \in Acceptors : acc'[b].sock = l
    BY <1>9 DEF HeldInv, Ends
  <2>2. l \notin {acc[a].sock} \ (m_socks \cup HeldBut(a)) /\ m_sock[l] # NoFd
    BY <1>9, <2>1 DEF Ends, Destroys
  <2>3. CASE l = acc[a].sock
    <3>1. l \in HeldBut(a)
        BY <2>1, <2>2, <2>3
    <3> QED
        BY <1>9, <3>1 DEF HeldBut, Ends, Turns
  <2>4. CASE l # acc[a].sock
    BY <1>9, <2>1, <2>2, <2>4 DEF HeldInv, Ends, Turns
  <2> QED
    BY <2>3, <2>4
<1>10. ASSUME NEW a \in Acceptors, NEW f \in Fds, NEW c \in Clients, Serves(a, f, c) PROVE HeldInv'
    BY <1>1, <1>10 DEF Serves, Turns
<1>11. ASSUME NEW a \in Acceptors, NEW p \in LoopSteps, NEW f \in AnyFd, GoesOn(a, p, f)
       PROVE  HeldInv'
    BY <1>1, <1>11 DEF GoesOn, Turns
<1>12. ASSUME NEW c \in Clients, Moves(c) PROVE HeldInv'
    BY <1>1, <1>12 DEF Moves
<1>13. ASSUME NEW c \in Clients, NEW p \in ClientSteps, Leaves(c, p) PROVE HeldInv'
    BY <1>1, <1>13 DEF Leaves
<1> QED
    BY <1>3, <1>4, <1>5, <1>6, <1>7, <1>8, <1>9, <1>10, <1>11, <1>12, <1>13
    DEF AnyStep, BindStops, TaskEnds

\* Sockets and descriptors.
LEMMA NextSocket == ASSUME TypeInv, LocalInv, HeldInv, SocketInv, AnyStep PROVE SocketInv'
<1> USE DEF serverVars, fdVars
<1>1. ASSUME UNCHANGED <<m_sock, open>>, \A c \in Clients : client'[c].fd = client[c].fd
      PROVE  SocketInv'
    BY <1>1 DEF SocketInv
<1>2. /\ m_sock \in [Listeners -> AnyFd] /\ open \in [Fds -> {"free", "listen", "conn"}]
      /\ NoFd \notin Fds /\ m_socks \subseteq Listeners
    BY ServerAssumption DEF TypeInv
<1>3. ASSUME NEW f \in Fds, NEW l \in Listeners, Binds(f, l) PROVE SocketInv'
  <2>1. m_sock[l] = NoFd
    BY <1>3 DEF Binds, HeldInv
  <2>2. /\ open[f] = "free" /\ open'[f] = "listen" /\ \A g \in Fds : g # f => open'[g] = open[g]
        /\ m_sock'[l] = f /\ \A k \in Listeners : k # l => m_sock'[k] = m_sock[k]
        /\ client' = client
    BY <1>3 DEF Binds, Opens
  <2> QED
    BY <1>2, <2>1, <2>2 DEF SocketInv
<1>4. ASSUME NEW S \in SUBSET Listeners, Destroys(S), UNCHANGED client PROVE SocketInv'
  <2>1. /\ \A l \in Listeners : IF l \in S THEN m_sock'[l] = NoFd ELSE m_sock'[l] = m_sock[l]
        /\ \A f \in Fds : IF \E l \in S : m_sock[l] = f THEN open'[f] = "free"
                                                        ELSE open'[f] = open[f]
    BY <1>4 DEF Destroys
  <2>2. \A l \in Listeners : m_sock'[l] \in Fds => l \notin S /\ m_sock'[l] = m_sock[l]
    BY <1>2, <2>1
  <2>3. \A f \in Fds : open'[f] # "free" => open'[f] = open[f] /\ ~\E l \in S : m_sock[l] = f
    BY <2>1
  <2>4. \A l \in Listeners : m_sock'[l] \in Fds => open'[m_sock'[l]] = "listen"
    BY <2>1, <2>2 DEF SocketInv
  <2>5. \A c \in Clients : client'[c].fd \in Fds => open'[client'[c].fd] = "conn"
    BY <1>4, <2>1 DEF SocketInv
  <2>6. \A f \in Fds : open'[f] = "listen" => \E l \in Listeners : m_sock'[l] = f
    BY <2>1, <2>3 DEF SocketInv
  <2>7. \A f \in Fds : open'[f] = "conn" => \E c \in Clients : client'[c].fd = f
    BY <1>4, <2>3 DEF SocketInv
  <2>8. \A l, k \in Listeners : m_sock'[l] = m_sock'[k] /\ m_sock'[l] \in Fds => l = k
    BY <2>2 DEF SocketInv
  <2> QED
    BY <1>4, <2>4, <2>5, <2>6, <2>7, <2>8 DEF SocketInv
<1>5. ASSUME NEW a \in Acceptors, NEW f \in Fds, NEW c \in Clients, Serves(a, f, c)
      PROVE  SocketInv'
  <2>1. client[c].fd = NoFd
    BY <1>5 DEF Serves, Hands, LocalInv
  <2>2. /\ open[f] = "free" /\ open'[f] = "conn" /\ \A g \in Fds : g # f => open'[g] = open[g]
        /\ client'[c].fd = f /\ \A d \in Clients : d # c => client'[d] = client[d]
        /\ m_sock' = m_sock
    BY <1>5 DEF Serves, Hands, Opens
  <2> QED
    BY <1>2, <2>1, <2>2 DEF SocketInv
<1>6. ASSUME NEW c \in Clients, NEW p \in ClientSteps, Leaves(c, p) PROVE SocketInv'
  <2>1. /\ \A f \in Fds : open'[f] = IF client[c].fd = f THEN "free" ELSE open[f]
        /\ client'[c].fd = NoFd /\ \A d \in Clients : d # c => client'[d] = client[d]
        /\ m_sock' = m_sock
    BY <1>6 DEF Leaves, Drops
  <2> QED
    BY <1>2, <2>1 DEF SocketInv
<1>7. ASSUME NEW c \in Clients, Moves(c) PROVE SocketInv'
    BY <1>1, <1>7 DEF Moves
<1>8. CASE BindStops \/ TaskEnds
    BY <1>2, <1>4, <1>8 DEF BindStops, TaskEnds
<1>9. CASE TaskCloses
    BY <1>4, <1>9 DEF TaskCloses
<1>10. ASSUME NEW a \in Acceptors, Ends(a) PROVE SocketInv'
    BY <1>4, <1>10 DEF Ends
<1> QED
    BY <1>1, <1>3, <1>5, <1>6, <1>7, <1>8, <1>9, <1>10
    DEF AnyStep, Starts, Stops, TaskBegins, TaskCancels, GoesOn, Rests

\* The bound listeners.
LEMMA NextBound == ASSUME TypeInv, BoundInv, AnyStep PROVE BoundInv'
<1> USE DEF serverVars, fdVars
<1>1. ASSUME UNCHANGED <<m_socks, m_sock>>, close'.pc = close.pc PROVE BoundInv'
    BY <1>1 DEF BoundInv
<1>2. m_socks \subseteq Listeners
    BY DEF TypeInv
<1>3. ASSUME NEW f \in Fds, NEW l \in Listeners, Binds(f, l) PROVE BoundInv'
    BY <1>2, <1>3 DEF Binds, BoundInv
<1>4. CASE BindStops \/ TaskEnds
    BY <1>4 DEF BindStops, TaskEnds, BoundInv
<1>5. CASE TaskBegins \/ TaskCloses \/ \E p \in CloseSteps : TaskCancels(p)
    BY <1>5 DEF TaskBegins, TaskCloses, TaskCancels, Closes, BoundInv
<1>6. ASSUME NEW a \in Acceptors, Ends(a) PROVE BoundInv'
  <2>1. m_socks' = m_socks /\ close' = close /\ \A l \in m_socks : m_sock'[l] = m_sock[l]
    BY <1>2, <1>6 DEF Ends, Destroys
  <2> QED
    BY <2>1 DEF BoundInv
<1>7. CASE Stops
    BY <1>1, <1>7 DEF Stops, Closes
<1> QED
    BY <1>1, <1>3, <1>4, <1>5, <1>6, <1>7
    DEF AnyStep, Starts, Serves, GoesOn, Moves, Leaves, Rests

\* Blocking sockets.
LEMMA NextBlocking == ASSUME TypeInv, BlockingOnlyIfReused, AnyStep PROVE BlockingOnlyIfReused'
<1> USE DEF serverVars, fdVars
<1>1. ASSUME UNCHANGED <<open, nonblock, reused>> PROVE BlockingOnlyIfReused'
    BY <1>1 DEF BlockingOnlyIfReused
<1>2. ASSUME NEW f \in Fds, NEW what, Opens(f, what) PROVE BlockingOnlyIfReused'
    BY <1>2 DEF Opens, BlockingOnlyIfReused
<1>3. ASSUME NEW S, Destroys(S) PROVE BlockingOnlyIfReused'
  <2>1. \A f \in Fds : open'[f] # "free" => /\ open[f] # "free"
                                            /\ f \in nonblock' <=> f \in nonblock
                                            /\ f \in reused' <=> f \in reused
    BY <1>3 DEF Destroys
  <2> QED
    BY <2>1 DEF BlockingOnlyIfReused
<1>4. ASSUME NEW c \in Clients, NEW p, Drops(c, p) PROVE BlockingOnlyIfReused'
    BY <1>4 DEF Drops, BlockingOnlyIfReused
<1> QED
    BY <1>1, <1>2, <1>3, <1>4
    DEF AnyStep, Binds, BindStops, Starts, Stops, TaskBegins, TaskCloses, TaskEnds,
        TaskCancels, Ends, Serves, Hands, GoesOn, Moves, Leaves, Rests

\* Loops, listeners and the close task.
LEMMA NextLoop ==
    ASSUME TypeInv, LocalInv, SocketInv, BoundInv, LoopInv, AnyStep PROVE LoopInv'
<1> USE DEF serverVars, fdVars
<1>1. /\ NoFd \notin Fds /\ None \notin Listeners /\ m_socks \subseteq Listeners
      /\ m_sock \in [Listeners -> AnyFd] /\ close.queued \in Int /\ m_isStop \in BOOLEAN
  <2>1. close \in CloseRecord
    BY DEF TypeInv, CloseRecord
  <2> QED
    BY <2>1, ServerAssumption DEF TypeInv, CloseRecord
<1> DEFINE R(q) == /\ close'.pc = "idle" /\ q = 0
                   /\ \A a \in Acceptors : acc'[a].sock \in Listeners =>
                        /\ m_sock'[acc'[a].sock] \in Fds
                        /\ acc'[a].fd \in {NoFd, m_sock'[acc'[a].sock]}
           D(a, b) == /\ acc'[a].sock \in Listeners => acc'[a].sock # acc'[b].sock
                      /\ acc'[a].fd \in Fds => acc'[a].fd # acc'[b].fd
<1>2. ASSUME NEW q, close'.queued = q, q >= 0, ~m_isStop' => R(q),
             \A a, b \in Acceptors : a # b => D(a, b),
             \A a \in Acceptors : acc'[a].pc # "abort"
      PROVE  LoopInv'
    BY <1>2 DEF LoopInv
<1>3. ASSUME ~Hasty
      PROVE  /\ ~hasty /\ close.pc = "idle" /\ close.queued = 0
             /\ \A a \in Acceptors : acc[a] = NoLoop
  <2>1. ~hasty /\ close.pc = "idle" /\ ~(close.queued > 0) /\ \A a \in Acceptors : acc[a] = NoLoop
    BY <1>3 DEF Hasty
  <2>2. close.queued >= 0
    BY <2>1 DEF LoopInv
  <2> QED
    BY <1>1, <2>1, <2>2
<1>4. NoLoop.sock \notin Listeners /\ NoLoop.fd \notin Fds /\ NoLoop.pc = "none"
    BY <1>1 DEF NoLoop
<1>5. ASSUME hasty' = Hasty, UNCHANGED <<acc, close>> PROVE LoopInv'
  <2>1. CASE Hasty
    BY <1>5, <2>1 DEF LoopInv
  <2>2. CASE ~Hasty
    BY <1>2, <1>3, <1>4, <1>5, <2>2
  <2> QED
    BY <2>1, <2>2
<1>6. CASE Starts
  <2>1. CASE Hasty
    BY <1>6, <2>1 DEF LoopInv, Starts
  <2>2. CASE ~Hasty
    <3>1. /\ close.pc = "idle" /\ close.queued = 0 /\ \A a \in Acceptors : acc[a] = NoLoop
        BY <1>3, <2>2
    <3>2. \A a \in Acceptors :
            \/ acc'[a] = NoLoop
            \/ acc'[a] # acc[a] /\ acc'[a].pc = "test" /\ acc'[a].sock \in m_socks /\ acc'[a].fd = NoFd
        BY <1>6, <3>1 DEF Starts, Begins
    <3>3. \A a, b \in Acceptors :
            acc'[a] # acc[a] /\ acc'[b] # acc[b] /\ acc'[a].sock = acc'[b].sock => a = b
        BY <1>6 DEF Starts, Begins
    <3>4. \A a, b \in Acceptors : a # b => D(a, b)
        BY <1>1, <1>4, <3>2, <3>3
    <3>5. \A l \in m_socks : m_sock'[l] \in Fds
        BY <1>6, <3>1 DEF BoundInv, Starts
    <3>6. R(0)
        BY <1>4, <1>6, <3>1, <3>2, <3>5 DEF Starts
    <3>7. \A a \in Acceptors : acc'[a].pc # "abort"
        BY <1>4, <3>2
    <3> QED
        BY <1>2, <1>6, <3>1, <3>4, <3>6, <3>7 DEF Starts
  <2> QED
    BY <2>1, <2>2
<1>7. ASSUME m_isStop' = TRUE, UNCHANGED <<hasty, acc>>, close'.queued \in Int,
             ~hasty => close'.queued >= 0
      PROVE  LoopInv'
    BY <1>7 DEF LoopInv
<1>8. CASE Stops
    BY <1>1, <1>7, <1>8 DEF Stops, Closes, LoopInv
<1>9. CASE hasty /\ UNCHANGED hasty
    BY <1>9 DEF LoopInv
<1>10. CASE TaskBegins
  <2>1. CASE ~hasty
    <3>1. m_isStop /\ close.queued > 0
        BY <1>10, <1>1, <2>1 DEF TaskBegins, LoopInv
    <3> QED
        BY <1>1, <1>7, <1>10, <3>1 DEF TaskBegins, Closes
  <2> QED
    BY <1>9, <1>10, <2>1 DEF TaskBegins
<1>11. CASE TaskCloses \/ TaskEnds
  <2>1. CASE ~hasty
    <3>1. m_isStop /\ close.queued >= 0
        BY <1>11, <2>1 DEF TaskCloses, TaskEnds, LoopInv
    <3> QED
        BY <1>1, <1>7, <1>11, <3>1 DEF TaskCloses, TaskEnds, Closes
  <2> QED
    BY <1>9, <1>11, <2>1 DEF TaskCloses, TaskEnds
<1>12. ASSUME NEW p, TaskCancels(p) PROVE LoopInv'
  <2>1. CASE ~hasty
    <3>1. m_isStop /\ close.queued >= 0
        BY <1>12, <2>1 DEF TaskCancels, LoopInv
    <3>2. \A a \in Acceptors : /\ acc'[a].sock = acc[a].sock /\ acc'[a].fd = acc[a].fd
                               /\ acc'[a].pc \in {acc[a].pc, "accept"}
        BY <1>12 DEF TaskCancels, Wakes
    <3>3. \A a, b \in Acceptors : a # b => D(a, b)
        BY <2>1, <3>2 DEF LoopInv
    <3>4. \A a \in Acceptors : acc'[a].pc # "abort"
        BY <2>1, <3>2 DEF LoopInv
    <3> QED
        BY <1>2, <1>12, <3>1, <3>3, <3>4 DEF TaskCancels, Closes
  <2> QED
    BY <1>9, <1>12, <2>1 DEF TaskCancels
<1>13. ASSUME NEW a \in Acceptors, Ends(a) PROVE LoopInv'
  <2>1. CASE ~hasty
    <3>1. m_isStop' = TRUE /\ close'.queued = close.queued /\ close.queued >= 0
        BY <1>13, <2>1 DEF Ends, LoopInv
    <3>2. acc'[a] = NoLoop /\ \A b \in Acceptors : b # a => acc'[b] = acc[b]
        BY <1>13 DEF Ends, Turns
    <3>3. \A b, c \in Acceptors : b # c => D(b, c)
        BY <1>1, <1>4, <2>1, <3>2 DEF LoopInv, NoLoop
    <3>4. \A b \in Acceptors : acc'[b].pc # "abort"
        BY <1>4, <2>1, <3>2 DEF LoopInv
    <3> QED
        BY <1>2, <3>1, <3>3, <3>4
  <2> QED
    BY <1>9, <1>13, <2>1 DEF Ends
<1>14. ASSUME NEW a \in Acceptors, NEW p, NEW f \in AnyFd, Turns(a, p, acc[a].sock, f),
              acc[a].sock \in Listeners, p # "abort",
              f \in {NoFd, acc[a].fd} \/ (~m_isStop /\ f = m_sock[acc[a].sock]),
              UNCHANGED <<hasty, serverVars, close>>
       PROVE  LoopInv'
  <2>1. CASE ~hasty
    <3>1. /\ acc'[a].pc = p /\ acc'[a].sock = acc[a].sock /\ acc'[a].fd = f
          /\ \A b \in Acceptors : b # a => acc'[b] = acc[b]
        BY <1>14 DEF Turns
    <3>2. close'.queued = close.queued /\ close.queued >= 0
        BY <1>14, <2>1 DEF LoopInv
    <3>3. ~m_isStop' => R(close.queued)
        BY <1>14, <2>1, <3>1 DEF LoopInv
    <3>4. \A b \in Acceptors : b # a /\ f \in Fds => acc[b].fd # f
      <4>1. SUFFICES ASSUME NEW b \in Acceptors, b # a, f \in Fds, acc[b].fd = f PROVE FALSE
        OBVIOUS
      <4>2. CASE f = acc[a].fd
        BY <2>1, <4>1, <4>2 DEF LoopInv
      <4>3. CASE ~m_isStop /\ f = m_sock[acc[a].sock]
        <5>1. acc[b].sock \in Listeners
            BY <1>4, <4>1 DEF LocalInv
        <5>2. f = m_sock[acc[b].sock]
            BY <1>1, <2>1, <4>1, <4>3, <5>1 DEF LoopInv
        <5>3. \A l, k \in Listeners : m_sock[l] = m_sock[k] /\ m_sock[l] \in Fds => l = k
            BY DEF SocketInv
        <5>4. acc[a].sock \in Listeners
            BY <1>14
        <5>5. acc[a].sock = acc[b].sock
            BY <4>1, <4>3, <5>1, <5>2, <5>3, <5>4
        <5> QED
            BY <2>1, <4>1, <5>4, <5>5 DEF LoopInv
      <4> QED
        BY <1>1, <1>14, <4>1, <4>2, <4>3
    <3>5. \A b, c \in Acceptors : b # c => D(b, c)
        BY <2>1, <3>1, <3>4 DEF LoopInv
    <3>6. \A b \in Acceptors : acc'[b].pc # "abort"
        BY <1>14, <2>1, <3>1 DEF LoopInv
    <3> QED
        BY <1>2, <3>2, <3>3, <3>5, <3>6
  <2> QED
    BY <1>9, <1>14, <2>1
<1>15. ASSUME NEW a \in Acceptors, NEW f \in Fds, NEW c \in Clients, Serves(a, f, c) PROVE LoopInv'
    BY <1>14, <1>15 DEF Serves, AnyFd
<1>16. ASSUME NEW a \in Acceptors, NEW p \in LoopSteps, NEW f \in AnyFd, GoesOn(a, p, f)
       PROVE  LoopInv'
  <2>1. CASE p = "abort" /\ ~hasty
    <3>1. f = acc[a].fd /\ f \in Fds /\ WaitsOn(f) # {} /\ acc[a].pc = "event"
        BY <1>16, <2>1 DEF GoesOn
    <3>2. PICK b \in Acceptors : acc[b].pc = "wait" /\ acc[b].fd = f
        BY <3>1 DEF WaitsOn, At
    <3> QED
        BY <2>1, <3>1, <3>2 DEF LoopInv
  <2>2. CASE p # "abort"
    BY <1>14, <1>16, <2>2 DEF GoesOn
  <2> QED
    BY <1>9, <1>16, <2>1, <2>2 DEF GoesOn
<1>17. ASSUME UNCHANGED <<m_isKeepalive, hasty, serverVars, acc, close>> PROVE LoopInv'
    BY <1>17 DEF LoopInv
<1>18. CASE BindStops \/ \E f \in Fds, l \in Listeners : Binds(f, l)
    BY <1>5, <1>18 DEF BindStops, Binds
<1>19. CASE Rests \/ (\E c \in Clients : Moves(c)) \/ \E c \in Clients, p \in ClientSteps : Leaves(c, p)
    BY <1>17, <1>19 DEF Rests, Moves, Leaves, callVars
<1> QED
    BY <1>6, <1>8, <1>10, <1>11, <1>12, <1>13, <1>15, <1>16, <1>18, <1>19 DEF AnyStep

-----------------------------------------------------------------------------
(* The theorems. *)

\* The invariant holds.
THEOREM ServerInv == Spec => []IInv
<1>1. IInv /\ [Next]_vars => IInv'
  <2> SUFFICES ASSUME IInv, [Next]_vars PROVE IInv'
    OBVIOUS
  <2>1. /\ TypeInv /\ LocalInv /\ HeldInv /\ SocketInv /\ BoundInv /\ LoopInv
        /\ BlockingOnlyIfReused
    BY DEF IInv
  <2>2. AnyStep
    BY <2>1, NextSteps
  <2> QED
    BY <2>1, <2>2, NextType, NextLocal, NextHeld, NextSocket, NextBound, NextLoop, NextBlocking
    DEF IInv
<1> QED
    BY InitInv, <1>1, PTL DEF Spec

\* Every open descriptor has exactly one Socket that will close it, whatever bind(),
\* start(), stop(), the close task, the accept loops and the clients do in any order.
THEOREM SocketsCorrect == Spec => []OneSocketPerFd
<1>1. IInv => OneSocketPerFd
  <2> SUFFICES ASSUME IInv, NEW f \in Fds
               PROVE  LET S == {l \in Listeners : m_sock[l] = f} \cup {c \in Clients : client[c].fd = f}
                      IN  /\ Cardinality(S) = IF open[f] = "free" THEN 0 ELSE 1
                          /\ open[f] = "listen" => S \subseteq Listeners
    BY DEF OneSocketPerFd
  <2> DEFINE S == {l \in Listeners : m_sock[l] = f} \cup {c \in Clients : client[c].fd = f}
  <2>1. SocketInv /\ open[f] \in {"free", "listen", "conn"}
    BY DEF IInv, TypeInv
  <2>2. CASE open[f] = "free"
    <3>1. S = {}
        BY <2>1, <2>2 DEF SocketInv
    <3> QED
        BY <2>2, <3>1, FS_EmptySet
  <2>3. CASE open[f] = "listen"
    <3>1. PICK l \in Listeners : m_sock[l] = f
        BY <2>1, <2>3 DEF SocketInv
    <3>2. S = {l}
        BY <2>1, <2>3, <3>1 DEF SocketInv
    <3>3. Cardinality(S) = 1
        BY <3>2, FS_Singleton
    <3> QED
        BY <2>3, <3>2, <3>3
  <2>4. CASE open[f] = "conn"
    <3>1. PICK c \in Clients : client[c].fd = f
        BY <2>1, <2>4 DEF SocketInv
    <3>2. S = {c}
        BY <2>1, <2>4, <3>1 DEF SocketInv
    <3>3. Cardinality(S) = 1
        BY <3>2, FS_Singleton
    <3> QED
        BY <2>4, <3>3
  <2> QED
    BY <2>1, <2>2, <2>3, <2>4
<1> QED
    BY ServerInv, <1>1, PTL

\* A socket that would block its thread has a number that was used before.
THEOREM BlockingCorrect == Spec => []BlockingOnlyIfReused
<1>1. IInv => BlockingOnlyIfReused
    BY DEF IInv
<1> QED
    BY ServerInv, <1>1, PTL

\* Unless bind() or start() is called while loops run or before the close task of stop()
\* has ended, loops run on open listeners and addEvent never finds another loop's event.
THEOREM LoopsCorrect == Spec => []LoopsOnlyOnOpen
<1>1. IInv => LoopsOnlyOnOpen
  <2> SUFFICES ASSUME IInv, ~hasty, NEW a \in Acceptors
               PROVE  /\ acc[a].pc # "abort"
                      /\ acc[a].sock # None /\ ~m_isStop => m_sock[acc[a].sock] # NoFd
    BY DEF LoopsOnlyOnOpen
  <2>1. acc[a].sock \in Listeners \cup {None}
    BY DEF IInv, TypeInv
  <2> QED
    BY <2>1, ServerAssumption DEF IInv, LoopInv
<1> QED
    BY ServerInv, <1>1, PTL

=============================================================================
