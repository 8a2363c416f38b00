-------------------------- MODULE HttpConnectionPool --------------------------
(***************************************************************************)
(* HttpConnectionPool (http/http_connection.cpp): fibers on several        *)
(* threads take a connection out of the pool, send a request on it, wait   *)
(* for the response until a timeout, and give the connection back.  The    *)
(* other end answers the requests of a connection in order, when it likes  *)
(* or never, and may close.  A request is the turn in which a user made it.*)
(***************************************************************************)
EXTENDS Integers, Sequences, FiniteSets

CONSTANTS
    Users,       \* fibers that call doRequest
    Conns,       \* addresses of HttpConnection objects
    MaxTurns,    \* bound: requests a user makes
    MaxRequest,  \* m_maxRequest
    AliveTime,   \* m_maxAliveTime
    Now,         \* GetCurrentMS(), in milliseconds since 1970
    None         \* nullptr

ASSUME PoolAssumption ==
    /\ MaxTurns \in Nat /\ MaxRequest \in Nat
    /\ AliveTime \in Nat /\ Now \in Nat /\ AliveTime < Now
    /\ None \notin Conns

VARIABLES
    pc,      \* where each user is
    turn,    \* requests each user has made
    mine,    \* the connection a user has, or None
    invalid, \* connections a user took out of the pool to delete
    answer,  \* what the last request of a user returned
    alive,   \* the HttpConnection objects that exist
    linked,  \* those whose socket is connected (m_isConnected)
    used,    \* m_request of each
    timed,   \* those on which a response was given up
    closed,  \* those whose other end closed
    asked,   \* requests the other end has not answered, by connection
    coming,  \* responses sent and not yet received
    m_conns, \* the pool's list
    m_total  \* the pool's count

connVars == <<alive, linked, used, timed, closed, asked, coming>>
vars == <<pc, turn, mine, invalid, answer, connVars, m_conns, m_total>>

NoAnswer == <<"none", 0>>
Requests == Users \X (1 .. MaxTurns)

Init ==
    /\ pc = [u \in Users |-> "idle"] /\ turn = [u \in Users |-> 0]
    /\ mine = [u \in Users |-> None] /\ invalid = [u \in Users |-> {}]
    /\ answer = [u \in Users |-> NoAnswer]
    /\ alive = {} /\ linked = {} /\ used = [c \in Conns |-> 0] /\ timed = {} /\ closed = {}
    /\ asked = [c \in Conns |-> << >>] /\ coming = [c \in Conns |-> << >>]
    /\ m_conns = << >> /\ m_total = 0

\* m_createTime is never set: it is 0, and the test never holds.
TooOld(c) == 0 + AliveTime > Now

(***************************************************************************)
(* getConnection: under the lock, connections are taken from the front     *)
(* until one is good; the bad ones are deleted after the lock is released, *)
(* and counted off after that.                                             *)
(***************************************************************************)
Good(c) == c \in linked /\ ~TooOld(c)
TakeFromPool(u) ==
    /\ pc[u] = "idle" /\ turn[u] < MaxTurns
    /\ turn' = [turn EXCEPT ![u] = @ + 1]
    /\ answer' = [answer EXCEPT ![u] = NoAnswer]
    /\ LET good == {i \in 1 .. Len(m_conns) : Good(m_conns[i])}
           n == IF good = {} THEN Len(m_conns)
                ELSE (CHOOSE i \in good : \A j \in good : i <= j) - 1
       IN  /\ invalid' = [invalid EXCEPT ![u] = {m_conns[i] : i \in 1 .. n}]
           /\ mine' = [mine EXCEPT ![u] = IF good = {} THEN None ELSE m_conns[n + 1]]
           /\ m_conns' = IF good = {} THEN << >> ELSE SubSeq(m_conns, n + 2, Len(m_conns))
    /\ pc' = [pc EXCEPT ![u] = "delete"]
    /\ UNCHANGED <<connVars, m_total>>

Delete(S) ==
    /\ alive' = alive \ S /\ linked' = linked \ S /\ timed' = timed \ S
    /\ closed' = closed \ S
    /\ used' = [c \in Conns |-> IF c \in S THEN 0 ELSE used[c]]
    /\ asked' = [c \in Conns |-> IF c \in S THEN << >> ELSE asked[c]]
    /\ coming' = [c \in Conns |-> IF c \in S THEN << >> ELSE coming[c]]
DeleteInvalid(u) ==
    /\ pc[u] = "delete" /\ pc' = [pc EXCEPT ![u] = "count"]
    /\ Delete(invalid[u])
    /\ UNCHANGED <<turn, mine, invalid, answer, m_conns, m_total>>
\* Mutant: a batch of bad connections is counted off as one.
CountInvalidOne(u) ==
    /\ pc[u] = "count"
    /\ m_total' = m_total - IF invalid[u] = {} THEN 0 ELSE 1
    /\ invalid' = [invalid EXCEPT ![u] = {}]
    /\ pc' = [pc EXCEPT ![u] = IF mine[u] = None THEN "connect" ELSE "send"]
    /\ UNCHANGED <<turn, mine, answer, connVars, m_conns>>
CountInvalid(u) ==
    /\ pc[u] = "count"
    /\ m_total' = m_total - Cardinality(invalid[u])
    /\ invalid' = [invalid EXCEPT ![u] = {}]
    /\ pc' = [pc EXCEPT ![u] = IF mine[u] = None THEN "connect" ELSE "send"]
    /\ UNCHANGED <<turn, mine, answer, connVars, m_conns>>

\* No address, no socket or no connection: doRequest returns POOL_GET_CONNECTION.
ConnectFails(u) ==
    /\ pc[u] = "connect" /\ pc' = [pc EXCEPT ![u] = "idle"]
    /\ answer' = [answer EXCEPT ![u] = <<"pool_get_connection", 0>>]
    /\ UNCHANGED <<turn, mine, invalid, connVars, m_conns, m_total>>
Connect(u) ==
    /\ pc[u] = "connect" /\ pc' = [pc EXCEPT ![u] = "created"]
    /\ \E c \in Conns \ alive :
          /\ alive' = alive \cup {c} /\ linked' = linked \cup {c}
          /\ mine' = [mine EXCEPT ![u] = c]
    /\ UNCHANGED <<turn, invalid, answer, used, timed, closed, asked, coming, m_conns, m_total>>
CountCreated(u) ==
    /\ pc[u] = "created" /\ pc' = [pc EXCEPT ![u] = "send"] /\ m_total' = m_total + 1
    /\ UNCHANGED <<turn, mine, invalid, answer, connVars, m_conns>>

(***************************************************************************)
(* doRequest.  A connection that the other end has closed may still take   *)
(* what is sent.  readFixSize and writeFixSize keep the length they get in *)
(* a size_t and do not notice the -1 of a call that failed: they call      *)
(* again.                                                                  *)
(***************************************************************************)
Send(u) ==
    /\ pc[u] \in {"send", "sending"} /\ mine[u] \in linked
    /\ pc' = [pc EXCEPT ![u] = "recv"]
    /\ asked' = IF mine[u] \in closed THEN asked
                ELSE [asked EXCEPT ![mine[u]] = Append(@, <<u, turn[u]>>)]
    /\ UNCHANGED <<turn, mine, invalid, answer, alive, linked, used, timed, closed, coming,
                   m_conns, m_total>>
\* The other end does not read: the hooked send waits until the socket can be written,
\* and doRequest sets no timeout for that.
SendWaits(u) ==
    /\ pc[u] = "send" /\ mine[u] \in linked \ closed /\ pc' = [pc EXCEPT ![u] = "sending"]
    /\ UNCHANGED <<turn, mine, invalid, answer, connVars, m_conns, m_total>>
\* writeFixSize on a connection that is closed at either end: every write fails, and
\* the loop does not end (unless the signal of a broken pipe ends the process).
SendSpins(u) ==
    /\ pc[u] \in {"send", "sending"} /\ (mine[u] \notin linked \/ mine[u] \in closed)
    /\ pc' = [pc EXCEPT ![u] = "spin"]
    /\ UNCHANGED <<turn, mine, invalid, answer, connVars, m_conns, m_total>>
\* A read brings a part of the head, or of a chunked body, and the loop reads again: with
\* a receive timeout of its own.  "recv" and "more" are the same place.
ReceivePart(u) ==
    /\ pc[u] \in {"recv", "more"} /\ mine[u] \in linked
    /\ asked[mine[u]] # << >> /\ coming[mine[u]] = << >>
    /\ pc' = [pc EXCEPT ![u] = IF @ = "recv" THEN "more" ELSE "recv"]
    /\ UNCHANGED <<turn, mine, invalid, answer, connVars, m_conns, m_total>>
\* The head of a response has come; the user is in readFixSize, which no timeout ends.
ReceiveHead(u) ==
    /\ pc[u] \in {"recv", "more"} /\ mine[u] \in linked
    /\ asked[mine[u]] # << >> /\ coming[mine[u]] = << >>
    /\ pc' = [pc EXCEPT ![u] = "body"]
    /\ UNCHANGED <<turn, mine, invalid, answer, connVars, m_conns, m_total>>

\* Mutant: what was received is not taken off the stream.
ReceiveAgain(u) ==
    /\ pc[u] \in {"recv", "more", "body"} /\ mine[u] \in linked /\ coming[mine[u]] # << >>
    /\ pc' = [pc EXCEPT ![u] = "release"]
    /\ answer' = [answer EXCEPT ![u] = Head(coming[mine[u]])]
    /\ UNCHANGED <<turn, mine, invalid, connVars, m_conns, m_total>>
Receive(u) ==
    /\ pc[u] \in {"recv", "more", "body"} /\ mine[u] \in linked /\ coming[mine[u]] # << >>
    /\ pc' = [pc EXCEPT ![u] = "release"]
    /\ answer' = [answer EXCEPT ![u] = Head(coming[mine[u]])]
    /\ coming' = [coming EXCEPT ![mine[u]] = Tail(@)]
    /\ UNCHANGED <<turn, mine, invalid, alive, linked, used, timed, closed, asked, m_conns,
                   m_total>>
\* Mutant: a wait without a timeout.
ReceiveOnlyFailsIfClosed(u) ==
    /\ pc[u] \in {"recv", "more"} /\ mine[u] \in closed
    /\ pc' = [pc EXCEPT ![u] = "release"]
    /\ answer' = [answer EXCEPT ![u] = <<"timeout", 0>>]
    /\ timed' = timed \cup {mine[u]}
    /\ UNCHANGED <<turn, mine, invalid, alive, linked, used, closed, asked, coming, m_conns,
                   m_total>>
\* recvResponse returns nullptr: the receive timeout, a close or an error; in the
\* body only a close.
ReceiveFails(u) ==
    /\ \/ pc[u] \in {"recv", "more"}
       \/ pc[u] = "body" /\ mine[u] \in linked \cap closed /\ coming[mine[u]] = << >>
    /\ pc' = [pc EXCEPT ![u] = "release"]
    /\ answer' = [answer EXCEPT ![u] = <<"timeout", 0>>]
    /\ timed' = timed \cup {mine[u]}
    /\ UNCHANGED <<turn, mine, invalid, alive, linked, used, closed, asked, coming, m_conns,
                   m_total>>

(***************************************************************************)
(* ReleasePtr, run when the user drops the connection.                     *)
(***************************************************************************)
Spent(c) == c \notin linked \/ 0 + AliveTime >= Now \/ used[c] + 1 > MaxRequest
\* Mutant: a connection is pushed back that should also be deleted.
ReleaseDeletesPushed(u) ==
    /\ pc[u] = "release" /\ Spent(mine[u])
    /\ Delete({mine[u]}) /\ m_conns' = Append(m_conns, mine[u])
    /\ mine' = [mine EXCEPT ![u] = None] /\ pc' = [pc EXCEPT ![u] = "deleted"]
    /\ UNCHANGED <<turn, invalid, answer, m_total>>
ReleaseDeletes(u) ==
    /\ pc[u] = "release" /\ Spent(mine[u])
    /\ Delete({mine[u]})
    /\ mine' = [mine EXCEPT ![u] = None] /\ pc' = [pc EXCEPT ![u] = "deleted"]
    /\ UNCHANGED <<turn, invalid, answer, m_conns, m_total>>
CountDeleted(u) ==
    /\ pc[u] = "deleted" /\ pc' = [pc EXCEPT ![u] = "idle"] /\ m_total' = m_total - 1
    /\ UNCHANGED <<turn, mine, invalid, answer, connVars, m_conns>>
ReleaseKeeps(u) ==
    /\ pc[u] = "release" /\ ~Spent(mine[u])
    /\ used' = [used EXCEPT ![mine[u]] = @ + 1]
    /\ pc' = [pc EXCEPT ![u] = "push"]
    /\ UNCHANGED <<turn, mine, invalid, answer, alive, linked, timed, closed, asked, coming,
                   m_conns, m_total>>
PushBack(u) ==
    /\ pc[u] = "push" /\ pc' = [pc EXCEPT ![u] = "idle"]
    /\ m_conns' = Append(m_conns, mine[u])
    /\ mine' = [mine EXCEPT ![u] = None]
    /\ UNCHANGED <<turn, invalid, answer, connVars, m_total>>

(***************************************************************************)
(* The rest of the world: the other end answers or closes; somebody who    *)
(* has the Socket of a connection (getSocket) closes it.                   *)
(***************************************************************************)
Answer(c) ==
    /\ c \in linked /\ asked[c] # << >>
    /\ coming' = [coming EXCEPT ![c] = Append(@, Head(asked[c]))]
    /\ asked' = [asked EXCEPT ![c] = Tail(@)]
    /\ UNCHANGED <<pc, turn, mine, invalid, answer, alive, linked, used, timed, closed,
                   m_conns, m_total>>
PeerCloses(c) ==
    /\ c \in linked \ closed /\ closed' = closed \cup {c}
    /\ asked' = [asked EXCEPT ![c] = << >>]
    /\ UNCHANGED <<pc, turn, mine, invalid, answer, alive, linked, used, timed, coming,
                   m_conns, m_total>>
CloseSocket(c) ==
    /\ c \in linked /\ linked' = linked \ {c}
    /\ UNCHANGED <<pc, turn, mine, invalid, answer, alive, used, timed, closed, asked, coming,
                   m_conns, m_total>>

\* The steps a user makes by itself, and those that wait for the other end.
OwnStep(u) ==
    \/ TakeFromPool(u) \/ DeleteInvalid(u) \/ CountInvalid(u) \/ ConnectFails(u)
    \/ Connect(u) \/ CountCreated(u) \/ (pc[u] = "send" /\ Send(u)) \/ SendSpins(u)
    \/ Receive(u) \/ ReceiveFails(u) \/ ReleaseDeletes(u) \/ CountDeleted(u) \/ ReleaseKeeps(u)
    \/ PushBack(u)
UserStep(u) == OwnStep(u) \/ Send(u) \/ SendWaits(u) \/ ReceivePart(u) \/ ReceiveHead(u)
Next ==
    \/ \E u \in Users : UserStep(u)
    \/ \E c \in Conns : Answer(c) \/ PeerCloses(c) \/ CloseSocket(c)

\* Threads run; the timer of SO_RCVTIMEO ends the wait of one read, so that a user who
\* is for ever between "recv" and "more" need not leave.  Nothing is assumed of the other
\* end.
Fairness ==
    \A u \in Users, place \in {"recv", "more"} : WF_vars(pc[u] # place /\ OwnStep(u))
Spec == Init /\ [][Next]_vars /\ Fairness

-----------------------------------------------------------------------------
TypeOK ==
    /\ pc \in [Users -> {"idle", "delete", "count", "connect", "created", "send", "sending",
                         "spin", "recv", "more", "body", "release", "deleted", "push"}]
    /\ turn \in [Users -> 0 .. MaxTurns]
    /\ mine \in [Users -> Conns \cup {None}]
    /\ invalid \in [Users -> SUBSET Conns]
    /\ alive \subseteq Conns /\ linked \subseteq alive
    /\ timed \subseteq alive /\ closed \subseteq alive
    /\ used \in [Conns -> 0 .. MaxRequest]
    /\ m_conns \in Seq(Conns) /\ m_total \in Int

Pooled == {m_conns[i] : i \in 1 .. Len(m_conns)}
\* Connections a user is about to delete.
Doomed(u) == IF pc[u] = "delete" THEN invalid[u] ELSE {}
Held(u) == IF mine[u] = None THEN {} ELSE {mine[u]}

\* Every HttpConnection that exists belongs to exactly one owner: it is in the
\* pool's list, once, or one user has it, or one user is about to delete it; and
\* none of them is deleted already (getConnection and ReleasePtr pass a bare
\* pointer from one to the other).
OneOwner ==
    /\ alive = Pooled \cup UNION {Held(u) \cup Doomed(u) : u \in Users}
    /\ \A i, j \in 1 .. Len(m_conns) : m_conns[i] = m_conns[j] => i = j
    /\ \A u, v \in Users :
          /\ Held(u) \cap Pooled = {} /\ Doomed(u) \cap Pooled = {}
          /\ Held(u) \cap Doomed(v) = {}
          /\ u # v => Held(u) \cap Held(v) = {} /\ Doomed(u) \cap Doomed(v) = {}

\* m_total counts the connections that exist, but for the ones created or deleted
\* whose counting is still to come: it never drifts, though no lock is held where
\* it changes (getConnection, ReleasePtr).
TotalExact ==
    LET uncounted == {u \in Users : pc[u] = "created"}
        gone == {u \in Users : pc[u] = "deleted"}
        deleted == UNION {invalid[u] \X {u} : u \in {v \in Users : pc[v] = "count"}}
    IN  m_total = Cardinality(alive) - Cardinality(uncounted) + Cardinality(gone)
                    + Cardinality(deleted)

\* A user is given the response to its own request unless a response was given up
\* on that connection before: recvResponse does not close the connection when it
\* times out, and ReleasePtr puts it back.
AnswerIsMine ==
    \A u \in Users :
        pc[u] \in {"release", "push"} /\ answer[u] \in Requests =>
            answer[u] = <<u, turn[u]>> \/ mine[u] \in timed

\* Every call of doRequest returns, also when the other end never answers: the
\* receive timeout set before the request is sent sees to it.  Four waits can keep it:
\* sending to an end that stays and does not read, sending on a connection that is closed,
\* receiving a body of which the other end, though it stays, does not send the rest, and
\* receiving, for ever, a head of which each part comes within the timeout.
EveryRequestReturns ==
    \A u \in Users :
        \/ pc[u] # "idle" ~>
              \/ pc[u] = "idle"
              \/ pc[u] = "sending" /\ mine[u] \in linked \ closed
              \/ pc[u] = "spin" /\ (mine[u] \in closed \/ mine[u] \notin linked)
              \/ pc[u] = "body"
        \/ []<><<ReceivePart(u)>>_vars
=============================================================================
