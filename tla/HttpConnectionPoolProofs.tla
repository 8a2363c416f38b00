----------------------- MODULE HttpConnectionPoolProofs -----------------------
(***************************************************************************)
(* Theorems about HttpConnectionPool, for any sets of users and            *)
(* connections, any number of requests and any m_maxRequest: every         *)
(* connection has one owner, m_total does not drift, and a user gets the   *)
(* answer to its own request.                                              *)
(***************************************************************************)
EXTENDS HttpConnectionPool, FiniteSetTheorems, SequenceTheorems, TLAPS

-----------------------------------------------------------------------------
(* The inductive invariant. *)

\* Where a user has a connection, and where it has none.
WithConn == {"created", "send", "sending", "spin", "recv", "more", "body", "release", "push"}
WithoutConn == {"idle", "connect", "deleted"}
PoolSteps == WithConn \cup WithoutConn \cup {"delete", "count"}

Messages == Users \X Nat
Answers == Messages \cup ({"none", "pool_get_connection", "timeout"} \X {0})

TypeInv ==
    /\ pc \in [Users -> PoolSteps] /\ turn \in [Users -> Nat]
    /\ mine \in [Users -> Conns \cup {None}]
    /\ invalid \in [Users -> SUBSET Conns]
    /\ alive \in SUBSET Conns /\ timed \in SUBSET Conns
    /\ asked \in [Conns -> Seq(Messages)] /\ coming \in [Conns -> Seq(Messages)]
    /\ m_conns \in Seq(Conns) /\ m_total \in Int
    /\ answer \in [Users -> Answers]

\* A user has a connection where doRequest uses one, and connections to delete
\* only while it deletes or counts them.
LocalInv ==
    \A u \in Users :
      /\ pc[u] \in WithConn => mine[u] # None
      /\ pc[u] \in WithoutConn => mine[u] = None
      /\ pc[u] \notin {"delete", "count"} => invalid[u] = {}

\* OneOwner, connection by connection.
Dooms(u, c) == pc[u] = "delete" /\ c \in invalid[u]

Distinct == \A i, j \in 1 .. Len(m_conns) : m_conns[i] = m_conns[j] => i = j

OwnerInv ==
    /\ Pooled \subseteq alive /\ Distinct
    /\ \A c \in alive :
         c \in Pooled \/ \E u \in Users : mine[u] = c \/ Dooms(u, c)
    /\ \A u \in Users : mine[u] # None => mine[u] \in alive /\ mine[u] \notin Pooled
    /\ \A u \in Users, c \in Conns :
         Dooms(u, c) => /\ c \in alive /\ c \notin Pooled
                        /\ \A v \in Users : mine[v] # c
    /\ \A u, v \in Users : u # v /\ mine[u] = mine[v] => mine[u] = None
    /\ \A u, v \in Users, c \in Conns : Dooms(u, c) /\ Dooms(v, c) => u = v

\* The parts of TotalExact, and that there are finitely many of each.
Uncounted == {u \in Users : pc[u] = "created"}
Gone == {u \in Users : pc[u] = "deleted"}
Deleted == UNION {invalid[u] \X {u} : u \in {v \in Users : pc[v] = "count"}}

TotalInv ==
    /\ IsFiniteSet(alive) /\ IsFiniteSet(Uncounted) /\ IsFiniteSet(Gone)
    /\ IsFiniteSet(Deleted) /\ TotalExact

\* What is under way on a connection on which no response was given up: nothing,
\* or the request of the user that waits on it or the response to that.
Quiet(c) == asked[c] = << >> /\ coming[c] = << >>

InReceive == {"recv", "more", "body"}
Exchange(u, c) ==
    /\ mine[u] = c /\ pc[u] \in InReceive
    /\ \/ asked[c] = <<<<u, turn[u]>>>> /\ coming[c] = << >>
       \/ asked[c] = << >> /\ coming[c] = <<<<u, turn[u]>>>>

EchoInv ==
    /\ timed \subseteq alive
    /\ \A c \in Conns : c \notin timed => Quiet(c) \/ \E u \in Users : Exchange(u, c)

IInv == TypeInv /\ LocalInv /\ OwnerInv /\ TotalInv /\ EchoInv /\ AnswerIsMine

\* The initial state satisfies the invariant.
LEMMA InitInv == Init => IInv
<1> SUFFICES ASSUME Init PROVE IInv
    OBVIOUS
<1>1. TypeInv
    BY PoolAssumption
    DEF Init, TypeInv, PoolSteps, WithConn, WithoutConn, Messages, Answers, NoAnswer
<1>2. LocalInv
    BY DEF Init, LocalInv, WithConn
<1>3. Len(m_conns) = 0 /\ Pooled = {}
    BY DEF Init, Pooled
<1>4. OwnerInv
    BY <1>3 DEF Init, OwnerInv, Distinct, Dooms
<1>5. TotalInv
  <2>1. alive = {} /\ Uncounted = {} /\ Gone = {} /\ Deleted = {} /\ m_total = 0
    BY DEF Init, Uncounted, Gone, Deleted
  <2>2. IsFiniteSet({}) /\ Cardinality({}) = 0
    BY FS_EmptySet
  <2> QED
    BY <2>1, <2>2 DEF TotalInv, TotalExact, Uncounted, Gone, Deleted
<1>6. EchoInv /\ AnswerIsMine
    BY DEF Init, EchoInv, Quiet, AnswerIsMine
<1> QED
    BY <1>1, <1>2, <1>4, <1>5, <1>6 DEF IInv

-----------------------------------------------------------------------------
(* The list of the pool. *)

\* A non-empty set of positions has a first one.
LEMMA FirstExists ==
    ASSUME NEW T, T \subseteq Nat, T # {}
    PROVE  \E x \in T : \A y \in T : x <= y
<1> DEFINE R == {ss \in Nat \X Nat : ss[1] < ss[2]}
<1>1. IsWellFoundedOn(R, Nat)
    BY NatLessThanWellFounded, Zenon DEF OpToRel
<1>2. \A i, j \in Nat : <<i, j>> \in R <=> i < j
    OBVIOUS
<1> HIDE DEF R
<1>3. PICK x \in T : \A y \in T : ~(<<y, x>> \in R)
    BY <1>1, WFMin
<1>4. ASSUME NEW y \in T PROVE x <= y
  <2>1. ~(y < x) /\ x \in Nat /\ y \in Nat
    BY <1>2, <1>3, Zenon
  <2> QED
    BY <2>1
<1> QED
    BY <1>4

\* What getConnection() takes from the pool under the lock: the connections in
\* front of the first good one, to be deleted, and that one if there is any.
Took(u) ==
    /\ m_conns' \in Seq(Conns) /\ Distinct'
    /\ invalid'[u] \subseteq Conns /\ mine'[u] \in Conns \cup {None}
    /\ \A c \in Conns : c \in Pooled <=> c \in Pooled' \/ c \in invalid'[u] \/ mine'[u] = c
    /\ mine'[u] \notin Pooled' /\ mine'[u] \notin invalid'[u]
    /\ \A c \in invalid'[u] : c \notin Pooled'

\* The scan partitions the list.
LEMMA TakeFacts ==
    ASSUME TypeInv, Distinct, NEW u \in Users, TakeFromPool(u)
    PROVE  Took(u)
<1> DEFINE L == Len(m_conns)
           good == {i \in 1 .. L : Good(m_conns[i])}
<1>0. /\ L \in Nat /\ m_conns \in Seq(Conns) /\ \A i \in 1 .. L : m_conns[i] \in Conns
      /\ invalid \in [Users -> SUBSET Conns] /\ mine \in [Users -> Conns \cup {None}]
    BY DEF TypeInv
<1>1. CASE good = {}
  <2>1. /\ m_conns' = << >> /\ mine'[u] = None
        /\ invalid'[u] = {m_conns[i] : i \in 1 .. L}
    BY <1>0, <1>1 DEF TakeFromPool
  <2>2. Pooled' = {} /\ Pooled = invalid'[u] /\ m_conns' \in Seq(Conns) /\ Len(m_conns') = 0
    BY <2>1 DEF Pooled
  <2>3. invalid'[u] \subseteq Conns /\ None \notin Conns
    BY <1>0, <2>1, PoolAssumption
  <2> QED
    BY <2>1, <2>2, <2>3 DEF Took, Distinct
<1>2. CASE good # {}
  <2> DEFINE k == CHOOSE i \in good : \A j \in good : i <= j
  <2>1. k \in 1 .. L
    <3>1. good \subseteq Nat
        BY <1>0
    <3>2. \E i \in good : \A j \in good : i <= j
        BY <1>2, <3>1, FirstExists
    <3>3. k \in good
        BY <3>2
    <3> QED
        BY <3>3
  <2>2. /\ m_conns' = SubSeq(m_conns, (k - 1) + 2, L) /\ mine'[u] = m_conns[(k - 1) + 1]
        /\ invalid'[u] = {m_conns[i] : i \in 1 .. (k - 1)}
    BY <1>0, <1>2 DEF TakeFromPool
  <2> HIDE DEF k
  <2>3. (k - 1) + 2 = k + 1 /\ (k - 1) + 1 = k /\ k \in Int /\ k <= L /\ k >= 1
    BY <1>0, <2>1
  <2>4. m_conns' = SubSeq(m_conns, k + 1, L) /\ mine'[u] = m_conns[k]
    BY <2>2, <2>3
  <2>5. /\ m_conns' \in Seq(Conns) /\ Len(m_conns') = L - k
        /\ \A i \in 1 .. (L - k) : m_conns'[i] = m_conns[k + i]
    <3>1. \A i \in (k + 1) .. L : m_conns[i] \in Conns
        BY <1>0, <2>3
    <3>2. /\ SubSeq(m_conns, k + 1, L) \in Seq(Conns)
          /\ Len(SubSeq(m_conns, k + 1, L)) = IF k + 1 <= L THEN L - (k + 1) + 1 ELSE 0
          /\ \A i \in 1 .. L - (k + 1) + 1 : SubSeq(m_conns, k + 1, L)[i] = m_conns[k + 1 + i - 1]
        BY <1>0, <2>3, <3>1, SubSeqProperties
    <3>3. L - (k + 1) + 1 = L - k /\ (~(k + 1 <= L) => L - k = 0)
        BY <1>0, <2>3
    <3>4. \A i \in 1 .. (L - k) : k + 1 + i - 1 = k + i
        BY <2>3
    <3> QED
        BY <2>4, <3>2, <3>3, <3>4
  <2>6. Distinct'
    BY <1>0, <2>3, <2>5 DEF Distinct
  <2>7. \A c : c \in Pooled' <=> \E i \in (k + 1) .. L : m_conns[i] = c
    <3>1. \A i \in (k + 1) .. L : i - k \in 1 .. (L - k) /\ k + (i - k) = i
        BY <1>0, <2>3
    <3>2. \A i \in 1 .. (L - k) : k + i \in (k + 1) .. L
        BY <1>0, <2>3
    <3> QED
        BY <2>5, <3>1, <3>2 DEF Pooled
  <2>8. \A c : c \in Pooled <=> \E i \in 1 .. L : m_conns[i] = c
    BY DEF Pooled
  <2>9. \A c : c \in invalid'[u] <=> \E i \in 1 .. (k - 1) : m_conns[i] = c
    BY <2>2
  <2>10. /\ 1 .. (k - 1) \subseteq 1 .. L /\ (k + 1) .. L \subseteq 1 .. L /\ k \in 1 .. L
         /\ \A i \in 1 .. L : i \in 1 .. (k - 1) \/ i = k \/ i \in (k + 1) .. L
         /\ k \notin 1 .. (k - 1) /\ k \notin (k + 1) .. L
         /\ \A i \in 1 .. (k - 1) : i \notin (k + 1) .. L
    BY <1>0, <2>3
  <2>11. \A c \in Conns : c \in Pooled <=> c \in Pooled' \/ c \in invalid'[u] \/ mine'[u] = c
    BY <2>4, <2>7, <2>8, <2>9, <2>10
  <2>12. mine'[u] \notin Pooled' /\ mine'[u] \notin invalid'[u]
         /\ \A c \in invalid'[u] : c \notin Pooled'
    <3>1. \A i, j \in 1 .. L : m_conns[i] = m_conns[j] => i = j
        BY DEF Distinct
    <3> QED
        BY <2>4, <2>7, <2>9, <2>10, <3>1
  <2>13. invalid'[u] \subseteq Conns /\ mine'[u] \in Conns
    <3>1. \A c \in invalid'[u] : c \in Conns
        BY <1>0, <2>9, <2>10
    <3>2. mine'[u] \in Conns
        BY <1>0, <2>4, <2>10
    <3> QED
        BY <3>1, <3>2
  <2> QED
    BY <2>5, <2>6, <2>11, <2>12, <2>13 DEF Took
<1> QED
    BY <1>1, <1>2

\* ReleasePtr() pushes a connection back that is not in the list.
LEMMA PushFacts ==
    ASSUME TypeInv, Distinct, NEW c \in Conns, c \notin Pooled, m_conns' = Append(m_conns, c)
    PROVE  /\ m_conns' \in Seq(Conns) /\ Distinct'
           /\ \A d : d \in Pooled' <=> d \in Pooled \/ d = c
<1> DEFINE L == Len(m_conns)
<1>1. m_conns \in Seq(Conns) /\ L \in Nat
    BY DEF TypeInv
<1>2. /\ m_conns' \in Seq(Conns) /\ Len(m_conns') = L + 1 /\ m_conns'[L + 1] = c
      /\ \A i \in 1 .. L : m_conns'[i] = m_conns[i]
    BY <1>1, AppendProperties
<1>3. \A d : d \in Pooled <=> \E i \in 1 .. L : m_conns[i] = d
    BY DEF Pooled
<1>4. \A d : d \in Pooled' <=> \E i \in 1 .. (L + 1) : m_conns'[i] = d
    BY <1>2 DEF Pooled
<1>5. \A i \in 1 .. (L + 1) : i \in 1 .. L \/ i = L + 1
    BY <1>1
<1>6. 1 .. L \subseteq 1 .. (L + 1) /\ L + 1 \in 1 .. (L + 1)
    BY <1>1
<1>7. \A d : d \in Pooled' <=> d \in Pooled \/ d = c
    BY <1>2, <1>3, <1>4, <1>5, <1>6
<1>8. Distinct'
    BY <1>2, <1>3, <1>5 DEF Distinct
<1> QED
    BY <1>2, <1>7, <1>8

-----------------------------------------------------------------------------
(* Preservation of the invariant, conjunct by conjunct. *)

\* Every step keeps the types.
LEMMA NextType == IInv /\ [Next]_vars => TypeInv'
<1> SUFFICES ASSUME IInv, [Next]_vars PROVE TypeInv'
    OBVIOUS
<1> USE DEF TypeInv
<1>0. TypeInv /\ LocalInv /\ Distinct
    BY DEF IInv, OwnerInv
<1>1. ASSUME NEW u \in Users, NEW step \in PoolSteps, pc' = [pc EXCEPT ![u] = step]
      PROVE  pc' \in [Users -> PoolSteps]
    BY <1>0, <1>1
<1>2. \A s \in {"idle", "delete", "count", "connect", "created", "send", "sending", "spin",
                "recv", "more", "body", "release", "deleted", "push"} : s \in PoolSteps
    BY DEF PoolSteps, WithConn, WithoutConn
<1>3. ASSUME NEW S, Delete(S)
      PROVE  /\ alive' \in SUBSET Conns /\ timed' \in SUBSET Conns
             /\ asked' \in [Conns -> Seq(Messages)] /\ coming' \in [Conns -> Seq(Messages)]
    BY <1>0, <1>3 DEF Delete
<1>4. ASSUME NEW u \in Users, TakeFromPool(u) PROVE TypeInv'
  <2>d. Took(u)
    BY <1>0, <1>4, TakeFacts
  <2>0. pc' = [pc EXCEPT ![u] = "delete"] /\ turn' = [turn EXCEPT ![u] = @ + 1]
    BY <1>4 DEF TakeFromPool
  <2>1. turn' \in [Users -> Nat] /\ pc' \in [Users -> PoolSteps]
    BY <1>0, <1>1, <1>2, <2>0
  <2>a. answer' \in [Users -> Answers]
    BY <1>0, <1>4 DEF TakeFromPool, NoAnswer, Answers
  <2>2. invalid' \in [Users -> SUBSET Conns]
    BY <1>0, <1>4, <2>d DEF TakeFromPool, Took
  <2>3. mine' \in [Users -> Conns \cup {None}]
    BY <1>0, <1>4, <2>d DEF TakeFromPool, Took
  <2>4. m_conns' \in Seq(Conns)
    BY <2>d DEF Took
  <2> QED
    BY <1>0, <1>4, <2>1, <2>2, <2>3, <2>4, <2>a DEF TakeFromPool, connVars
<1>5. ASSUME NEW u \in Users, DeleteInvalid(u) PROVE TypeInv'
    BY <1>0, <1>1, <1>2, <1>3, <1>5 DEF DeleteInvalid
<1>6. ASSUME NEW u \in Users, CountInvalid(u) PROVE TypeInv'
  <2>1. Cardinality(invalid[u]) \in Nat
    <3>1. CASE invalid[u] = {}
        BY <3>1, FS_EmptySet
    <3>2. CASE invalid[u] # {}
      <4>1. IsFiniteSet(invalid[u] \X {u})
        <5>1. invalid[u] \X {u} \in SUBSET Deleted /\ IsFiniteSet(Deleted)
            BY <1>6 DEF CountInvalid, Deleted, IInv, TotalInv
        <5> QED
            BY <5>1, FS_Subset
      <4>2. [c \in invalid[u] |-> <<c, u>>] \in Injection(invalid[u], invalid[u] \X {u})
        BY DEF Injection, IsInjective
      <4>3. IsFiniteSet(invalid[u])
        BY <4>1, <4>2, FS_Injection
      <4> QED
        BY <4>3, FS_CardinalityType
    <3> QED
        BY <3>1, <3>2
  <2>2. m_total' \in Int /\ invalid' \in [Users -> SUBSET Conns]
    BY <1>0, <1>6, <2>1 DEF CountInvalid
  <2>3. pc' \in [Users -> PoolSteps]
    BY <1>0, <1>1, <1>2, <1>6 DEF CountInvalid
  <2> QED
    BY <1>0, <1>6, <2>2, <2>3 DEF CountInvalid, connVars
<1>7. ASSUME NEW u \in Users, ConnectFails(u) \/ CountCreated(u) \/ CountDeleted(u) PROVE TypeInv'
  <2>1. <<"pool_get_connection", 0>> \in Answers
    BY DEF Answers
  <2>2. answer' \in [Users -> Answers]
    BY <1>0, <1>7, <2>1 DEF ConnectFails, CountCreated, CountDeleted
  <2>3. pc' \in [Users -> PoolSteps]
    BY <1>1, <1>2, <1>7 DEF ConnectFails, CountCreated, CountDeleted
  <2>4. m_total' \in Int
    BY <1>0, <1>7 DEF ConnectFails, CountCreated, CountDeleted
  <2> QED
    BY <1>0, <1>7, <2>2, <2>3, <2>4 DEF ConnectFails, CountCreated, CountDeleted, connVars
<1>8. ASSUME NEW u \in Users, Connect(u) PROVE TypeInv'
    BY <1>0, <1>1, <1>2, <1>8 DEF Connect
<1>9. ASSUME NEW u \in Users, Send(u) PROVE TypeInv'
  <2>1. <<u, turn[u]>> \in Messages
    BY <1>0 DEF Messages
  <2>2. mine[u] \in Conns
    BY <1>0, <1>9 DEF Send, LocalInv, WithConn
  <2>3. Append(asked[mine[u]], <<u, turn[u]>>) \in Seq(Messages)
    BY <1>0, <2>1, <2>2, AppendProperties
  <2>4. asked' \in [Conns -> Seq(Messages)]
    BY <1>0, <1>9, <2>2, <2>3 DEF Send
  <2> QED
    BY <1>0, <1>1, <1>2, <1>9, <2>4 DEF Send
<1>10. ASSUME NEW u \in Users,
              SendSpins(u) \/ SendWaits(u) \/ ReceivePart(u) \/ ReceiveHead(u)
       PROVE  TypeInv'
    BY <1>0, <1>1, <1>2, <1>10 DEF SendSpins, ReceiveHead, ReceivePart, SendWaits, connVars
<1>11. ASSUME NEW u \in Users, Receive(u) PROVE TypeInv'
  <2>1. mine[u] \in Conns
    BY <1>0, <1>11 DEF Receive, LocalInv, WithConn
  <2>2. Tail(coming[mine[u]]) \in Seq(Messages) /\ Head(coming[mine[u]]) \in Messages
    BY <1>0, <1>11, <2>1, HeadTailProperties DEF Receive
  <2>3. coming' \in [Conns -> Seq(Messages)]
    BY <1>0, <1>11, <2>1, <2>2 DEF Receive
  <2>4. answer' \in [Users -> Answers]
    BY <1>0, <1>11, <2>2 DEF Receive, Answers
  <2> QED
    BY <1>0, <1>1, <1>2, <1>11, <2>3, <2>4 DEF Receive
<1>12. ASSUME NEW u \in Users, ReceiveFails(u) PROVE TypeInv'
  <2>1. mine[u] \in Conns
    BY <1>0, <1>12 DEF ReceiveFails, LocalInv, WithConn
  <2>2. answer' \in [Users -> Answers]
    BY <1>0, <1>12 DEF ReceiveFails, Answers
  <2> QED
    BY <1>0, <1>1, <1>2, <1>12, <2>1, <2>2 DEF ReceiveFails
<1>13. ASSUME NEW u \in Users, ReleaseDeletes(u) PROVE TypeInv'
    BY <1>0, <1>1, <1>2, <1>3, <1>13 DEF ReleaseDeletes
<1>14. ASSUME NEW u \in Users, ReleaseKeeps(u) PROVE TypeInv'
    BY <1>0, <1>1, <1>2, <1>14 DEF ReleaseKeeps
<1>15. ASSUME NEW u \in Users, PushBack(u) PROVE TypeInv'
  <2>1. mine[u] \in Conns
    BY <1>0, <1>15 DEF PushBack, LocalInv, WithConn
  <2>2. m_conns' \in Seq(Conns)
    BY <1>0, <1>15, <2>1, AppendProperties DEF PushBack
  <2>3. mine' \in [Users -> Conns \cup {None}] /\ pc' \in [Users -> PoolSteps]
    BY <1>0, <1>1, <1>2, <1>15 DEF PushBack
  <2> QED
    BY <1>0, <1>15, <2>2, <2>3 DEF PushBack, connVars
<1>16. ASSUME NEW c \in Conns, Answer(c) PROVE TypeInv'
  <2>1. Head(asked[c]) \in Messages /\ Tail(asked[c]) \in Seq(Messages)
    BY <1>0, <1>16, HeadTailProperties DEF Answer
  <2>2. Append(coming[c], Head(asked[c])) \in Seq(Messages)
    BY <1>0, <2>1, AppendProperties
  <2>3. coming' \in [Conns -> Seq(Messages)] /\ asked' \in [Conns -> Seq(Messages)]
    BY <1>0, <1>16, <2>1, <2>2 DEF Answer
  <2> QED
    BY <1>0, <1>16, <2>3 DEF Answer
<1>17. ASSUME NEW c \in Conns, PeerCloses(c) PROVE TypeInv'
    BY <1>0, <1>17 DEF PeerCloses
<1>18. ASSUME NEW c \in Conns, CloseSocket(c) PROVE TypeInv'
    BY <1>0, <1>18 DEF CloseSocket
<1>19. CASE UNCHANGED vars
    BY <1>0, <1>19 DEF vars, connVars
<1> QED
    BY <1>4, <1>5, <1>6, <1>7, <1>8, <1>9, <1>10, <1>11, <1>12, <1>13, <1>14, <1>15, <1>16,
       <1>17, <1>18, <1>19 DEF Next, UserStep, OwnStep

\* A user has a connection where it needs one.
LEMMA NextLocal == IInv /\ [Next]_vars => LocalInv'
<1> SUFFICES ASSUME IInv, [Next]_vars PROVE LocalInv'
    OBVIOUS
<1>0. /\ LocalInv /\ pc \in [Users -> PoolSteps] /\ mine \in [Users -> Conns \cup {None}]
      /\ invalid \in [Users -> SUBSET Conns] /\ None \notin Conns
    BY PoolAssumption DEF IInv, TypeInv
<1> USE DEF WithConn, WithoutConn
<1>1. ASSUME NEW u \in Users, TakeFromPool(u) PROVE LocalInv'
  <2>1. /\ pc' = [pc EXCEPT ![u] = "delete"]
        /\ \A v \in Users : v # u => mine'[v] = mine[v] /\ invalid'[v] = invalid[v]
    BY <1>0, <1>1 DEF TakeFromPool
  <2> QED
    BY <1>0, <2>1 DEF LocalInv
<1>2. ASSUME NEW u \in Users, DeleteInvalid(u) PROVE LocalInv'
    BY <1>0, <1>2 DEF DeleteInvalid, LocalInv
<1>3. ASSUME NEW u \in Users, CountInvalid(u) PROVE LocalInv'
    BY <1>0, <1>3 DEF CountInvalid, LocalInv
<1>4. ASSUME NEW u \in Users, ConnectFails(u) \/ CountCreated(u) \/ CountDeleted(u) PROVE LocalInv'
    BY <1>0, <1>4 DEF ConnectFails, CountCreated, CountDeleted, LocalInv
<1>5. ASSUME NEW u \in Users, Connect(u) PROVE LocalInv'
    BY <1>0, <1>5 DEF Connect, LocalInv
<1>6. ASSUME NEW u \in Users,
             Send(u) \/ SendSpins(u) \/ SendWaits(u) \/ ReceivePart(u) \/ ReceiveHead(u)
      PROVE  LocalInv'
    BY <1>0, <1>6 DEF Send, SendSpins, ReceiveHead, ReceivePart, SendWaits, LocalInv
<1>7. ASSUME NEW u \in Users, Receive(u) \/ ReceiveFails(u) PROVE LocalInv'
    BY <1>0, <1>7 DEF Receive, ReceiveFails, LocalInv
<1>8. ASSUME NEW u \in Users, ReleaseDeletes(u) \/ PushBack(u) PROVE LocalInv'
    BY <1>0, <1>8 DEF ReleaseDeletes, PushBack, LocalInv
<1>9. ASSUME NEW u \in Users, ReleaseKeeps(u) PROVE LocalInv'
    BY <1>0, <1>9 DEF ReleaseKeeps, LocalInv
<1>10. ASSUME NEW c \in Conns, Answer(c) \/ PeerCloses(c) \/ CloseSocket(c) PROVE LocalInv'
    BY <1>0, <1>10 DEF Answer, PeerCloses, CloseSocket, LocalInv
<1>11. CASE UNCHANGED vars
    BY <1>0, <1>11 DEF vars, LocalInv
<1> QED
    BY <1>1, <1>2, <1>3, <1>4, <1>5, <1>6, <1>7, <1>8, <1>9, <1>10, <1>11
    DEF Next, UserStep, OwnStep

\* A connection passes from one owner to the next.
LEMMA NextOwner == IInv /\ [Next]_vars => OwnerInv'
<1> SUFFICES ASSUME IInv, [Next]_vars PROVE OwnerInv'
    OBVIOUS
<1>0. /\ TypeInv /\ LocalInv /\ OwnerInv /\ pc \in [Users -> PoolSteps]
      /\ mine \in [Users -> Conns \cup {None}] /\ invalid \in [Users -> SUBSET Conns]
      /\ alive \in SUBSET Conns /\ None \notin Conns
    BY PoolAssumption DEF IInv, TypeInv
<1>1. ASSUME UNCHANGED <<mine, invalid, alive, m_conns>>,
             \A v \in Users : pc'[v] = "delete" <=> pc[v] = "delete"
      PROVE  OwnerInv'
  <2>1. UNCHANGED <<Pooled, Distinct>>
    BY <1>1 DEF Pooled, Distinct
  <2>2. \A u \in Users, c \in Conns : Dooms(u, c)' <=> Dooms(u, c)
    BY <1>1 DEF Dooms
  <2> QED
    BY <1>0, <1>1, <2>1, <2>2 DEF OwnerInv
<1>2. ASSUME NEW u \in Users, TakeFromPool(u) PROVE OwnerInv'
  <2>d. Took(u)
    BY <1>0, <1>2, TakeFacts DEF OwnerInv
  <2>1. /\ pc[u] = "idle" /\ mine[u] = None /\ UNCHANGED alive
        /\ \A v \in Users : v # u => mine'[v] = mine[v]
    BY <1>0, <1>2 DEF TakeFromPool, LocalInv, WithoutConn, connVars
  <2>2. \A c \in Conns : ~Dooms(u, c) /\ (Dooms(u, c)' <=> c \in invalid'[u])
    BY <1>0, <1>2 DEF TakeFromPool, Dooms
  <2>3. \A v \in Users, c \in Conns : v # u => (Dooms(v, c)' <=> Dooms(v, c))
    BY <1>0, <1>2 DEF TakeFromPool, Dooms
  <2>4. \A c \in Conns : c \in Pooled <=> c \in Pooled' \/ c \in invalid'[u] \/ mine'[u] = c
    BY <2>d DEF Took
  <2>5. /\ mine'[u] \notin Pooled' /\ mine'[u] \notin invalid'[u]
        /\ \A c \in invalid'[u] : c \notin Pooled'
        /\ invalid'[u] \subseteq Conns /\ mine'[u] \in Conns \cup {None}
        /\ m_conns' \in Seq(Conns) /\ Distinct'
    BY <2>d DEF Took
  <2>6. Pooled' \subseteq Conns
    BY <2>5 DEF Pooled
  <2>7. Pooled' \subseteq alive' /\ Distinct'
    BY <1>0, <2>1, <2>4, <2>5, <2>6 DEF OwnerInv
  <2>8. \A c \in alive' :
          c \in Pooled' \/ \E v \in Users : mine'[v] = c \/ Dooms(v, c)'
    <3> SUFFICES ASSUME NEW c \in alive, c \notin Pooled',
                        \A v \in Users : mine'[v] # c /\ ~Dooms(v, c)'
                 PROVE  FALSE
        BY <2>1
    <3>1. c \in Conns /\ c \notin Pooled
        BY <1>0, <2>2, <2>4
    <3>2. PICK v \in Users : mine[v] = c \/ Dooms(v, c)
        BY <1>0, <3>1 DEF OwnerInv
    <3>3. v # u
        BY <1>0, <2>1, <2>2, <3>1, <3>2
    <3> QED
        BY <2>1, <2>3, <3>1, <3>2, <3>3
  <2>9. \A v \in Users : mine'[v] # None => mine'[v] \in alive' /\ mine'[v] \notin Pooled'
    BY <1>0, <2>1, <2>4, <2>5, <2>6 DEF OwnerInv
  <2>10. \A v \in Users, c \in Conns :
           Dooms(v, c)' => /\ c \in alive' /\ c \notin Pooled'
                           /\ \A w \in Users : mine'[w] # c
    BY <1>0, <2>1, <2>2, <2>3, <2>4, <2>5 DEF OwnerInv
  <2>11. \A v, w \in Users : v # w /\ mine'[v] = mine'[w] => mine'[v] = None
    BY <1>0, <2>1, <2>4, <2>5 DEF OwnerInv
  <2>12. \A v, w \in Users, c \in Conns : Dooms(v, c)' /\ Dooms(w, c)' => v = w
    BY <1>0, <2>2, <2>3, <2>4 DEF OwnerInv
  <2> QED
    BY <2>7, <2>8, <2>9, <2>10, <2>11, <2>12 DEF OwnerInv
<1>3. ASSUME NEW u \in Users, DeleteInvalid(u) PROVE OwnerInv'
  <2>1. /\ pc[u] = "delete" /\ alive' = alive \ invalid[u] /\ UNCHANGED <<mine, invalid, m_conns>>
        /\ pc' = [pc EXCEPT ![u] = "count"]
    BY <1>3 DEF DeleteInvalid, Delete
  <2>2. \A c \in Conns : ~Dooms(u, c)' /\ (Dooms(u, c) <=> c \in invalid[u])
    BY <1>0, <2>1 DEF Dooms
  <2>3. \A v \in Users, c \in Conns : v # u => (Dooms(v, c)' <=> Dooms(v, c))
    BY <1>0, <2>1 DEF Dooms
  <2>4. UNCHANGED <<Pooled, Distinct>>
    BY <2>1 DEF Pooled, Distinct
  <2>5. \A c \in alive' :
          c \in Pooled' \/ \E v \in Users : mine'[v] = c \/ Dooms(v, c)'
    BY <1>0, <2>1, <2>2, <2>3, <2>4 DEF OwnerInv
  <2>6. Pooled' \subseteq alive' /\ Distinct'
    BY <1>0, <2>1, <2>2, <2>4 DEF OwnerInv
  <2>7. \A v \in Users : mine'[v] # None => mine'[v] \in alive' /\ mine'[v] \notin Pooled'
    BY <1>0, <2>1, <2>2, <2>4 DEF OwnerInv
  <2> QED
    BY <1>0, <2>1, <2>2, <2>3, <2>4, <2>5, <2>6, <2>7 DEF OwnerInv
<1>4. ASSUME NEW u \in Users, Connect(u) PROVE OwnerInv'
  <2>1. PICK c \in Conns \ alive : alive' = alive \cup {c} /\ mine' = [mine EXCEPT ![u] = c]
    BY <1>4 DEF Connect
  <2>2. /\ mine[u] = None /\ UNCHANGED <<Pooled, Distinct>>
        /\ \A v \in Users, d \in Conns : Dooms(v, d)' <=> Dooms(v, d)
    BY <1>0, <1>4 DEF Connect, LocalInv, WithoutConn, Pooled, Distinct, Dooms
  <2>3. mine'[u] = c /\ \A v \in Users : v # u => mine'[v] = mine[v]
    BY <1>0, <2>1
  <2> QED
    BY <1>0, <2>1, <2>2, <2>3 DEF OwnerInv
<1>5. ASSUME NEW u \in Users, ReleaseDeletes(u) PROVE OwnerInv'
  <2>1. /\ alive' = alive \ {mine[u]} /\ mine' = [mine EXCEPT ![u] = None] /\ mine[u] # None
        /\ UNCHANGED <<Pooled, Distinct>>
        /\ \A v \in Users, d \in Conns : Dooms(v, d)' <=> Dooms(v, d)
    BY <1>0, <1>5 DEF ReleaseDeletes, Delete, LocalInv, WithConn, Pooled, Distinct, Dooms
  <2>2. mine'[u] = None /\ \A v \in Users : v # u => mine'[v] = mine[v]
    BY <1>0, <2>1
  <2>3. \A c \in alive' :
          c \in Pooled' \/ \E v \in Users : mine'[v] = c \/ Dooms(v, c)'
    BY <1>0, <2>1, <2>2 DEF OwnerInv
  <2> QED
    BY <1>0, <2>1, <2>2, <2>3 DEF OwnerInv
<1>6. ASSUME NEW u \in Users, PushBack(u) PROVE OwnerInv'
  <2>1. /\ m_conns' = Append(m_conns, mine[u]) /\ mine' = [mine EXCEPT ![u] = None]
        /\ mine[u] \in Conns /\ UNCHANGED alive
        /\ \A v \in Users, d \in Conns : Dooms(v, d)' <=> Dooms(v, d)
    BY <1>0, <1>6 DEF PushBack, LocalInv, WithConn, Dooms, connVars
  <2>2. mine'[u] = None /\ \A v \in Users : v # u => mine'[v] = mine[v]
    BY <1>0, <2>1
  <2>3. Distinct' /\ \A d : d \in Pooled' <=> d \in Pooled \/ d = mine[u]
    BY <1>0, <2>1, PushFacts DEF OwnerInv
  <2>4. \A c \in alive' :
          c \in Pooled' \/ \E v \in Users : mine'[v] = c \/ Dooms(v, c)'
    BY <1>0, <2>1, <2>2, <2>3 DEF OwnerInv
  <2> QED
    BY <1>0, <2>1, <2>2, <2>3, <2>4 DEF OwnerInv
<1>7. ASSUME NEW u \in Users,
             CountInvalid(u)
      PROVE  OwnerInv'
  <2>1. /\ pc[u] = "count" /\ UNCHANGED <<mine, alive, m_conns>>
        /\ \A v \in Users : v # u => invalid'[v] = invalid[v]
        /\ \A v \in Users : pc'[v] = "delete" <=> pc[v] = "delete"
    BY <1>0, <1>7 DEF CountInvalid, connVars
  <2>2. \A v \in Users, c \in Conns : Dooms(v, c)' <=> Dooms(v, c)
    BY <2>1 DEF Dooms
  <2>3. UNCHANGED <<Pooled, Distinct>>
    BY <2>1 DEF Pooled, Distinct
  <2> QED
    BY <1>0, <2>1, <2>2, <2>3 DEF OwnerInv
<1>8. ASSUME NEW u \in Users,
             \/ ConnectFails(u) \/ CountCreated(u) \/ CountDeleted(u)
             \/ SendSpins(u) \/ SendWaits(u) \/ ReceivePart(u) \/ ReceiveHead(u)
      PROVE  OwnerInv'
    BY <1>0, <1>1, <1>8
    DEF ConnectFails, CountCreated, CountDeleted, SendSpins, SendWaits, ReceivePart, ReceiveHead,
        connVars
<1>9. ASSUME NEW u \in Users, Send(u) \/ Receive(u) \/ ReceiveFails(u) \/ ReleaseKeeps(u)
      PROVE  OwnerInv'
    BY <1>0, <1>1, <1>9 DEF Send, Receive, ReceiveFails, ReleaseKeeps
<1>10. ASSUME NEW c \in Conns, Answer(c) \/ PeerCloses(c) \/ CloseSocket(c) PROVE OwnerInv'
    BY <1>1, <1>10 DEF Answer, PeerCloses, CloseSocket
<1>11. CASE UNCHANGED vars
    BY <1>1, <1>11 DEF vars, connVars
<1> QED
    BY <1>2, <1>3, <1>4, <1>5, <1>6, <1>7, <1>8, <1>9, <1>10, <1>11
    DEF Next, UserStep, OwnStep

-----------------------------------------------------------------------------
(* m_total. *)

\* m_total follows the connections that are made, deleted and counted off.
LEMMA NextTotal == IInv /\ [Next]_vars => TotalInv'
<1> SUFFICES ASSUME IInv, [Next]_vars PROVE TotalInv'
    OBVIOUS
<1>0. /\ TypeInv /\ LocalInv /\ OwnerInv /\ TotalInv /\ pc \in [Users -> PoolSteps]
      /\ mine \in [Users -> Conns \cup {None}] /\ invalid \in [Users -> SUBSET Conns]
      /\ alive \in SUBSET Conns /\ None \notin Conns /\ m_total \in Int
    BY PoolAssumption DEF IInv, TypeInv
<1> DEFINE Total == Cardinality(alive) - Cardinality(Uncounted) + Cardinality(Gone)
                    + Cardinality(Deleted)
<1>a. /\ Cardinality(alive) \in Nat /\ Cardinality(Uncounted) \in Nat
       /\ Cardinality(Gone) \in Nat /\ Cardinality(Deleted) \in Nat
    BY <1>0, FS_CardinalityType DEF TotalInv
<1>b. m_total = Total
    BY <1>0 DEF TotalInv, TotalExact, Uncounted, Gone, Deleted
<1>c. ASSUME IsFiniteSet(alive'), IsFiniteSet(Uncounted'), IsFiniteSet(Gone'),
              IsFiniteSet(Deleted'),
              m_total' = Cardinality(alive') - Cardinality(Uncounted') + Cardinality(Gone')
                           + Cardinality(Deleted')
       PROVE  TotalInv'
    BY <1>c DEF TotalInv, TotalExact, Uncounted, Gone, Deleted
<1>1. ASSUME UNCHANGED <<alive, invalid, m_total>>,
             \A v \in Users : \A s \in {"created", "deleted", "count"} : pc'[v] = s <=> pc[v] = s
      PROVE  TotalInv'
  <2>1. Uncounted' = Uncounted /\ Gone' = Gone /\ Deleted' = Deleted
    BY <1>1 DEF Uncounted, Gone, Deleted
  <2> QED
    BY <1>0, <1>b, <1>c, <1>1, <2>1 DEF TotalInv
<1>2. ASSUME NEW u \in Users, TakeFromPool(u) PROVE TotalInv'
  <2>1. /\ UNCHANGED <<alive, m_total>> /\ pc[u] = "idle" /\ pc' = [pc EXCEPT ![u] = "delete"]
        /\ \A v \in Users : v # u => invalid'[v] = invalid[v]
    BY <1>0, <1>2 DEF TakeFromPool, connVars
  <2>2. Uncounted' = Uncounted /\ Gone' = Gone
    BY <1>0, <2>1 DEF Uncounted, Gone
  <2>3. Deleted' = Deleted
    BY <1>0, <2>1 DEF Deleted
  <2> QED
    BY <1>0, <1>b, <1>c, <2>1, <2>2, <2>3 DEF TotalInv
<1>3. ASSUME NEW u \in Users, IsFiniteSet(invalid[u])
      PROVE  IsFiniteSet(invalid[u] \X {u})
             /\ Cardinality(invalid[u] \X {u}) = Cardinality(invalid[u])
             /\ Cardinality(invalid[u]) \in Nat
  <2>1. IsFiniteSet({u}) /\ Cardinality({u}) = 1
    BY FS_Singleton
  <2>2. Cardinality(invalid[u]) \in Nat
    BY <1>3, FS_CardinalityType
  <2>3. IsFiniteSet(invalid[u] \X {u})
        /\ Cardinality(invalid[u] \X {u}) = Cardinality(invalid[u]) * Cardinality({u})
    BY <1>3, <2>1, FS_Product
  <2> QED
    BY <2>1, <2>2, <2>3
<1>4. ASSUME NEW u \in Users, DeleteInvalid(u) PROVE TotalInv'
  <2>1. /\ pc[u] = "delete" /\ alive' = alive \ invalid[u] /\ UNCHANGED <<invalid, m_total>>
        /\ pc' = [pc EXCEPT ![u] = "count"]
    BY <1>4 DEF DeleteInvalid, Delete
  <2>2. Uncounted' = Uncounted /\ Gone' = Gone
    BY <1>0, <2>1 DEF Uncounted, Gone
  <2>3. Deleted' = Deleted \cup (invalid[u] \X {u}) /\ Deleted \cap (invalid[u] \X {u}) = {}
    BY <1>0, <2>1 DEF Deleted
  <2>4. invalid[u] \in SUBSET alive
    <3>1. \A c \in invalid[u] : c \in Conns /\ Dooms(u, c)
        BY <1>0, <2>1 DEF Dooms
    <3> QED
        BY <1>0, <3>1 DEF OwnerInv
  <2>5. IsFiniteSet(invalid[u])
    BY <1>0, <2>4, FS_Subset DEF TotalInv
  <2>6. IsFiniteSet(alive') /\ Cardinality(alive') = Cardinality(alive) - Cardinality(invalid[u])
    <3>1. IsFiniteSet(alive \ invalid[u])
          /\ Cardinality(alive \ invalid[u]) = Cardinality(alive) - Cardinality(alive \cap invalid[u])
        BY <1>0, FS_Difference DEF TotalInv
    <3>2. alive \cap invalid[u] = invalid[u]
        BY <2>4
    <3> QED
        BY <2>1, <3>1, <3>2
  <2>7. IsFiniteSet(Deleted')
        /\ Cardinality(Deleted') = Cardinality(Deleted) + Cardinality(invalid[u])
    <3> DEFINE pairs == invalid[u] \X {u}
    <3>1. IsFiniteSet(pairs) /\ Cardinality(pairs) = Cardinality(invalid[u])
        BY <1>3, <2>5
    <3>2. Deleted' = Deleted \cup pairs /\ Deleted \cap pairs = {}
        BY <2>3
    <3> HIDE DEF pairs
    <3>3. IsFiniteSet(Deleted \cup pairs)
          /\ Cardinality(Deleted \cup pairs)
               = Cardinality(Deleted) + Cardinality(pairs) - Cardinality(Deleted \cap pairs)
        BY <1>0, <3>1, FS_Union DEF TotalInv
    <3>4. Cardinality({}) = 0 /\ Cardinality(pairs) \in Nat
        BY <3>1, FS_EmptySet, FS_CardinalityType
    <3> QED
        BY <1>a, <3>1, <3>2, <3>3, <3>4
  <2>8. Cardinality(invalid[u]) \in Nat
    BY <2>5, FS_CardinalityType
  <2>9. IsFiniteSet(Uncounted') /\ IsFiniteSet(Gone')
    BY <1>0, <2>2 DEF TotalInv
  <2> QED
    BY <1>a, <1>b, <1>c, <2>1, <2>2, <2>6, <2>7, <2>8, <2>9
<1>5. ASSUME NEW u \in Users, CountInvalid(u) PROVE TotalInv'
  <2>1. /\ pc[u] = "count" /\ UNCHANGED alive /\ m_total' = m_total - Cardinality(invalid[u])
        /\ invalid' = [invalid EXCEPT ![u] = {}]
        /\ pc' \in {[pc EXCEPT ![u] = "connect"], [pc EXCEPT ![u] = "send"]}
    BY <1>5 DEF CountInvalid, connVars
  <2>2. Uncounted' = Uncounted /\ Gone' = Gone
    BY <1>0, <2>1 DEF Uncounted, Gone
  <2> DEFINE pairs == invalid[u] \X {u}
  <2>3. Deleted' = Deleted \ pairs /\ pairs \in SUBSET Deleted
    BY <1>0, <2>1 DEF Deleted
  <2>4. IsFiniteSet(pairs)
    BY <1>0, <2>3, FS_Subset DEF TotalInv
  <2>5. IsFiniteSet(invalid[u])
    <3>1. [c \in invalid[u] |-> <<c, u>>] \in Injection(invalid[u], invalid[u] \X {u})
        BY DEF Injection, IsInjective
    <3> QED
        BY <2>4, <3>1, FS_Injection
  <2>6. Cardinality(pairs) = Cardinality(invalid[u]) /\ Cardinality(invalid[u]) \in Nat
    BY <1>3, <2>5
  <2> HIDE DEF pairs
  <2>7. IsFiniteSet(Deleted \ pairs)
        /\ Cardinality(Deleted \ pairs) = Cardinality(Deleted) - Cardinality(Deleted \cap pairs)
    BY <1>0, FS_Difference DEF TotalInv
  <2>8. Deleted \cap pairs = pairs
    BY <2>3
  <2>9. IsFiniteSet(Uncounted') /\ IsFiniteSet(Gone') /\ IsFiniteSet(alive') /\ IsFiniteSet(Deleted')
        /\ Cardinality(Deleted') = Cardinality(Deleted) - Cardinality(invalid[u])
    BY <1>0, <2>1, <2>2, <2>3, <2>6, <2>7, <2>8 DEF TotalInv
  <2> QED
    BY <1>a, <1>b, <1>c, <2>1, <2>2, <2>6, <2>9
<1>6. ASSUME NEW u \in Users, Connect(u) PROVE TotalInv'
  <2>1. PICK c \in Conns \ alive : alive' = alive \cup {c}
    BY <1>6 DEF Connect
  <2>2. /\ pc[u] = "connect" /\ pc' = [pc EXCEPT ![u] = "created"] /\ UNCHANGED <<m_total, invalid>>
    BY <1>6 DEF Connect
  <2>3. Uncounted' = Uncounted \cup {u} /\ u \notin Uncounted /\ Gone' = Gone
    BY <1>0, <2>2 DEF Uncounted, Gone
  <2>4. Deleted' = Deleted
    BY <1>0, <2>2 DEF Deleted
  <2>5. IsFiniteSet(alive') /\ Cardinality(alive') = Cardinality(alive) + 1
    BY <1>0, <2>1, FS_AddElement DEF TotalInv
  <2>6. IsFiniteSet(Uncounted') /\ Cardinality(Uncounted') = Cardinality(Uncounted) + 1
    BY <1>0, <2>3, FS_AddElement DEF TotalInv
  <2>7. IsFiniteSet(Gone') /\ IsFiniteSet(Deleted')
    BY <1>0, <2>3, <2>4 DEF TotalInv
  <2> QED
    BY <1>a, <1>b, <1>c, <2>2, <2>3, <2>4, <2>5, <2>6, <2>7
<1>7. ASSUME NEW u \in Users, CountCreated(u) PROVE TotalInv'
  <2>1. /\ pc[u] = "created" /\ pc' = [pc EXCEPT ![u] = "send"] /\ UNCHANGED <<alive, invalid>>
        /\ m_total' = m_total + 1
    BY <1>7 DEF CountCreated, connVars
  <2>2. Uncounted' = Uncounted \ {u} /\ u \in Uncounted /\ Gone' = Gone
    BY <1>0, <2>1 DEF Uncounted, Gone
  <2>3. Deleted' = Deleted
    BY <1>0, <2>1 DEF Deleted
  <2>4. IsFiniteSet(Uncounted') /\ Cardinality(Uncounted') = Cardinality(Uncounted) - 1
    BY <1>0, <2>2, FS_RemoveElement DEF TotalInv
  <2>5. IsFiniteSet(Gone') /\ IsFiniteSet(Deleted') /\ IsFiniteSet(alive')
    BY <1>0, <2>1, <2>2, <2>3 DEF TotalInv
  <2> QED
    BY <1>a, <1>b, <1>c, <2>1, <2>2, <2>3, <2>4, <2>5
<1>8. ASSUME NEW u \in Users, ReleaseDeletes(u) PROVE TotalInv'
  <2>1. /\ pc[u] = "release" /\ pc' = [pc EXCEPT ![u] = "deleted"] /\ UNCHANGED <<m_total, invalid>>
        /\ alive' = alive \ {mine[u]} /\ mine[u] \in alive
    BY <1>0, <1>8 DEF ReleaseDeletes, Delete, LocalInv, WithConn, OwnerInv
  <2>2. Gone' = Gone \cup {u} /\ u \notin Gone /\ Uncounted' = Uncounted
    BY <1>0, <2>1 DEF Uncounted, Gone
  <2>3. Deleted' = Deleted
    BY <1>0, <2>1 DEF Deleted
  <2>4. IsFiniteSet(Gone') /\ Cardinality(Gone') = Cardinality(Gone) + 1
    BY <1>0, <2>2, FS_AddElement DEF TotalInv
  <2>5. IsFiniteSet(alive') /\ Cardinality(alive') = Cardinality(alive) - 1
    BY <1>0, <2>1, FS_RemoveElement DEF TotalInv
  <2>6. IsFiniteSet(Uncounted') /\ IsFiniteSet(Deleted')
    BY <1>0, <2>2, <2>3 DEF TotalInv
  <2> QED
    BY <1>a, <1>b, <1>c, <2>1, <2>2, <2>3, <2>4, <2>5, <2>6
<1>9. ASSUME NEW u \in Users, CountDeleted(u) PROVE TotalInv'
  <2>1. /\ pc[u] = "deleted" /\ pc' = [pc EXCEPT ![u] = "idle"] /\ UNCHANGED <<alive, invalid>>
        /\ m_total' = m_total - 1
    BY <1>9 DEF CountDeleted, connVars
  <2>2. Gone' = Gone \ {u} /\ u \in Gone /\ Uncounted' = Uncounted
    BY <1>0, <2>1 DEF Uncounted, Gone
  <2>3. Deleted' = Deleted
    BY <1>0, <2>1 DEF Deleted
  <2>4. IsFiniteSet(Gone') /\ Cardinality(Gone') = Cardinality(Gone) - 1
    BY <1>0, <2>2, FS_RemoveElement DEF TotalInv
  <2>5. IsFiniteSet(Uncounted') /\ IsFiniteSet(Deleted') /\ IsFiniteSet(alive')
    BY <1>0, <2>1, <2>2, <2>3 DEF TotalInv
  <2> QED
    BY <1>a, <1>b, <1>c, <2>1, <2>2, <2>3, <2>4, <2>5
<1>10. ASSUME NEW u \in Users,
              \/ ConnectFails(u) \/ SendSpins(u) \/ SendWaits(u)
              \/ ReceivePart(u) \/ ReceiveHead(u) \/ PushBack(u)
       PROVE  TotalInv'
    BY <1>0, <1>1, <1>10
    DEF ConnectFails, SendSpins, SendWaits, ReceivePart, ReceiveHead, PushBack, connVars
<1>11. ASSUME NEW u \in Users, Send(u) \/ Receive(u) \/ ReceiveFails(u) \/ ReleaseKeeps(u)
       PROVE  TotalInv'
    BY <1>0, <1>1, <1>11 DEF Send, Receive, ReceiveFails, ReleaseKeeps
<1>12. ASSUME NEW c \in Conns, Answer(c) \/ PeerCloses(c) \/ CloseSocket(c) PROVE TotalInv'
    BY <1>1, <1>12 DEF Answer, PeerCloses, CloseSocket
<1>13. CASE UNCHANGED vars
    BY <1>1, <1>13 DEF vars, connVars
<1> QED
    BY <1>2, <1>4, <1>5, <1>6, <1>7, <1>8, <1>9, <1>10, <1>11, <1>12, <1>13
    DEF Next, UserStep, OwnStep

-----------------------------------------------------------------------------
(* Requests and responses. *)

\* A sequence of one message: how it grows and shrinks.
LEMMA OneMessage ==
    ASSUME NEW m PROVE Append(<< >>, m) = <<m>> /\ Head(<<m>>) = m /\ Tail(<<m>>) = << >>
                       /\ <<m>> # << >>
    OBVIOUS

\* On a connection without a timeout there is at most one exchange.
LEMMA NextEcho == IInv /\ [Next]_vars => EchoInv'
<1> SUFFICES ASSUME IInv, [Next]_vars PROVE EchoInv'
    OBVIOUS
<1> USE DEF InReceive
<1>0. /\ TypeInv /\ LocalInv /\ OwnerInv /\ EchoInv /\ pc \in [Users -> PoolSteps]
      /\ mine \in [Users -> Conns \cup {None}] /\ turn \in [Users -> Nat]
      /\ asked \in [Conns -> Seq(Messages)] /\ coming \in [Conns -> Seq(Messages)]
      /\ None \notin Conns /\ timed \subseteq alive
    BY PoolAssumption DEF IInv, TypeInv, EchoInv
<1>1. ASSUME NEW c \in Conns, c \notin timed, asked'[c] = asked[c], coming'[c] = coming[c],
             \A v \in Users : mine[v] = c /\ pc[v] \in InReceive =>
               mine'[v] = c /\ pc'[v] \in InReceive /\ turn'[v] = turn[v]
      PROVE  Quiet(c)' \/ \E v \in Users : Exchange(v, c)'
  <2>1. CASE Quiet(c)
    BY <1>1, <2>1 DEF Quiet
  <2>2. ASSUME NEW v \in Users, Exchange(v, c)
        PROVE  \E w \in Users : Exchange(w, c)'
    BY <1>1, <2>2 DEF Exchange
  <2> QED
    BY <1>0, <1>1, <2>1, <2>2 DEF EchoInv
<1>2. ASSUME UNCHANGED <<asked, coming, timed>>, alive \subseteq alive',
             NEW u \in Users, pc[u] \notin InReceive \/ pc'[u] \in InReceive,
             pc'[u] \in InReceive => mine'[u] = mine[u] /\ turn'[u] = turn[u],
             \A v \in Users : v # u => mine'[v] = mine[v] /\ pc'[v] = pc[v] /\ turn'[v] = turn[v]
      PROVE  EchoInv'
  <2> SUFFICES ASSUME NEW c \in Conns, c \notin timed
               PROVE  Quiet(c)' \/ \E v \in Users : Exchange(v, c)'
    BY <1>0, <1>2 DEF EchoInv
  <2>1. \A v \in Users : mine[v] = c /\ pc[v] \in InReceive =>
          mine'[v] = c /\ pc'[v] \in InReceive /\ turn'[v] = turn[v]
    BY <1>2
  <2> QED
    BY <1>1, <1>2, <2>1
<1>3. ASSUME NEW u \in Users, TakeFromPool(u) PROVE EchoInv'
  <2>1. /\ UNCHANGED <<asked, coming, timed, alive>> /\ pc[u] = "idle" /\ pc'[u] = "delete"
        /\ \A v \in Users : v # u => mine'[v] = mine[v] /\ pc'[v] = pc[v] /\ turn'[v] = turn[v]
    BY <1>0, <1>3 DEF TakeFromPool, connVars
  <2> QED
    BY <1>2, <2>1
<1>4. ASSUME NEW S, Delete(S), NEW u \in Users, pc[u] \notin InReceive, UNCHANGED turn,
             \A v \in Users : v # u => mine'[v] = mine[v] /\ pc'[v] = pc[v]
      PROVE  EchoInv'
  <2>1. timed' \subseteq alive'
    BY <1>0, <1>4 DEF Delete
  <2> SUFFICES ASSUME NEW c \in Conns, c \notin timed'
               PROVE  Quiet(c)' \/ \E v \in Users : Exchange(v, c)'
    BY <2>1 DEF EchoInv
  <2>2. CASE c \in S
    BY <1>4, <2>2 DEF Delete, Quiet
  <2>3. CASE c \notin S
    <3>1. c \notin timed /\ asked'[c] = asked[c] /\ coming'[c] = coming[c]
        BY <1>4, <2>3 DEF Delete
    <3>2. \A v \in Users : mine[v] = c /\ pc[v] \in InReceive =>
            mine'[v] = c /\ pc'[v] \in InReceive /\ turn'[v] = turn[v]
        BY <1>4
    <3> QED
        BY <1>1, <3>1, <3>2
  <2> QED
    BY <2>2, <2>3
<1>5. ASSUME NEW u \in Users, DeleteInvalid(u) PROVE EchoInv'
  <2>1. /\ pc[u] = "delete" /\ Delete(invalid[u]) /\ UNCHANGED <<turn, mine>>
        /\ \A v \in Users : v # u => pc'[v] = pc[v]
    BY <1>0, <1>5 DEF DeleteInvalid
  <2> QED
    BY <1>4, <2>1
<1>6. ASSUME NEW u \in Users, ReleaseDeletes(u) PROVE EchoInv'
  <2>1. /\ pc[u] = "release" /\ Delete({mine[u]}) /\ UNCHANGED turn
        /\ \A v \in Users : v # u => pc'[v] = pc[v] /\ mine'[v] = mine[v]
    BY <1>0, <1>6 DEF ReleaseDeletes
  <2> QED
    BY <1>4, <2>1
<1>7. ASSUME NEW u \in Users, CountInvalid(u) \/ ConnectFails(u) \/ CountCreated(u) \/ SendSpins(u)
      PROVE  EchoInv'
  <2>1. /\ UNCHANGED <<asked, coming, timed, alive, mine, turn>> /\ pc[u] \notin InReceive
        /\ \A v \in Users : v # u => pc'[v] = pc[v]
    BY <1>0, <1>7 DEF CountInvalid, ConnectFails, CountCreated, SendSpins, connVars
  <2> QED
    BY <1>2, <2>1
<1>8. ASSUME NEW u \in Users,
             \/ CountDeleted(u) \/ ReleaseKeeps(u) \/ SendWaits(u)
             \/ ReceivePart(u) \/ ReceiveHead(u)
      PROVE  EchoInv'
  <2>1. /\ UNCHANGED <<asked, coming, timed, alive, mine, turn>>
        /\ pc[u] \notin InReceive \/ pc'[u] \in InReceive
        /\ \A v \in Users : v # u => pc'[v] = pc[v]
    BY <1>0, <1>8 DEF CountDeleted, ReleaseKeeps, ReceiveHead, ReceivePart, SendWaits, connVars
  <2> QED
    BY <1>2, <2>1
<1>9. ASSUME NEW u \in Users, Connect(u) \/ PushBack(u) PROVE EchoInv'
  <2>1. /\ UNCHANGED <<asked, coming, timed, turn>> /\ alive \subseteq alive'
        /\ pc[u] \notin InReceive /\ pc'[u] \notin InReceive
        /\ \A v \in Users : v # u => pc'[v] = pc[v] /\ mine'[v] = mine[v]
    BY <1>0, <1>9 DEF Connect, PushBack, connVars
  <2> QED
    BY <1>2, <2>1
<1>10. ASSUME NEW u \in Users, NEW c \in Conns, mine[u] = c, c \notin timed
       PROVE  Quiet(c) \/ Exchange(u, c)
  <2>1. c # None
    BY PoolAssumption
  <2>2. \A v \in Users : mine[v] = c => v = u
    BY <1>0, <1>10, <2>1 DEF OwnerInv
  <2> QED
    BY <1>0, <1>10, <2>2 DEF EchoInv, Exchange
<1>11. ASSUME NEW u \in Users, UNCHANGED <<mine, turn, alive>>, mine[u] \in Conns,
              timed \subseteq timed', timed' \subseteq alive,
              mine[u] \notin timed' => Quiet(mine[u])' \/ Exchange(u, mine[u])',
              \A v \in Users : v # u => pc'[v] = pc[v],
              \A c \in Conns : c # mine[u] => asked'[c] = asked[c] /\ coming'[c] = coming[c]
       PROVE  EchoInv'
  <2> SUFFICES ASSUME NEW c \in Conns, c \notin timed', c # mine[u]
               PROVE  Quiet(c)' \/ \E v \in Users : Exchange(v, c)'
    BY <1>11 DEF EchoInv
  <2>1. \A v \in Users : mine[v] = c /\ pc[v] \in InReceive =>
          mine'[v] = c /\ pc'[v] \in InReceive /\ turn'[v] = turn[v]
    BY <1>11
  <2>2. c \notin timed /\ asked'[c] = asked[c] /\ coming'[c] = coming[c]
    BY <1>11
  <2> QED
    BY <1>1, <2>1, <2>2
<1>12. ASSUME NEW u \in Users, Send(u) PROVE EchoInv'
  <2> DEFINE c == mine[u]
  <2>1. /\ c \in Conns /\ pc[u] \in {"send", "sending"} /\ pc'[u] = "recv"
        /\ UNCHANGED <<mine, turn, alive, timed, coming>>
        /\ \A v \in Users : v # u => pc'[v] = pc[v]
    BY <1>0, <1>12 DEF Send, LocalInv, WithConn
  <2>2. asked' \in {asked, [asked EXCEPT ![c] = Append(@, <<u, turn[u]>>)]}
    BY <1>12 DEF Send
  <2>3. ASSUME c \notin timed' PROVE Quiet(c)' \/ Exchange(u, c)'
    <3>1. Quiet(c)
        BY <1>10, <2>1, <2>3 DEF Exchange
    <3>2. asked'[c] = << >> \/ asked'[c] = Append(<< >>, <<u, turn[u]>>)
        BY <1>0, <2>1, <2>2, <3>1 DEF Quiet
    <3>3. asked'[c] = << >> \/ asked'[c] = <<<<u, turn[u]>>>>
        BY <3>2, OneMessage
    <3> QED
        BY <2>1, <3>1, <3>3 DEF Quiet, Exchange
  <2>4. \A d \in Conns : d # c => asked'[d] = asked[d] /\ coming'[d] = coming[d]
    BY <1>0, <2>1, <2>2
  <2> QED
    BY <1>0, <1>11, <2>1, <2>3, <2>4
<1>13. ASSUME NEW u \in Users, Receive(u) PROVE EchoInv'
  <2> DEFINE c == mine[u]
  <2>1. /\ c \in Conns /\ coming[c] # << >>
        /\ UNCHANGED <<mine, turn, alive, timed, asked>>
        /\ \A v \in Users : v # u => pc'[v] = pc[v]
        /\ coming' = [coming EXCEPT ![c] = Tail(@)]
    BY <1>0, <1>13 DEF Receive, LocalInv, WithConn
  <2>2. ASSUME c \notin timed' PROVE Quiet(c)'
    <3>1. asked[c] = << >> /\ coming[c] = <<<<u, turn[u]>>>>
        BY <1>10, <2>1, <2>2 DEF Quiet, Exchange
    <3>2. coming'[c] = Tail(<<<<u, turn[u]>>>>)
        BY <1>0, <2>1, <3>1
    <3> QED
        BY <2>1, <3>1, <3>2, OneMessage DEF Quiet
  <2>3. \A d \in Conns : d # c => asked'[d] = asked[d] /\ coming'[d] = coming[d]
    BY <1>0, <2>1
  <2> QED
    BY <1>0, <1>11, <2>1, <2>2, <2>3
<1>14. ASSUME NEW u \in Users, ReceiveFails(u) PROVE EchoInv'
  <2>1. /\ mine[u] \in Conns /\ UNCHANGED <<mine, turn, alive, asked, coming>>
        /\ timed' = timed \cup {mine[u]}
        /\ \A v \in Users : v # u => pc'[v] = pc[v]
    BY <1>0, <1>14 DEF ReceiveFails, LocalInv, WithConn
  <2>2. mine[u] \in alive
    BY <1>0, <2>1 DEF OwnerInv
  <2> QED
    BY <1>0, <1>11, <2>1, <2>2
<1>15. ASSUME NEW c \in Conns, UNCHANGED <<pc, mine, turn, alive, timed>>,
              c \notin timed => Quiet(c)' \/ \E v \in Users : Exchange(v, c)',
              \A d \in Conns : d # c => asked'[d] = asked[d] /\ coming'[d] = coming[d]
       PROVE  EchoInv'
    BY <1>0, <1>1, <1>15 DEF EchoInv
<1>16. ASSUME NEW c \in Conns, Answer(c) PROVE EchoInv'
  <2>1. /\ UNCHANGED <<pc, mine, turn, alive, timed>> /\ asked[c] # << >>
        /\ coming' = [coming EXCEPT ![c] = Append(@, Head(asked[c]))]
        /\ asked' = [asked EXCEPT ![c] = Tail(@)]
    BY <1>16 DEF Answer
  <2>2. ASSUME c \notin timed PROVE \E v \in Users : Exchange(v, c)'
    <3>1. PICK v \in Users : Exchange(v, c)
        BY <1>0, <2>1, <2>2 DEF EchoInv, Quiet
    <3>2. asked[c] = <<<<v, turn[v]>>>> /\ coming[c] = << >>
        BY <2>1, <3>1 DEF Exchange
    <3>3. /\ coming'[c] = Append(<< >>, Head(<<<<v, turn[v]>>>>))
          /\ asked'[c] = Tail(<<<<v, turn[v]>>>>)
        BY <1>0, <2>1, <3>2
    <3>4. coming'[c] = <<<<v, turn[v]>>>> /\ asked'[c] = << >>
        BY <3>3, OneMessage
    <3> QED
        BY <2>1, <3>1, <3>4 DEF Exchange
  <2>3. \A d \in Conns : d # c => asked'[d] = asked[d] /\ coming'[d] = coming[d]
    BY <1>0, <2>1
  <2> QED
    BY <1>15, <2>1, <2>2, <2>3
<1>17. ASSUME NEW c \in Conns, PeerCloses(c) PROVE EchoInv'
  <2>1. /\ UNCHANGED <<pc, mine, turn, alive, timed, coming>> /\ asked'[c] = << >>
        /\ \A d \in Conns : d # c => asked'[d] = asked[d]
    BY <1>0, <1>17 DEF PeerCloses
  <2>2. ASSUME c \notin timed PROVE Quiet(c)' \/ \E v \in Users : Exchange(v, c)'
    BY <1>0, <2>1, <2>2 DEF EchoInv, Quiet, Exchange
  <2> QED
    BY <1>15, <2>1, <2>2
<1>18. ASSUME NEW c \in Conns, CloseSocket(c) PROVE EchoInv'
    BY <1>0, <1>18 DEF CloseSocket, EchoInv, Quiet, Exchange
<1>19. CASE UNCHANGED vars
    BY <1>0, <1>19 DEF vars, connVars, EchoInv, Quiet, Exchange
<1> QED
    BY <1>3, <1>5, <1>6, <1>7, <1>8, <1>9, <1>12, <1>13, <1>14, <1>16, <1>17, <1>18, <1>19
    DEF Next, UserStep, OwnStep

\* What a user was given stays the answer to its own request.
LEMMA NextAnswer == IInv /\ [Next]_vars => AnswerIsMine'
<1> SUFFICES ASSUME IInv, [Next]_vars PROVE AnswerIsMine'
    OBVIOUS
<1>0. /\ LocalInv /\ OwnerInv /\ EchoInv /\ AnswerIsMine /\ pc \in [Users -> PoolSteps]
      /\ mine \in [Users -> Conns \cup {None}] /\ turn \in [Users -> Nat]
      /\ answer \in [Users -> Answers] /\ invalid \in [Users -> SUBSET Conns]
      /\ None \notin Conns
    BY PoolAssumption DEF IInv, TypeInv
<1> DEFINE Other(v) == /\ pc'[v] = pc[v] /\ answer'[v] = answer[v]
                       /\ mine'[v] = mine[v] /\ turn'[v] = turn[v]
           Right(v) == answer[v] = <<v, turn[v]>> \/ mine[v] \in timed
<1>1. ASSUME NEW u \in Users, \A v \in Users : v # u => Other(v),
             pc'[u] \in {"release", "push"} => Right(u)',
             \A v \in Users : v # u /\ mine[v] \in timed => mine[v] \in timed'
      PROVE  AnswerIsMine'
  <2> SUFFICES ASSUME NEW v \in Users, pc'[v] \in {"release", "push"}, answer'[v] \in Requests
               PROVE  Right(v)'
    BY DEF AnswerIsMine, Requests
  <2>1. CASE v = u
    BY <1>1, <2>1
  <2>2. CASE v # u
    BY <1>0, <1>1, <2>2 DEF AnswerIsMine
  <2> QED
    BY <2>1, <2>2
<1>2. ASSUME NEW u \in Users, TakeFromPool(u) PROVE AnswerIsMine'
  <2>1. pc'[u] = "delete" /\ UNCHANGED timed /\ \A v \in Users : v # u => Other(v)
    BY <1>0, <1>2 DEF TakeFromPool, connVars
  <2> QED
    BY <1>1, <2>1
<1>3. ASSUME NEW u \in Users, DeleteInvalid(u) PROVE AnswerIsMine'
  <2>1. /\ pc[u] = "delete" /\ pc'[u] = "count" /\ timed' = timed \ invalid[u]
        /\ \A v \in Users : v # u => Other(v)
    BY <1>0, <1>3 DEF DeleteInvalid, Delete
  <2>2. \A v \in Users : mine[v] \notin invalid[u]
    BY <1>0, <2>1 DEF OwnerInv, Dooms
  <2> QED
    BY <1>1, <2>1, <2>2
<1>4. ASSUME NEW u \in Users, CountInvalid(u) \/ ConnectFails(u) \/ CountCreated(u) \/ SendSpins(u)
      PROVE  AnswerIsMine'
  <2>1. pc'[u] \notin {"release", "push"} /\ UNCHANGED timed /\ \A v \in Users : v # u => Other(v)
    BY <1>0, <1>4 DEF CountInvalid, ConnectFails, CountCreated, SendSpins, connVars
  <2> QED
    BY <1>1, <2>1
<1>5. ASSUME NEW u \in Users,
             \/ CountDeleted(u) \/ Send(u) \/ SendWaits(u) \/ ReceivePart(u) \/ ReceiveHead(u)
      PROVE  AnswerIsMine'
  <2>1. pc'[u] \notin {"release", "push"} /\ UNCHANGED timed /\ \A v \in Users : v # u => Other(v)
    BY <1>0, <1>5 DEF CountDeleted, ReceiveHead, ReceivePart, SendWaits, Send, connVars
  <2> QED
    BY <1>1, <2>1
<1>6. ASSUME NEW u \in Users, Connect(u) \/ PushBack(u) PROVE AnswerIsMine'
  <2>1. pc'[u] \notin {"release", "push"} /\ UNCHANGED timed /\ \A v \in Users : v # u => Other(v)
    BY <1>0, <1>6 DEF Connect, PushBack, connVars
  <2> QED
    BY <1>1, <2>1
<1>7. ASSUME NEW u \in Users, Receive(u) PROVE AnswerIsMine'
  <2>1. /\ mine[u] \in Conns /\ coming[mine[u]] # << >> /\ UNCHANGED <<mine, turn, timed>>
        /\ answer'[u] = Head(coming[mine[u]])
        /\ \A v \in Users : v # u => Other(v)
    BY <1>0, <1>7 DEF Receive, LocalInv, WithConn
  <2>2. ASSUME mine[u] \notin timed PROVE answer'[u] = <<u, turn[u]>>
    <3>1. PICK v \in Users : Exchange(v, mine[u])
        BY <1>0, <2>1, <2>2 DEF EchoInv, Quiet
    <3>2. v = u
        BY <1>0, <2>1, <3>1 DEF OwnerInv, Exchange
    <3>3. coming[mine[u]] = <<<<u, turn[u]>>>>
        BY <2>1, <3>1, <3>2 DEF Exchange
    <3> QED
        BY <2>1, <3>3, OneMessage
  <2> QED
    BY <1>1, <2>1, <2>2
<1>8. ASSUME NEW u \in Users, ReceiveFails(u) PROVE AnswerIsMine'
  <2>1. /\ UNCHANGED mine /\ timed' = timed \cup {mine[u]}
        /\ \A v \in Users : v # u => Other(v)
    BY <1>0, <1>8 DEF ReceiveFails
  <2> QED
    BY <1>1, <2>1
<1>9. ASSUME NEW u \in Users, ReleaseDeletes(u) PROVE AnswerIsMine'
  <2>1. /\ pc[u] = "release" /\ pc'[u] = "deleted" /\ timed' = timed \ {mine[u]}
        /\ \A v \in Users : v # u => Other(v)
    BY <1>0, <1>9 DEF ReleaseDeletes, Delete
  <2>2. \A v \in Users : v # u => mine[v] # mine[u]
    BY <1>0, <2>1 DEF OwnerInv, LocalInv, WithConn
  <2> QED
    BY <1>1, <2>1, <2>2
<1>10. ASSUME NEW u \in Users, ReleaseKeeps(u) PROVE AnswerIsMine'
  <2>1. /\ pc[u] = "release" /\ pc' = [pc EXCEPT ![u] = "push"]
        /\ UNCHANGED <<answer, mine, turn, timed>>
    BY <1>10 DEF ReleaseKeeps
  <2> QED
    BY <1>0, <2>1 DEF AnswerIsMine
<1>11. CASE UNCHANGED <<pc, answer, mine, turn, timed>>
    BY <1>0, <1>11 DEF AnswerIsMine
<1>12. ASSUME NEW c \in Conns, Answer(c) \/ PeerCloses(c) \/ CloseSocket(c) PROVE AnswerIsMine'
    BY <1>11, <1>12 DEF Answer, PeerCloses, CloseSocket
<1>13. CASE UNCHANGED vars
    BY <1>11, <1>13 DEF vars, connVars
<1> QED
    BY <1>2, <1>3, <1>4, <1>5, <1>6, <1>7, <1>8, <1>9, <1>10, <1>12, <1>13
    DEF Next, UserStep, OwnStep

-----------------------------------------------------------------------------
(* The theorems. *)

\* The invariant holds always.
LEMMA Invariant == Spec => []IInv
<1>1. IInv /\ [Next]_vars => IInv'
    BY NextType, NextLocal, NextOwner, NextTotal, NextEcho, NextAnswer DEF IInv
<1>2. Init => IInv
    BY InitInv
<1> QED
    BY <1>1, <1>2, PTL DEF Spec

\* OneOwner: however getConnection and ReleasePtr of different fibers interleave,
\* a connection that exists is in the list once, or in the hands of one user, or
\* about to be deleted by one, and nobody has one that was deleted.
THEOREM OwnerCorrect == Spec => []OneOwner
<1>1. IInv => OneOwner
  <2> SUFFICES ASSUME IInv PROVE OneOwner
    OBVIOUS
  <2>0. OwnerInv /\ alive \subseteq Conns /\ None \notin Conns
        /\ mine \in [Users -> Conns \cup {None}] /\ invalid \in [Users -> SUBSET Conns]
    BY PoolAssumption DEF IInv, TypeInv
  <2>1. \A u \in Users : \A c : c \in Held(u) <=> c # None /\ mine[u] = c
    BY DEF Held
  <2>2. \A u \in Users : \A c : c \in Doomed(u) <=> c \in Conns /\ Dooms(u, c)
    BY <2>0 DEF Doomed, Dooms
  <2>3. alive = Pooled \cup UNION {Held(u) \cup Doomed(u) : u \in Users}
    <3>1. ASSUME NEW c \in alive PROVE c \in Pooled \cup UNION {Held(u) \cup Doomed(u) : u \in Users}
        BY <2>0, <2>1, <2>2, <3>1 DEF OwnerInv
    <3>2. ASSUME NEW c, NEW u \in Users, c \in Held(u) \cup Doomed(u) PROVE c \in alive
        BY <2>0, <2>1, <2>2, <3>2 DEF OwnerInv
    <3>3. Pooled \subseteq alive
        BY <2>0 DEF OwnerInv
    <3> QED
        BY <3>1, <3>2, <3>3
  <2>4. \A u, v \in Users :
          /\ Held(u) \cap Pooled = {} /\ Doomed(u) \cap Pooled = {}
          /\ Held(u) \cap Doomed(v) = {}
          /\ u # v => Held(u) \cap Held(v) = {} /\ Doomed(u) \cap Doomed(v) = {}
    BY <2>0, <2>1, <2>2 DEF OwnerInv
  <2> QED
    BY <2>0, <2>3, <2>4 DEF OneOwner, OwnerInv, Distinct
<1> QED
    BY <1>1, Invariant, PTL

\* TotalExact: m_total is the number of connections that exist, corrected by what
\* each user has created or deleted and not yet counted.
THEOREM TotalCorrect == Spec => []TotalExact
<1>1. IInv => TotalExact
    BY DEF IInv, TotalInv
<1> QED
    BY <1>1, Invariant, PTL

\* AnswerIsMine: doRequest returns the response to the request it sent, unless a
\* response was given up on that connection before.
THEOREM AnswerCorrect == Spec => []AnswerIsMine
<1>1. IInv => AnswerIsMine
    BY DEF IInv
<1> QED
    BY <1>1, Invariant, PTL

=============================================================================
