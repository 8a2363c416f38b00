------------------------------ MODULE ByteArray ------------------------------
(***************************************************************************)
(* ByteArray (bytearray.cpp), a list of blocks with one position, and the  *)
(* SocketStream calls that receive into it and send from it.  The typed    *)
(* reads and writes all go through write() and read().  The blocks are one *)
(* array here: block i holds the bytes from (i - 1) * Base on.  flat is    *)
(* what one flat buffer would hold.                                        *)
(***************************************************************************)
EXTENDS Integers, Sequences, FiniteSetsExt

CONSTANTS
    Base,      \* m_baseSize
    MaxBlocks, \* bound: blocks of one array
    MaxLen,    \* bound: bytes of one call
    Bytes,     \* values of a byte
    Junk       \* a byte nobody has written

VARIABLES
    nodes,      \* the blocks; m_capacity is nodes * Base
    mem,        \* their contents
    m_position, m_size,
    m_cur,      \* the number of the current block, NULL when there is none
    flat,       \* the flat buffer
    exact,      \* the last read got what the flat buffer holds
    fault       \* how the process crashed: "none", "write" or "read"
vars == <<nodes, mem, m_position, m_size, m_cur, flat, exact, fault>>

NULL == 0
Places == 0 .. (Base * MaxBlocks - 1)
Data == UNION {[1 .. n -> Bytes] : n \in 1 .. MaxLen}

Init ==
    /\ nodes = 1 /\ m_position = 0 /\ m_size = 0 /\ m_cur = 1
    /\ mem = [p \in Places |-> Junk] /\ flat = mem
    /\ exact = TRUE /\ fault = "none"

getCapacity == nodes * Base - m_position
getReadSize == m_size - m_position

\* The blocks that addCapacity(size) appends, and m_cur after it.  The remainder is
\* compared with the capacity that is left, not with zero.
NewNodes(size) ==
    LET more == size - getCapacity
    IN  IF more <= 0 THEN 0
        ELSE (more \div Base) + (IF more % Base > getCapacity THEN 1 ELSE 0)
CurAfterGrowth(size) ==
    IF getCapacity = 0 /\ size > 0 THEN (IF NewNodes(size) = 0 THEN NULL ELSE nodes + 1)
    ELSE m_cur

\* The place in the blocks where a loop from block cur begins.
Start(cur) == (cur - 1) * Base + (m_position % Base)
\* A loop over len bytes from block cur stays inside n blocks; m_cur->size is read
\* even when len is 0.
Inside(cur, len, n) == cur # NULL /\ Start(cur) + len <= n * Base
\* The block of place p when there are n blocks.
NodeOf(p, n) == IF p = n * Base THEN NULL ELSE (p \div Base) + 1

Put(f, from, s) ==
    [p \in Places |-> IF p - from + 1 \in 1 .. Len(s) THEN s[p - from + 1] ELSE f[p]]
\* len bytes are read from the block m_cur on.
Got(len) ==
    exact' = \A i \in 0 .. len - 1 : flat[m_position + i] \in {Junk, mem[Start(m_cur) + i]}
Crash(how) ==
    /\ fault' = how
    /\ UNCHANGED <<nodes, mem, m_position, m_size, m_cur, flat, exact>>

\* Mutant: the last step of setPosition is missing.
CurAtLast(p, n) == IF p = 0 \/ p % Base > 0 THEN NodeOf(p, n) ELSE p \div Base
\* setPosition(v), in n blocks: m_cur is found from m_root again.
CurAt(p, n) == NodeOf(p, n)
MoveTo(v, n) ==
    /\ m_position' = v /\ m_size' = Max({m_size, v})
    /\ m_cur' = CurAt(v, n)

-----------------------------------------------------------------------------
\* write(buf, size).
Write(s) ==
    LET len == Len(s)
        n == nodes + NewNodes(len)
        cur == CurAfterGrowth(len)
    IN  IF ~Inside(cur, len, n) THEN Crash("write")
        ELSE /\ nodes' = n
             /\ mem' = Put(mem, Start(cur), s) /\ flat' = Put(flat, m_position, s)
             /\ m_position' = m_position + len
             /\ m_size' = Max({m_size, m_position + len})
             /\ m_cur' = NodeOf(Start(cur) + len, n)
             /\ UNCHANGED <<exact, fault>>

\* SocketStream::read(ba, len): getWriteBuffers(len), then recv of the bytes s into
\* them (none when it fails), then setPosition.
ReadFromSocket(len, s) ==
    LET n == nodes + NewNodes(len)
        cur == CurAfterGrowth(len)
    IN  /\ Len(s) <= len
        /\ IF ~Inside(cur, len, n) THEN Crash("write")
           ELSE /\ nodes' = n
                /\ mem' = Put(mem, Start(cur), s) /\ flat' = Put(flat, m_position, s)
                /\ IF s = << >> THEN m_cur' = cur /\ UNCHANGED <<m_position, m_size>>
                   ELSE MoveTo(m_position + Len(s), n)
                /\ UNCHANGED <<exact, fault>>

\* read(buf, size); it throws when there is less to read.
Read(len) ==
    /\ len <= getReadSize
    /\ IF ~Inside(m_cur, len, nodes) THEN Crash("read")
       ELSE /\ Got(len)
            /\ m_position' = m_position + len
            /\ m_cur' = NodeOf(Start(m_cur) + len, nodes)
            /\ UNCHANGED <<nodes, mem, m_size, flat, fault>>

\* toString: read at m_position, which stays.
ToString ==
    /\ getReadSize > 0
    /\ IF ~Inside(m_cur, getReadSize, nodes) THEN Crash("read")
       ELSE /\ Got(getReadSize)
            /\ UNCHANGED <<nodes, mem, m_position, m_size, m_cur, flat, fault>>

\* SocketStream::write(ba, len): send takes the first sent bytes of getReadBuffers(len).
WriteToSocket(len, sent) ==
    /\ getReadSize > 0 /\ sent \in 1 .. Min({len, getReadSize})
    /\ IF ~Inside(m_cur, Min({len, getReadSize}), nodes) THEN Crash("read")
       ELSE /\ Got(sent)
            /\ MoveTo(m_position + sent, nodes)
            /\ UNCHANGED <<nodes, mem, flat, fault>>

\* setPosition(v), up to m_capacity.
SetPosition(v) ==
    /\ v <= nodes * Base /\ MoveTo(v, nodes)
    /\ UNCHANGED <<nodes, mem, flat, exact, fault>>

Clear ==
    /\ nodes' = 1 /\ m_position' = 0 /\ m_size' = 0 /\ m_cur' = 1
    /\ flat' = [p \in Places |-> Junk]
    /\ mem' = [p \in Places |-> IF p < Base THEN mem[p] ELSE Junk]
    /\ UNCHANGED <<exact, fault>>

Fits(len) == nodes + NewNodes(len) <= MaxBlocks
Next ==
    /\ fault = "none"
    /\ \/ \E s \in Data : Fits(Len(s)) /\ Write(s)
       \/ \E len \in 1 .. MaxLen, s \in Data \cup {<< >>} : Fits(len) /\ ReadFromSocket(len, s)
       \/ \E len \in 0 .. MaxLen : Read(len) \/ \E sent \in 1 .. len : WriteToSocket(len, sent)
       \/ ToString \/ Clear
       \/ \E v \in 0 .. Base * MaxBlocks : SetPosition(v)
Spec == Init /\ [][Next]_vars

-----------------------------------------------------------------------------
\* Every read, by read(), toString() or SocketStream::write(), gets the bytes that
\* were last written at its position, across block borders, after the array has
\* grown or been cleared and wherever setPosition() has put the position.
BytesExact == exact /\ \A p \in 0 .. m_size - 1 : flat[p] \in {Junk, mem[p]}

\* "首先扩容，保证能够容纳size个字节数据": once addCapacity(size) has returned, the
\* blocks hold size bytes from the position on.
WriteFits == fault # "write"
=============================================================================
