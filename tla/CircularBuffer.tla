--------------------------- MODULE CircularBuffer ----------------------------
(***************************************************************************)
(* arcemu-shared/Network/CircularBuffer as its owners use it: a socket's    *)
(* writeBuffer (Write, then send from GetBufferStart and Remove) and its     *)
(* readBuffer (recv into GetBuffer, IncrementWritten, then Read).           *)
(***************************************************************************)
EXTENDS BufferRegions

CONSTANT MaxBytes    \* bound on the bytes ever stored

ASSUME MaxBytesAssumption == MaxBytes \in Nat

VARIABLES regions,   \* the four pointers and sizes
          mem,       \* what each cell of m_buffer holds: a stream position
          written, taken,
          block      \* what the last Read copied out, or send() was given

bufferVars == <<regions, mem, written, taken, block>>

Cell == 0 .. Cap - 1

BufferTypeOK ==
  /\ regions \in Regions
  /\ mem \in [Cell -> Nat]
  /\ written \in Nat /\ taken \in Nat

BufferInit ==
  /\ regions = Fresh
  /\ mem = [c \in Cell |-> 0]
  /\ written = 0 /\ taken = 0
  /\ block = [i \in {} |-> 0]

\* memcpy of the next n bytes of the stream to offset at
Store(at, n) == mem' = [c \in Cell |-> IF c \in at .. at + n - 1
                                       THEN written + (c - at) ELSE mem[c]]

\* Write, with room or without
Write(n) ==
  LET o == Open(regions) IN
  IF Space(regions) < n
  THEN regions' = o /\ UNCHANGED <<mem, written, taken, block>>
  ELSE /\ regions' = Commit(o, n)
       /\ Store(End(o), n)
       /\ written' = written + n
       /\ UNCHANGED <<taken, block>>

\* GetSpace, recv into GetBuffer, IncrementWritten: recv stores n bytes of those
\* it was offered
Receive(n) ==
  LET o == Open(regions) IN
  /\ n <= Space(regions)
  /\ regions' = Commit(o, n)
  /\ Store(End(o), n)
  /\ written' = written + n
  /\ UNCHANGED <<taken, block>>

\* memmove of what is left of B to the start of the buffer, once A is used up
Compact(n) ==
  LET left == regions.bn - FromB(regions, n) IN
  mem' = [c \in Cell |-> IF FromA(regions, n) = regions.an /\ c < left
                         THEN mem[regions.bp + FromB(regions, n) + c] ELSE mem[c]]

\* Mutant: region B is read first
CopyBFirst(n) ==
  block' = [i \in 0 .. n - 1 |-> IF i < FromB(regions, n)
                                 THEN mem[regions.bp + i]
                                 ELSE mem[regions.ap + (i - FromB(regions, n))]]

\* the memcpys of Read: first from A, the rest from B
Copy(n) ==
  block' = [i \in 0 .. n - 1 |-> IF i < FromA(regions, n)
                                 THEN mem[regions.ap + i]
                                 ELSE mem[regions.bp + (i - FromA(regions, n))]]

Read(n) ==
  /\ n <= Size(regions)
  /\ Copy(n)
  /\ Compact(n)
  /\ regions' = Drop(regions, n)
  /\ taken' = taken + n
  /\ UNCHANGED written

\* send() accepts n of the contiguous bytes at GetBufferStart, Remove(n) follows
Send(n) ==
  /\ n <= Contiguous(regions)
  /\ block' = [i \in 0 .. n - 1 |-> mem[Start(regions) + i]]
  /\ Compact(n)
  /\ regions' = Drop(regions, n)
  /\ taken' = taken + n
  /\ UNCHANGED written

BufferNext ==
  \E n \in 0 .. Cap : \/ written + n <= MaxBytes /\ (Write(n) \/ Receive(n))
                      \/ Read(n)
                      \/ Send(n)

BufferSpec == BufferInit /\ [][BufferNext]_bufferVars

-----------------------------------------------------------------------------
\* The regions stay inside the buffer and never overlap: region B ends before A
\* begins, so no memcpy of Write, recv or Read leaves m_buffer or overwrites a
\* byte not yet read.
NoOverlap == /\ regions.ap + regions.an <= Cap
             /\ HasB(regions) => regions.bp + regions.bn <= regions.ap
             /\ ~HasB(regions) => regions.bn = 0

\* The stored bytes are exactly the ones written and not yet taken, in order.
InOrder == /\ Size(regions) = written - taken
           /\ \A i \in 0 .. regions.an - 1 : mem[regions.ap + i] = taken + i
           /\ \A i \in 0 .. regions.bn - 1 : mem[regions.bp + i] = taken + regions.an + i

\* ReadCallback takes a recv of 0 bytes for a closed connection, so GetSpace must
\* not run out early: contents and free space together are always half the
\* buffer at least, whatever room the two regions leave unused.
HalfUsable == 2 * (Size(regions) + Space(regions)) >= Cap

\* Each block Read copies out, and each run of bytes send() is given, is the
\* oldest part of the stream: the buffer implements a first-in first-out stream.
Stream == INSTANCE ByteStream
IsByteStream == Stream!Spec
=============================================================================
