-------------------------- MODULE SocketBuffers_proofs --------------------------
(***************************************************************************)
(* Proofs about CircularBuffer, for a buffer of any size and a stream of    *)
(* any length, and about SocketIO, whose write buffer it is, for any number *)
(* of sending threads and any sizes.  Both rest on the arithmetic of the    *)
(* buffer's two regions.                                                    *)
(***************************************************************************)
EXTENDS SocketIO, CircularBuffer, TLAPS

-----------------------------------------------------------------------------
(* The two regions.                                                         *)

\* The shape of the two regions between calls.  Region B exists only in front of
\* a region A that is not empty, and only while A's tail is shorter than the
\* room before A was: that is what HalfUsable needs.
Shape(r) == /\ r \in Regions
            /\ r.ap + r.an <= Cap
            /\ r.an = 0 => r.ap = 0 /\ r.bp = NoB
            /\ r.bp = NoB => r.bn = 0
            /\ r.bp # NoB => r.bp = 0 /\ r.bn <= r.ap /\ Cap - r.ap - r.an < r.ap

\* Opening B keeps the shape, the contents and the place of every byte.
LEMMA OpenShape ==
  ASSUME CapAssumption, NEW r, Shape(r)
  PROVE  /\ Shape(Open(r))
         /\ Open(r).ap = r.ap /\ Open(r).an = r.an /\ Open(r).bn = r.bn
         /\ HasB(r) => Open(r) = r
         /\ Space(r) \in 0 .. Cap
         /\ 2 * (Size(r) + Space(r)) >= Cap
BY DEF CapAssumption, Shape, Regions, Reg, Open, HasB, NoB, AFree, BeforeA, Space, BFree, Size

\* What Write and recv add fits.
LEMMA CommitShape ==
  ASSUME CapAssumption, NEW r, Shape(r), NEW n \in Nat, n <= Space(r)
  PROVE  /\ Shape(Commit(Open(r), n))
         /\ Size(Commit(Open(r), n)) = Size(r) + n
<1>1. Shape(Open(r)) /\ Open(r).bn = r.bn /\ Open(r).an = r.an
  BY OpenShape
<1>2. QED
  BY <1>1 DEF CapAssumption, Shape, Regions, Reg, HasB, NoB, AFree, Space, BFree, Commit, Size

\* How n bytes are split between the regions.
LEMMA Split ==
  ASSUME CapAssumption, NEW r, Shape(r), NEW n \in Nat, n <= Size(r)
  PROVE  /\ FromA(r, n) \in 0 .. r.an /\ FromB(r, n) \in 0 .. r.bn
         /\ FromA(r, n) + FromB(r, n) = n
         /\ FromA(r, n) < r.an => FromA(r, n) = n
BY DEF CapAssumption, Shape, Regions, Reg, FromA, FromB, Lesser, Size

LEMMA DropShape ==
  ASSUME CapAssumption, NEW r, Shape(r), NEW n \in Nat, n <= Size(r)
  PROVE  /\ Shape(Drop(r, n))
         /\ Size(Drop(r, n)) = Size(r) - n
<1>1. /\ FromA(r, n) \in 0 .. r.an /\ FromB(r, n) \in 0 .. r.bn
      /\ FromA(r, n) + FromB(r, n) = n
      /\ FromA(r, n) < r.an => FromA(r, n) = n
  BY Split
<1>2. CASE FromA(r, n) = r.an
  BY <1>1, <1>2 DEF CapAssumption, Shape, Regions, Reg, Drop, NoB, Size
<1>3. CASE FromA(r, n) < r.an
  BY <1>1, <1>3 DEF CapAssumption, Shape, Regions, Reg, Drop, NoB, Size
<1>4. QED BY <1>1, <1>2, <1>3 DEF Shape, Regions, Reg

\* send() never takes more than the contiguous bytes.
LEMMA DropAnyShape ==
  ASSUME CapAssumption, NEW r, Shape(r), NEW m \in Nat
  PROVE  Shape(Drop(r, Lesser(Contiguous(r), m)))
<1> DEFINE n == Lesser(Contiguous(r), m)
<1>1. n \in Nat /\ n <= Size(r)
  BY DEF Shape, Regions, Lesser, Contiguous, Size
<1>2. QED BY <1>1, DropShape

-----------------------------------------------------------------------------
(* The circular buffer.                                                     *)

BufferInv == BufferTypeOK /\ Shape(regions) /\ InOrder

-----------------------------------------------------------------------------
\* Write with room, and recv: n bytes go to the end of the stream.
LEMMA StoreStep ==
  ASSUME CapAssumption, BufferInv, NEW n \in Nat, n <= Space(regions),
         regions' = Commit(Open(regions), n), Store(End(Open(regions)), n),
         written' = written + n, UNCHANGED <<taken, block>>
  PROVE  BufferInv' /\ Stream!Put
<1> DEFINE o == Open(regions)
<1>1. /\ Shape(o) /\ o.ap = regions.ap /\ o.an = regions.an /\ o.bn = regions.bn
      /\ HasB(regions) => o = regions
  BY OpenShape DEF BufferInv
<1>2. Shape(regions') /\ Size(regions') = Size(regions) + n
  BY CommitShape DEF BufferInv
<1>3. regions' \in Regions
  BY <1>2 DEF Shape
<1>4. mem' \in [Cell -> Nat]
  <2>1. End(o) \in Nat
    BY <1>1 DEF End, Shape, Regions, HasB, NoB
  <2>2. written \in Nat /\ \A c \in Cell : c \in Int /\ mem[c] \in Nat
    BY DEF BufferInv, BufferTypeOK, Cell
  <2> DEFINE cell(c) == IF c \in End(o) .. End(o) + n - 1 THEN written + (c - End(o)) ELSE mem[c]
  <2>3. mem' = [c \in Cell |-> cell(c)]
    BY DEF Store
  <2>4. ASSUME NEW c \in Cell PROVE cell(c) \in Nat
    <3>1. c \in Int /\ mem[c] \in Nat /\ written \in Nat
      BY <2>2
    <3> HIDE <2>2
    <3>2. CASE c \in End(o) .. End(o) + n - 1
      <4>1. c - End(o) \in Nat
        BY <2>1, <3>1, <3>2
      <4>2. written + (c - End(o)) \in Nat
        BY <3>1, <4>1
      <4>3. QED BY <3>2, <4>2
    <3>3. QED BY <3>1, <3>2
  <2> HIDE DEF cell
  <2>5. QED BY <2>3, <2>4
<1>5. CASE HasB(o)
  <2>1. regions' = Reg(o.ap, o.an, o.bp, o.bn + n) /\ regions'.bn <= o.ap /\ o.bp = 0
    BY <1>2, <1>5 DEF Commit, Shape, HasB, Regions, Reg
  <2>2. \A i \in 0 .. regions'.an - 1 : mem'[regions'.ap + i] = taken' + i
    <3> SUFFICES ASSUME NEW i \in 0 .. regions'.an - 1
                 PROVE  mem'[regions'.ap + i] = taken' + i
      OBVIOUS
    <3>1. regions'.ap = regions.ap /\ regions'.an = regions.an /\ regions'.bn = o.bn + n
      BY <1>1, <2>1 DEF Reg
    <3>2. regions.ap + i \in Cell /\ regions.ap + i > o.bn + n - 1
      <4>1. /\ regions.ap \in Nat /\ regions.an \in Nat /\ o.bn \in Nat
            /\ regions.ap + regions.an <= Cap /\ o.bn + n <= regions.ap
        BY <3>1, <2>1, <1>1 DEF Shape, Regions
      <4>2. i \in Nat /\ i < regions.an
        BY <3>1, <4>1
      <4>3. QED BY <4>1, <4>2 DEF Cell, CapAssumption
    <3>3. End(o) = o.bn
      BY <1>5, <2>1, <1>1 DEF End, Shape, Regions
    <3>4. mem'[regions.ap + i] = mem[regions.ap + i]
      BY <3>2, <3>3, <1>1 DEF Store, Cell, Shape, Regions
    <3>5. QED BY <3>1, <3>4 DEF BufferInv, InOrder
  <2>3. ASSUME NEW i \in 0 .. regions'.bn - 1
        PROVE  mem'[regions'.bp + i] = taken' + regions'.an + i
    <3>1. i \in Cell /\ regions'.bp = 0 /\ regions'.an = regions.an
      BY <1>1, <1>5, <2>1, <1>2 DEF Cell, Shape, Regions, Reg, CapAssumption
    <3>2. mem'[i] = IF i \in o.bn .. o.bn + n - 1 THEN written + (i - o.bn) ELSE mem[i]
      BY <3>1, <1>5, <1>1, <2>1 DEF Store, End, Shape, Regions, Reg
    <3>3. i < regions.bn => HasB(regions) /\ mem[i] = taken + regions.an + i
      BY <1>1, <1>5 DEF BufferInv, InOrder, HasB, Shape, Regions, Reg, NoB
    <3>4. QED BY <3>1, <3>2, <3>3, <1>1, <2>1 DEF BufferInv, InOrder, Size, BufferTypeOK, Regions, Reg
  <2>4. QED BY <1>2, <1>3, <1>4, <2>2, <2>3 DEF BufferInv, BufferTypeOK, InOrder, Stream!Put
<1>6. CASE ~HasB(o)
  <2>1. regions' = Reg(o.ap, o.an + n, o.bp, o.bn) /\ regions'.an = o.an + n /\ regions'.bn = 0
    BY <1>1, <1>6 DEF Commit, Shape, HasB, Regions, Reg
  <2>2. ASSUME NEW i \in 0 .. regions'.an - 1
        PROVE  mem'[regions'.ap + i] = taken' + i
    <3>1. regions'.ap + i \in Cell /\ regions'.ap = regions.ap
      BY <1>1, <1>2, <2>1 DEF Cell, Shape, Regions, Reg, CapAssumption
    <3>2. mem'[regions'.ap + i] = IF i \in o.an .. o.an + n - 1
                                  THEN written + (i - o.an) ELSE mem[regions'.ap + i]
      BY <3>1, <1>6, <1>1, <2>1 DEF Store, End, Shape, Regions, Reg
    <3>3. QED BY <3>1, <3>2, <1>1, <2>1, <1>6 DEF BufferInv, InOrder, Size, BufferTypeOK, Regions, Reg, Shape, HasB
  <2>3. QED BY <1>1, <1>2, <1>3, <1>4, <2>1, <2>2 DEF BufferInv, BufferTypeOK, InOrder, Stream!Put
<1>7. QED BY <1>5, <1>6

\* Read and Remove: the first n bytes leave, the others keep their order.
LEMMA DropStep ==
  ASSUME CapAssumption, BufferInv, NEW n \in Nat, n <= Size(regions),
         Compact(n), regions' = Drop(regions, n),
         taken' = taken + n, UNCHANGED written
  PROVE  BufferInv'
<1> DEFINE fa == FromA(regions, n)
           fb == FromB(regions, n)
<1>1. /\ fa \in 0 .. regions.an /\ fb \in 0 .. regions.bn
      /\ fa + fb = n
      /\ fa < regions.an => fa = n
  BY Split DEF BufferInv
<1>2. Shape(regions') /\ Size(regions') = Size(regions) - n
  BY DropShape DEF BufferInv
<1>3. CASE fa = regions.an
  <2>1. regions' = Reg(0, regions.bn - fb, NoB, 0)
    BY <1>3 DEF Drop
  <2>2. \A c \in Cell : c < regions.bn - fb => regions.bp = 0 /\ fb + c \in Cell
    BY <1>1 DEF BufferInv, Shape, Regions, Reg, Cell, CapAssumption, NoB
  <2>3. \A c \in Cell : mem'[c] = IF c < regions.bn - fb THEN mem[fb + c] ELSE mem[c]
    BY <1>3, <2>2, <1>1 DEF Compact, BufferInv, Shape, Regions, Reg, Cell, CapAssumption
  <2>4. mem' \in [Cell -> Nat]
    BY <2>3, <2>2 DEF Compact, BufferInv, BufferTypeOK
  <2>5. ASSUME NEW i \in 0 .. regions'.an - 1 PROVE mem'[regions'.ap + i] = taken' + i
    <3>1. i \in Cell /\ i < regions.bn - fb
      BY <2>1, <1>1 DEF BufferInv, Shape, Regions, Reg, Cell
    <3>2. mem'[i] = mem[fb + i] /\ regions.bp = 0 /\ fb + i \in 0 .. regions.bn - 1
      BY <3>1, <2>2, <2>3, <1>1 DEF BufferInv, Shape, Regions, Reg, Cell
    <3>3. mem[fb + i] = taken + regions.an + (fb + i)
      BY <3>2 DEF BufferInv, InOrder, Shape, Regions, Reg, Cell
    <3>4. regions'.ap = 0 /\ regions.an = fa /\ taken' = taken + n /\ taken \in Int /\ fa \in Int /\ fb \in Int
      BY <2>1, <1>1, <1>3 DEF BufferInv, BufferTypeOK, Regions, Reg
    <3>5. mem'[i] = taken + (fa + fb) + i /\ i \in Int
      BY <3>2, <3>3, <3>4
    <3>6. QED BY <3>4, <3>5, <1>1 DEF BufferInv, BufferTypeOK
  <2>6. QED BY <1>2, <2>1, <2>4, <2>5 DEF BufferInv, BufferTypeOK, InOrder, Shape, Regions, Reg, Size
<1>4. CASE fa < regions.an
  <2>1. regions' = Reg(regions.ap + n, regions.an - n, regions.bp, regions.bn) /\ fa = n /\ fb = 0
    BY <1>4, <1>1 DEF Drop, BufferInv, Shape, Regions, Reg
  <2>2. mem' = mem
    <3>1. ~(FromA(regions, n) = regions.an)
      BY <1>1, <1>4 DEF BufferInv, Shape, Regions
    <3>2. mem' = [c \in Cell |-> mem[c]]
      BY <3>1 DEF Compact
    <3>3. QED BY <3>2 DEF BufferInv, BufferTypeOK
  <2>3. /\ regions'.ap = regions.ap + n /\ regions'.an = regions.an - n
        /\ regions'.bp = regions.bp /\ regions'.bn = regions.bn
    BY <2>1 DEF Reg
  <2>4. ASSUME NEW i \in 0 .. regions'.an - 1 PROVE mem'[regions'.ap + i] = taken' + i
    <3>1. n + i \in 0 .. regions.an - 1
      BY <2>3 DEF BufferInv, Shape, Regions
    <3>2. mem[regions.ap + (n + i)] = taken + (n + i)
      BY <3>1 DEF BufferInv, InOrder
    <3>3. QED BY <2>2, <2>3, <3>2 DEF BufferInv, BufferTypeOK, Regions
  <2>5. ASSUME NEW i \in 0 .. regions'.bn - 1
        PROVE  mem'[regions'.bp + i] = taken' + regions'.an + i
    <3>1. mem[regions.bp + i] = taken + regions.an + i
      BY <2>3 DEF BufferInv, InOrder
    <3>2. QED BY <2>2, <2>3, <3>1 DEF BufferInv, BufferTypeOK, Regions
  <2>6. Size(regions') = written' - taken'
    BY <1>2 DEF BufferInv, BufferTypeOK, InOrder, Shape, Regions, Size
  <2>7. BufferTypeOK'
    BY <1>2, <2>2 DEF BufferInv, BufferTypeOK, Shape
  <2>8. QED BY <1>2, <2>4, <2>5, <2>6, <2>7 DEF BufferInv, InOrder
<1>5. QED BY <1>1, <1>3, <1>4 DEF BufferInv, Shape, Regions, Reg

\* What Read copies out is the oldest part of the stream.
LEMMA ReadBlock ==
  ASSUME CapAssumption, BufferInv, NEW n \in Nat, Read(n)
  PROVE  Stream!Take
<1>1. /\ FromA(regions, n) \in 0 .. regions.an /\ FromB(regions, n) \in 0 .. regions.bn
      /\ FromA(regions, n) + FromB(regions, n) = n
  BY Split DEF BufferInv, Read
<1>2. n \in 0 .. written - taken
  BY DEF Read, BufferInv, InOrder
<1>3. \A i \in 0 .. n - 1 : i < FromA(regions, n) => mem[regions.ap + i] = taken + i
  BY <1>1 DEF BufferInv, InOrder, Shape, Regions, Reg
<1>4. \A i \in 0 .. n - 1 : i >= FromA(regions, n) =>
         /\ FromA(regions, n) = regions.an
         /\ mem[regions.bp + (i - regions.an)] = taken + i
  <2> SUFFICES ASSUME NEW i \in 0 .. n - 1, i >= FromA(regions, n)
               PROVE  /\ FromA(regions, n) = regions.an
                      /\ mem[regions.bp + (i - regions.an)] = taken + i
    OBVIOUS
  <2>1. FromA(regions, n) = regions.an
    BY DEF FromA, Lesser, BufferInv, Shape, Regions, Reg
  <2>2. i - regions.an \in 0 .. regions.bn - 1
    BY <1>1, <2>1 DEF BufferInv, Shape, Regions, Reg
  <2>3. QED BY <2>1, <2>2 DEF BufferInv, InOrder, BufferTypeOK, Regions, Reg
<1>5. block' = [i \in 0 .. n - 1 |-> taken + i]
  <2>1. \A i \in 0 .. n - 1 :
          (IF i < FromA(regions, n) THEN mem[regions.ap + i]
           ELSE mem[regions.bp + (i - FromA(regions, n))]) = taken + i
    BY <1>1, <1>3, <1>4 DEF BufferInv, Shape, Regions
  <2>2. QED BY <2>1 DEF Read, Copy
<1>6. QED BY <1>2, <1>5 DEF Read, Stream!Take

\* So is what send() is given.
LEMMA SendBlock ==
  ASSUME CapAssumption, BufferInv, NEW n \in Nat, Send(n)
  PROVE  Stream!Take /\ n <= Size(regions)
<1>1. n <= Size(regions) /\ n \in 0 .. written - taken
  BY DEF Send, Contiguous, Size, BufferInv, InOrder, Shape, Regions, Reg
<1>2. \A i \in 0 .. n - 1 : mem[Start(regions) + i] = taken + i
  <2>1. CASE regions.an > 0
    BY <2>1 DEF Send, Contiguous, Start, BufferInv, InOrder, Shape, Regions, Reg
  <2>2. CASE regions.an = 0
    BY <2>2 DEF Send, Contiguous, BufferInv, Shape, Regions, Reg
  <2>3. QED BY <2>1, <2>2 DEF BufferInv, Shape, Regions, Reg
<1>3. QED BY <1>1, <1>2 DEF Send, Stream!Take

\* One step keeps the invariant and is a step of the byte stream.
LEMMA BufferStep ==
  ASSUME CapAssumption, BufferInv, [BufferNext]_bufferVars
  PROVE  BufferInv' /\ [Stream!Put \/ Stream!Take]_(Stream!vars)
<1>1. CASE UNCHANGED bufferVars
  BY <1>1 DEF bufferVars, BufferInv, BufferTypeOK, InOrder, Shape, Size, Stream!vars
<1>2. ASSUME NEW n \in 0 .. Cap, Write(n)
      PROVE  BufferInv' /\ [Stream!Put \/ Stream!Take]_(Stream!vars)
  <2>1. CASE Space(regions) < n
    <3>1. regions' = Open(regions) /\ UNCHANGED <<mem, written, taken, block>>
      BY <1>2, <2>1 DEF Write
    <3>2. /\ Shape(regions') /\ regions'.ap = regions.ap /\ regions'.an = regions.an
          /\ regions'.bn = regions.bn /\ (HasB(regions) => regions' = regions)
      BY <3>1, OpenShape DEF BufferInv
    <3>3. regions.bn = 0 \/ regions'.bp = regions.bp
      BY <3>2 DEF BufferInv, Shape, HasB
    <3>4. QED BY <3>1, <3>2, <3>3 DEF BufferInv, BufferTypeOK, InOrder, Shape, Size, Stream!vars, Regions, Reg
  <2>2. CASE ~(Space(regions) < n)
    <3>1. n <= Space(regions)
      BY <2>2, OpenShape DEF BufferInv
    <3>2. QED BY <1>2, <2>2, <3>1, StoreStep DEF Write
  <2>3. QED BY <2>1, <2>2
<1>3. ASSUME NEW n \in 0 .. Cap, Receive(n)
      PROVE  BufferInv' /\ [Stream!Put \/ Stream!Take]_(Stream!vars)
  BY <1>3, StoreStep DEF Receive
<1>4. ASSUME NEW n \in 0 .. Cap, Read(n)
      PROVE  BufferInv' /\ [Stream!Put \/ Stream!Take]_(Stream!vars)
  BY <1>4, DropStep, ReadBlock DEF Read
<1>5. ASSUME NEW n \in 0 .. Cap, Send(n)
      PROVE  BufferInv' /\ [Stream!Put \/ Stream!Take]_(Stream!vars)
  BY <1>5, DropStep, SendBlock DEF Send
<1>6. QED BY <1>1, <1>2, <1>3, <1>4, <1>5 DEF BufferNext

LEMMA BufferStarts == CapAssumption /\ BufferInit => BufferInv
BY DEF CapAssumption, BufferInit, BufferInv, BufferTypeOK, InOrder, Shape, Regions, Reg, Fresh, NoB, Size, Cell

THEOREM BufferInvariant == BufferSpec => []BufferInv
<1> USE CapAssumption
<1>1. QED BY BufferStarts, BufferStep, PTL DEF BufferSpec

\* The regions, the bytes and the positions keep their types.
THEOREM BufferTypes == BufferSpec => []BufferTypeOK
<1>1. BufferInv => BufferTypeOK
  BY DEF BufferInv
<1>2. QED BY <1>1, BufferInvariant, PTL

\* The regions stay inside the buffer and never overlap.
THEOREM BufferNoOverlap == BufferSpec => []NoOverlap
<1>1. BufferInv => NoOverlap
  BY DEF BufferInv, Shape, Regions, Reg, NoOverlap, HasB
<1>2. QED BY <1>1, BufferInvariant, PTL

\* The stored bytes are those written and not yet taken, in order.
THEOREM BufferInOrder == BufferSpec => []InOrder
<1>1. BufferInv => InOrder
  BY DEF BufferInv
<1>2. QED BY <1>1, BufferInvariant, PTL

\* GetSpace never runs out before the buffer is half full.
THEOREM BufferHalfUsable == BufferSpec => []HalfUsable
<1>1. BufferInv => HalfUsable
  BY OpenShape, CapAssumption DEF BufferInv, HalfUsable
<1>2. QED BY <1>1, BufferInvariant, PTL

\* The circular buffer implements a first-in first-out byte stream.
THEOREM BufferIsByteStream == BufferSpec => IsByteStream
<1> USE CapAssumption
<1>1. BufferInit => Stream!Init
  BY DEF BufferInit, Stream!Init
<1>2. QED BY <1>1, BufferInvariant, BufferStep, PTL DEF BufferSpec, IsByteStream, Stream!Spec

-----------------------------------------------------------------------------
(* Sending and receiving.                                                   *)

Typed == /\ Shape(wbuf)
         /\ spc \in [Sender -> {"idle", "written", "post"}]
         /\ owner \in Sender \cup {None}
         /\ wpc \in {"wait", "size", "lock", "post"}
         /\ connected \in BOOLEAN /\ mask \in {"in", "out"}
         /\ kout \in 0 .. KOut

\* A sender past BurstSend holds m_writeMutex, and its bytes are still there.
Mutex == \A s \in Sender : spc[s] # "idle" => owner = s /\ Size(wbuf) > 0

\* Outside Send, the lock, the registration for writing and pending bytes go
\* together; inside, a lock already taken means the event is already posted.
Posted == /\ owner = None => IF Size(wbuf) > 0 THEN wlock = 1 /\ mask = "out"
                                               ELSE wlock = 0 /\ mask = "in"
          /\ \A s \in Sender : /\ spc[s] = "written" /\ wlock = 1 => mask = "out"
                               /\ spc[s] = "post" => wlock = 1
          /\ owner \in Sender => spc[owner] # "idle"

\* The worker posts EPOLLOUT from its read path only while bytes are pending:
\* only the worker itself takes bytes out.
Pending == wpc \in {"lock", "post"} => Size(wbuf) > 0

IOInv == Typed /\ LockIsBinary /\ Mutex /\ Posted /\ Pending

LEMMA IOInit == SocketAssumption /\ CapAssumption /\ Init => IOInv
BY DEF SocketAssumption, CapAssumption, Init, IOInv, Typed, LockIsBinary, Mutex, Posted,
       Pending, Shape, Regions, Reg, Fresh, Size, NoB

\* Socket::Send
LEMMA SendStep ==
  ASSUME SocketAssumption, CapAssumption, IOInv, NEW s \in Sender,
         (\E n \in Lengths : BurstSend(s, n)) \/ PushLock(s) \/ PushPost(s)
  PROVE  IOInv'
<1> USE DEF IOInv, Typed, LockIsBinary, Mutex, Posted, Pending
<1>1. ASSUME NEW n \in Lengths, BurstSend(s, n) PROVE IOInv'
  <2>1. n \in Nat /\ n > 0
    BY DEF SocketAssumption
  <2>2. CASE Space(wbuf) < n
    <3>1. Shape(wbuf') /\ Size(wbuf') = Size(wbuf)
      BY <1>1, <2>2, OpenShape DEF BurstSend, Size
    <3>2. QED BY <1>1, <2>2, <3>1 DEF BurstSend, epoll
  <2>3. CASE ~(Space(wbuf) < n)
    <3>1. n <= Space(wbuf)
      BY <2>1, <2>3, OpenShape
    <3>2. Shape(wbuf') /\ Size(wbuf') = Size(wbuf) + n
      BY <1>1, <2>1, <2>3, <3>1, CommitShape DEF BurstSend
    <3>3. Size(wbuf) \in Nat /\ Size(wbuf') > 0
      BY <2>1, <3>2 DEF Shape, Regions, Size
    <3>4. owner = None /\ owner' = s /\ spc' = [spc EXCEPT ![s] = "written"]
          /\ UNCHANGED <<wlock, wpc, connected, mask>>
      BY <1>1, <2>3 DEF BurstSend, epoll
    <3>5. \A t \in Sender : spc[t] = "idle"
      BY <3>4 DEF SocketAssumption
    <3>6. kout' = kout
      BY <1>1 DEF BurstSend
    <3>7. Typed' /\ LockIsBinary' /\ Pending'
      BY <3>2, <3>3, <3>4, <3>6
    <3>8. Mutex'
      BY <3>3, <3>4, <3>5
    <3>9. Posted'
      BY <3>3, <3>4, <3>5 DEF SocketAssumption
    <3>10. QED BY <3>7, <3>8, <3>9
  <2>4. QED BY <2>2, <2>3
<1>2. CASE PushLock(s)
  BY <1>2 DEF PushLock, LockWasFree, epoll, SocketAssumption
<1>3. CASE PushPost(s)
  BY <1>3 DEF PushPost, PostOut, SocketAssumption
<1>4. QED BY <1>1, <1>2, <1>3

\* SocketWorkerThread::run
LEMMA WorkerStep ==
  ASSUME SocketAssumption, CapAssumption, IOInv, Worker
  PROVE  IOInv'
<1> USE DEF IOInv, Typed, LockIsBinary, Mutex, Posted, Pending
<1>1. CASE OnWritable
  <2> DEFINE n == Lesser(Contiguous(wbuf), KOut - kout)
  <2>1. wbuf' = Drop(wbuf, n) /\ owner = None /\ wpc = "wait" /\ mask = "out" /\ kout < KOut
    BY <1>1 DEF OnWritable
  <2>0. KOut - kout \in Nat
    BY <2>1 DEF SocketAssumption
  <2>6. kout' \in 0 .. KOut
    <3>1. Contiguous(wbuf) \in Nat
      BY DEF Contiguous, Shape, Regions
    <3>2. n \in Nat /\ n <= KOut - kout
      BY <2>0, <3>1 DEF Lesser
    <3>3. kout' = kout + n
      BY <1>1 DEF OnWritable
    <3>4. QED BY <3>2, <3>3 DEF SocketAssumption
  <2>2. wlock = 1 /\ Size(wbuf) > 0
    BY <2>1
  <2>3. CASE Drained(wbuf')
    <3>1. wlock' = 0 /\ mask' = "in" /\ UNCHANGED <<owner, spc, wpc, connected>>
      BY <1>1, <2>2, <2>3 DEF OnWritable, DecSendLock
    <3>2. Size(wbuf') = 0
      BY <2>3 DEF Drained
    <3>3. Shape(wbuf')
      BY <2>1, <2>0, DropAnyShape
    <3>4. \A t \in Sender : spc[t] = "idle"
      BY <2>1 DEF SocketAssumption
    <3>5. Typed' /\ LockIsBinary' /\ Pending'
      BY <2>1, <2>6, <3>1, <3>3
    <3>6. Mutex' /\ Posted'
      BY <2>1, <3>1, <3>2, <3>4 DEF SocketAssumption
    <3>7. QED BY <3>5, <3>6
  <2>4. CASE ~Drained(wbuf')
    <3>1. UNCHANGED <<wlock, mask, owner, spc, wpc, connected>>
      BY <1>1, <2>4 DEF OnWritable
    <3>2. Shape(wbuf')
      BY <2>1, <2>0, DropAnyShape
    <3>3. Size(wbuf') > 0
      BY <3>2, <2>4 DEF Drained, Shape, Regions, Size
    <3>4. Typed' /\ LockIsBinary' /\ Pending'
      BY <2>1, <2>6, <3>1, <3>2
    <3>5. Mutex' /\ Posted'
      BY <2>1, <2>2, <3>1, <3>3 DEF SocketAssumption
    <3>6. QED BY <3>4, <3>5
  <2>5. QED BY <2>3, <2>4
<1>2. CASE OnReadable
  BY <1>2 DEF OnReadable
<1>3. CASE CheckSize
  BY <1>3 DEF CheckSize, epoll
<1>4. CASE CheckLock
  BY <1>4 DEF CheckLock, epoll
<1>5. CASE PostFromRead
  BY <1>5 DEF PostFromRead, PostOut
<1>6. QED BY <1>1, <1>2, <1>3, <1>4, <1>5 DEF Worker

THEOREM IOInvariant == Spec => []IOInv
<1> USE SocketAssumption, CapAssumption
<1>1. Init => IOInv
  BY IOInit
<1>2. IOInv /\ [Next]_vars => IOInv'
  <2> SUFFICES ASSUME IOInv, [Next]_vars PROVE IOInv'
    OBVIOUS
  <2> USE DEF IOInv, Typed, LockIsBinary, Mutex, Posted, Pending
  <2>1. CASE UNCHANGED vars
    BY <2>1 DEF vars
  <2>2. ASSUME NEW n \in Lengths, PeerSends(n) PROVE IOInv'
    BY <2>2 DEF PeerSends
  <2>3. CASE PeerAcks
    BY <2>3 DEF PeerAcks
  <2>4. QED BY <2>1, <2>2, <2>3, SendStep, WorkerStep DEF Next
<1>3. QED BY <1>1, <1>2, PTL DEF Spec

\* m_writeLock never wraps below zero.
THEOREM IOLockIsBinary == Spec => []LockIsBinary
<1>1. IOInv => LockIsBinary BY DEF IOInv
<1>2. QED BY <1>1, IOInvariant, PTL

\* Pending bytes have the fd registered for writing whenever nobody is in Send.
THEOREM IOPendingIsPosted == Spec => []PendingIsPosted
<1>1. IOInv => PendingIsPosted BY DEF IOInv, Posted, PendingIsPosted
<1>2. QED BY <1>1, IOInvariant, PTL
=================================================================================
