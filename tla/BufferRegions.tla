---------------------------- MODULE BufferRegions ----------------------------
(***************************************************************************)
(* arcemu-shared/Network/CircularBuffer: the pointer arithmetic, on a       *)
(* record r of the two regions.  Pointers are offsets from m_buffer:        *)
(*   r.ap, r.an   m_regionAPointer, m_regionASize (the oldest bytes)        *)
(*   r.bp, r.bn   m_regionBPointer (NoB for NULL), m_regionBSize            *)
(***************************************************************************)
EXTENDS Integers

CONSTANT Cap     \* the size given to Allocate

ASSUME CapAssumption == Cap \in Nat \ {0}

NoB == -1

Regions == [ap : 0 .. Cap, an : 0 .. Cap, bp : {NoB} \cup 0 .. Cap, bn : 0 .. Cap]

Reg(ap, an, bp, bn) == [ap |-> ap, an |-> an, bp |-> bp, bn |-> bn]

\* CircularBuffer() and Allocate(Cap)
Fresh == Reg(0, 0, NoB, 0)

HasB(r)    == r.bp # NoB
Size(r)    == r.an + r.bn

AFree(r)   == Cap - r.ap - r.an
BeforeA(r) == r.ap

BFree(r) == IF HasB(r) THEN r.ap - r.bp - r.bn ELSE 0

\* Mutant: B is opened whenever there is room before A
OpenAlways(r) == IF ~HasB(r) /\ r.ap > 0 THEN Reg(r.ap, r.an, 0, r.bn) ELSE r

\* Write and GetSpace open region B when it would offer more room than A's tail
Open(r) == IF ~HasB(r) /\ AFree(r) < BeforeA(r) THEN Reg(r.ap, r.an, 0, r.bn) ELSE r

\* what GetSpace returns, once it has opened B
Space(r) == LET o == Open(r) IN IF HasB(o) THEN BFree(o) ELSE AFree(o)

\* GetBuffer: where the next byte is stored
End(r) == IF HasB(r) THEN r.bp + r.bn ELSE r.ap + r.an

\* IncrementWritten
Commit(r, n) == IF HasB(r) THEN Reg(r.ap, r.an, r.bp, r.bn + n)
                           ELSE Reg(r.ap, r.an + n, r.bp, r.bn)

Contiguous(r) == IF r.an > 0 THEN r.an ELSE r.bn
Start(r)      == IF r.an > 0 THEN r.ap ELSE r.bp

Lesser(m, n) == IF m < n THEN m ELSE n

\* how Read and Remove split n bytes between the regions, A first
FromA(r, n) == Lesser(n, r.an)
FromB(r, n) == Lesser(n - FromA(r, n), r.bn)

\* Read and Remove: drop n bytes; when A is used up B becomes the new A
Drop(r, n) ==
  IF FromA(r, n) = r.an
  THEN Reg(0, r.bn - FromB(r, n), NoB, 0)
  ELSE Reg(r.ap + n, r.an - n, r.bp, r.bn)
=============================================================================
