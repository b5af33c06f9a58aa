-------------------------- MODULE TimedEvents_proofs --------------------------
(***************************************************************************)
(* Proofs about TimedEvents, for any number of events and maps, any flags   *)
(* and any number of moves: every reference to an event is counted, and no  *)
(* event of the object is lost between its holders.                         *)
(***************************************************************************)
EXTENDS TimedEvents, FiniteSetTheorems, TLAPS

\* Where the thread of a holder is with an event that is still in its list.
Places == [pc : {"idle", "scan", "due", "call"}, pos : Nat \ {0}, ev : Event \cup {None}]

ObjectTyped ==
  /\ alive \in BOOLEAN /\ inWorld \in BOOLEAN /\ crashed \in BOOLEAN
  /\ instance \in Map \cup {None} /\ holder \in Holder \cup {None}
  /\ inWorld => instance # None
  /\ moves \in 0..MaxMoves
EventsTyped ==
  /\ new \subseteq Event /\ events \subseteq Event \ new /\ deleted \subseteq Event \ new
  /\ ref \in [Event -> Int] /\ repeats \in [Event -> {0, 1}]
  /\ eventAt \in [Event -> Holder \cup {None}]
  /\ IsFiniteSet(events)
  /\ \A e \in new : ref[e] = 0
HoldTyped ==
  /\ list \in [Holder -> Seq(Event)] /\ pool \in [Holder -> Seq(Event)]
  /\ at \in [Holder -> Places]
  /\ adding \in [Holder -> Event \cup {None}]
  /\ \A t \in Holder : adding[t] \notin new

Typed == ObjectTyped /\ EventsTyped /\ HoldTyped

\* The list has the entry an Update is at, until it erases it itself: others only append.
Running(h) == at[h].pc = "due" \/ (at[h].pc = "call" /\ at[h].ev \notin Deletes)

Slots ==
  \A h \in Holder :
    /\ at[h].pos \in 1..Len(list[h]) + 1
    /\ Running(h) => at[h].pos \in 1..Len(list[h]) /\ list[h][at[h].pos] = at[h].ev
    /\ at[h].pc \in {"due", "call"} => at[h].ev \in Event

\* An event that belongs to no holder is assigned to none.
Unheld == holder = None => \A e \in events \ deleted : eventAt[e] = None

Held ==
  \A e \in events \ deleted : eventAt[e] = holder /\ holder # None =>
    \/ e \in Range(list[holder]) \cup Range(pool[holder])
    \/ \E t \in Holder : adding[t] = e

\* A flagged event is never assigned to WORLD_INSTANCE: event_AddEvent frees it
\* instead, and a relocation goes to the holder of a map or to none.
NotAssigned == \A e \in Flagged : eventAt[e] # World

\* References to e: the entries of the lists, those of the pools, and the rest.
Of(q, e) == {i \in DOMAIN q : q[i] = e}
In(f, k, e) == UNION {{h} \X {k} \X Of(f[h], e) : h \in Holder}
Listed(e) == In(list, "list", e)
Pooled(e) == In(pool, "pool", e)
Calls(p, h, e) == p[h].pc = "call" /\ p[h].ev = e /\ e \in Deletes
MarksOf(es, p, e) == {<<None, "object", 0>> : x \in es \cap {e}}
                     \cup {<<h, "call", 0>> : h \in {g \in Holder : Calls(p, g, e)}}
Marks(e)  == MarksOf(events, at, e)

Counted ==
  \A e \in Event :
    /\ IsFiniteSet(Listed(e)) /\ IsFiniteSet(Pooled(e)) /\ IsFiniteSet(Marks(e))
    /\ ref[e] = Cardinality(Listed(e)) + Cardinality(Pooled(e)) + Cardinality(Marks(e))

IInv == Typed /\ Slots /\ Unheld /\ Held /\ NotAssigned /\ FlaggedNotInWorld /\ Counted

-----------------------------------------------------------------------------
(* Sequences of events: the lists and the insert pools.                    *)

LEMMA RangeIs ==
  ASSUME NEW q \in Seq(Event), NEW x
  PROVE  x \in Range(q) <=> \E i \in 1..Len(q) : q[i] = x
BY DEF Range

LEMMA Concatenated ==
  ASSUME NEW u \in Seq(Event), NEW v \in Seq(Event)
  PROVE  /\ u \o v \in Seq(Event) /\ Len(u \o v) = Len(u) + Len(v)
         /\ \A i \in 1..Len(u) : (u \o v)[i] = u[i]
         /\ \A i \in 1..Len(v) : (u \o v)[Len(u) + i] = v[i]
OBVIOUS

LEMMA ConcatenatedRange ==
  ASSUME NEW u \in Seq(Event), NEW v \in Seq(Event)
  PROVE  Range(u \o v) = Range(u) \cup Range(v)
<1> DEFINE w == u \o v
<1>1. /\ w \in Seq(Event) /\ Len(w) = Len(u) + Len(v) /\ Len(u) \in Nat /\ Len(v) \in Nat
      /\ \A i \in 1..Len(u) : w[i] = u[i]
      /\ \A i \in 1..Len(v) : w[Len(u) + i] = v[i]
  BY Concatenated
<1> HIDE DEF w
<1>2. ASSUME NEW i \in 1..Len(w) PROVE w[i] \in Range(u) \cup Range(v)
  <2>1. CASE i <= Len(u)
    <3>1. i \in 1..Len(u) /\ w[i] = u[i]
      BY <1>1, <2>1
    <3>2. QED BY <3>1, RangeIs
  <2>2. CASE i > Len(u)
    <3>1. i - Len(u) \in 1..Len(v) /\ Len(u) + (i - Len(u)) = i
      BY <1>1, <2>2
    <3>2. w[i] = v[i - Len(u)]
      BY <1>1, <3>1
    <3>3. QED BY <3>1, <3>2, RangeIs
  <2>3. QED BY <1>1, <2>1, <2>2
<1>3. ASSUME NEW i \in 1..Len(u) PROVE u[i] \in Range(w)
  <2>1. i \in 1..Len(w) /\ w[i] = u[i]
    BY <1>1
  <2>2. QED BY <1>1, <2>1, RangeIs
<1>4. ASSUME NEW i \in 1..Len(v) PROVE v[i] \in Range(w)
  <2>1. Len(u) + i \in 1..Len(w) /\ w[Len(u) + i] = v[i]
    BY <1>1
  <2>2. QED BY <1>1, <2>1, RangeIs
<1>5. Range(w) \subseteq Range(u) \cup Range(v)
  BY <1>1, <1>2, RangeIs
<1>6. Range(u) \subseteq Range(w) /\ Range(v) \subseteq Range(w)
  BY <1>3, <1>4, RangeIs
<1>7. QED BY <1>5, <1>6 DEF w

\* What is left when entry k is erased.
LEMMA Removed ==
  ASSUME NEW q \in Seq(Event), NEW k \in 1..Len(q)
  PROVE  /\ RemoveAt(q, k) \in Seq(Event) /\ Len(RemoveAt(q, k)) = Len(q) - 1
         /\ \A i \in 1..k - 1 : RemoveAt(q, k)[i] = q[i]
         /\ \A i \in k..Len(q) - 1 : RemoveAt(q, k)[i] = q[i + 1]
<1> DEFINE r == RemoveAt(q, k)
           u == SubSeq(q, 1, k - 1)
           v == SubSeq(q, k + 1, Len(q))
<1>1. /\ Len(q) \in Nat /\ k \in Nat \ {0} /\ k <= Len(q)
      /\ u \in Seq(Event) /\ Len(u) = k - 1 /\ \A i \in 1..k - 1 : u[i] = q[i]
      /\ v \in Seq(Event) /\ Len(v) = Len(q) - k /\ \A i \in 1..Len(q) - k : v[i] = q[i + k]
  OBVIOUS
<1>2. r = u \o v
  BY DEF RemoveAt
<1> HIDE DEF r, u, v
<1>3. /\ r \in Seq(Event) /\ Len(r) = Len(u) + Len(v)
      /\ \A i \in 1..Len(u) : r[i] = u[i]
      /\ \A i \in 1..Len(v) : r[Len(u) + i] = v[i]
  BY <1>1, <1>2, Concatenated, ZenonT(30)
<1>4. Len(r) = Len(q) - 1 /\ \A i \in 1..k - 1 : r[i] = q[i]
  BY <1>1, <1>3
<1>5. ASSUME NEW i \in k..Len(q) - 1 PROVE r[i] = q[i + 1]
  <2>1. i - (k - 1) \in 1..Len(v) /\ Len(u) + (i - (k - 1)) = i /\ (i - (k - 1)) + k = i + 1
    BY <1>1
  <2>2. r[i] = v[i - (k - 1)]
    BY <1>3, <2>1
  <2>3. v[i - (k - 1)] = q[(i - (k - 1)) + k]
    BY <1>1, <2>1
  <2>4. QED BY <2>1, <2>2, <2>3
<1>6. QED BY <1>3, <1>4, <1>5 DEF r

\* Only the event that is erased may leave the list.
LEMMA RemovedRange ==
  ASSUME NEW q \in Seq(Event), NEW k \in 1..Len(q), NEW e \in Range(q), e # q[k]
  PROVE  e \in Range(RemoveAt(q, k))
<1> DEFINE r == RemoveAt(q, k)
<1>1. /\ r \in Seq(Event) /\ Len(r) = Len(q) - 1 /\ Len(q) \in Nat
      /\ \A i \in 1..k - 1 : r[i] = q[i]
      /\ \A i \in k..Len(q) - 1 : r[i] = q[i + 1]
  BY Removed
<1> HIDE DEF r
<1>2. PICK i \in 1..Len(q) : q[i] = e
  BY RangeIs
<1>3. CASE i < k
  <2>1. i \in 1..Len(r) /\ r[i] = e
    BY <1>1, <1>2, <1>3
  <2>2. QED BY <1>1, <2>1, RangeIs DEF r
<1>4. CASE i > k
  <2>1. i - 1 \in 1..Len(r) /\ i - 1 \in k..Len(q) - 1 /\ (i - 1) + 1 = i
    BY <1>1, <1>4
  <2>2. r[i - 1] = e
    BY <1>1, <1>2, <2>1
  <2>3. QED BY <1>1, <2>1, <2>2, RangeIs DEF r
<1>5. QED BY <1>2, <1>3, <1>4

\* The order in which event_Relocate hands over a set of events.
LEMMA SetInOrder ==
  ASSUME NEW S \in SUBSET Event, IsFiniteSet(S)
  PROVE  /\ SetToSeq(S) \in Seq(Event) /\ IsInjective(SetToSeq(S))
         /\ Range(SetToSeq(S)) = S
<1> DEFINE n == Cardinality(S)
           s == SetToSeq(S)
<1>1. n \in Nat /\ \E f \in [1..n -> S] : IsInjective(f)
  BY FS_CardinalityType DEF ExistsBijection, Bijection, Injection
<1>2. s \in [1..n -> S] /\ IsInjective(s)
  BY <1>1 DEF SetToSeq
<1>3. s \in Injection(1..n, S) /\ Cardinality(1..n) = n
  BY <1>1, <1>2, FS_Interval DEF Injection
<1> HIDE DEF s, n
<1>4. s \in Surjection(1..n, S)
  BY <1>3, FS_Injection DEF n
<1>5. Range(s) = S
  BY <1>2, <1>4 DEF Surjection, Range
<1>6. s \in Seq(Event)
  BY <1>1, <1>2
<1>7. QED BY <1>2, <1>5, <1>6 DEF s

\* The entries of a set of places in a pool, counted from the first.
Rank(S, i) == Cardinality({j \in S : j <= i})

LEMMA RankIsBijection ==
  ASSUME NEW m \in Nat, NEW S \in SUBSET (1..m)
  PROVE  /\ IsFiniteSet(S) /\ Cardinality(S) \in Nat
         /\ \A i \in S : Rank(S, i) \in 1..Cardinality(S)
         /\ \A i, j \in S : Rank(S, i) = Rank(S, j) => i = j
         /\ \A n \in 1..Cardinality(S) : \E i \in S : Rank(S, i) = n
<1> DEFINE upto(i) == {j \in S : j <= i}
           c == Cardinality(S)
<1>1. IsFiniteSet(S) /\ c \in Nat
  <2>1. IsFiniteSet(1..m)
    BY FS_Interval
  <2>2. QED BY <2>1, FS_Subset, FS_CardinalityType
<1>2. ASSUME NEW i \in S PROVE /\ IsFiniteSet(upto(i)) /\ Rank(S, i) \in 1..c
  <2>1. upto(i) \in SUBSET S /\ i \in upto(i)
    OBVIOUS
  <2>2. IsFiniteSet(upto(i)) /\ Cardinality(upto(i)) <= c
    BY <1>1, <2>1, FS_Subset
  <2>3. Cardinality(upto(i)) \in Nat /\ Cardinality(upto(i)) # 0
    BY <2>1, <2>2, FS_CardinalityType, FS_EmptySet
  <2>4. QED BY <1>1, <2>2, <2>3 DEF Rank
<1>3. ASSUME NEW i \in S, NEW j \in S, i < j PROVE Rank(S, i) # Rank(S, j)
  <2>1. upto(i) \in SUBSET upto(j) /\ j \in upto(j) /\ j \notin upto(i)
    <3>1. \A k \in S : k \in Int
      OBVIOUS
    <3>2. i \in Int /\ j \in Int /\ \A k \in S : k <= i => k <= j
      BY <1>3, <3>1
    <3>3. ~(j <= i) /\ j <= j
      BY <1>3, <3>2
    <3>4. QED BY <3>2, <3>3
  <2>2. IsFiniteSet(upto(j))
    BY <1>2
  <2>3. Cardinality(upto(j)) # Cardinality(upto(i))
    BY <2>1, <2>2, FS_Subset
  <2>4. QED BY <2>3 DEF Rank
<1>4. \A i, j \in S : Rank(S, i) = Rank(S, j) => i = j
  <2> SUFFICES ASSUME NEW i \in S, NEW j \in S, i # j PROVE Rank(S, i) # Rank(S, j)
    OBVIOUS
  <2>1. i < j \/ j < i
    OBVIOUS
  <2>2. QED BY <1>3, <2>1
<1>5. ASSUME NEW n \in 1..c PROVE \E i \in S : Rank(S, i) = n
  <2> DEFINE f == [i \in S |-> Rank(S, i)]
  <2>1. f \in Injection(S, 1..c)
    BY <1>2, <1>4 DEF Injection, IsInjective
  <2>2. IsFiniteSet(1..c) /\ Cardinality(1..c) = c
    BY <1>1, FS_Interval
  <2>3. f \in Surjection(S, 1..c)
    BY <2>1, <2>2, FS_Injection
  <2>4. QED BY <2>3 DEF Surjection
<1>6. QED BY <1>1, <1>2, <1>4, <1>5

-----------------------------------------------------------------------------
(* References.                                                             *)

LEMMA InIs ==
  ASSUME NEW f, NEW k, NEW e, NEW x
  PROVE  x \in In(f, k, e) <=> \E h \in Holder : \E i \in Of(f[h], e) : x = <<h, k, i>>
BY DEF In

LEMMA MarkIs ==
  ASSUME NEW es, NEW p, NEW e, NEW x
  PROVE  x \in MarksOf(es, p, e)
           <=> \/ e \in es /\ x = <<None, "object", 0>>
               \/ \E h \in Holder : x = <<h, "call", 0>> /\ Calls(p, h, e)
BY DEF MarksOf

LEMMA Disjoint ==
  ASSUME NEW S, NEW T, IsFiniteSet(S), IsFiniteSet(T), S \cap T = {}
  PROVE  IsFiniteSet(S \cup T) /\ Cardinality(S \cup T) = Cardinality(S) + Cardinality(T)
<1>1. Cardinality(S) \in Nat /\ Cardinality(T) \in Nat /\ Cardinality(S \cap T) = 0
  BY FS_CardinalityType, FS_EmptySet
<1>2. /\ IsFiniteSet(S \cup T)
      /\ Cardinality(S \cup T) = Cardinality(S) + Cardinality(T) - Cardinality(S \cap T)
  BY FS_Union
<1>3. QED BY <1>1, <1>2

\* Together they are the references that RefsExact counts.
LEMMA ReferencesCounted ==
  ASSUME Counted, NEW e \in Event
  PROVE  ref[e] = Cardinality(References(e)) /\ ref[e] \in Nat
<1>1. References(e) = (Listed(e) \cup Pooled(e)) \cup Marks(e)
  <2> DEFINE object1 == {<<None, "object", 0>> : x \in events \cap {e}}
             called == {<<h, "call", 0>> : h \in {g \in Holder : at[g].pc = "call" /\ at[g].ev = e
                                                               /\ e \in Deletes}}
  <2>1. References(e) = object1 \cup Listed(e) \cup Pooled(e) \cup called
    BY DEF References, Listed, Pooled, In, Of
  <2>2. Marks(e) = object1 \cup called
    BY DEF Marks, MarksOf, Calls
  <2> HIDE DEF object1, called
  <2>3. QED BY <2>1, <2>2
<1>2. /\ \A x \in Listed(e) : x[2] = "list"
      /\ \A x \in Pooled(e) : x[2] = "pool"
      /\ \A x \in Marks(e) : x[2] \in {"object", "call"}
  BY InIs, MarkIs DEF Listed, Pooled, Marks
<1>3. Listed(e) \cap Pooled(e) = {} /\ (Listed(e) \cup Pooled(e)) \cap Marks(e) = {}
  BY <1>2
<1>4. IsFiniteSet(Listed(e)) /\ IsFiniteSet(Pooled(e)) /\ IsFiniteSet(Marks(e))
  BY DEF Counted
<1>5. /\ Cardinality(Listed(e)) \in Nat /\ Cardinality(Pooled(e)) \in Nat
      /\ Cardinality(Marks(e)) \in Nat
  BY <1>4, FS_CardinalityType
<1>6. /\ IsFiniteSet(Listed(e) \cup Pooled(e))
      /\ Cardinality(Listed(e) \cup Pooled(e)) = Cardinality(Listed(e)) + Cardinality(Pooled(e))
  BY <1>3, <1>4, Disjoint
<1>7. Cardinality((Listed(e) \cup Pooled(e)) \cup Marks(e))
        = Cardinality(Listed(e)) + Cardinality(Pooled(e)) + Cardinality(Marks(e))
  BY <1>3, <1>4, <1>6, Disjoint
<1>8. QED BY <1>1, <1>5, <1>7 DEF Counted

\* How often an event is in a sequence.
LEMMA OfFinite ==
  ASSUME NEW q \in Seq(Event), NEW e
  PROVE  /\ IsFiniteSet(Of(q, e)) /\ Cardinality(Of(q, e)) \in Nat
         /\ Of(q, e) = {i \in 1..Len(q) : q[i] = e}
<1>1. Of(q, e) = {i \in 1..Len(q) : q[i] = e} /\ Len(q) \in Nat
  BY DEF Of
<1>2. IsFiniteSet(1..Len(q))
  BY <1>1, FS_Interval
<1>3. QED BY <1>1, <1>2, FS_Subset, FS_CardinalityType

LEMMA SameSize ==
  ASSUME NEW S, NEW T, IsFiniteSet(S), NEW f \in [S -> T],
         \A x, y \in S : f[x] = f[y] => x = y, \A y \in T : \E x \in S : f[x] = y
  PROVE  IsFiniteSet(T) /\ Cardinality(T) = Cardinality(S)
<1>1. f \in Bijection(S, T)
  BY DEF Bijection, Injection, Surjection, IsInjective
<1>2. ExistsBijection(S, T)
  BY <1>1 DEF ExistsBijection
<1>3. QED BY <1>2, FS_Bijection

LEMMA OfConcatenated ==
  ASSUME NEW u \in Seq(Event), NEW v \in Seq(Event), NEW e
  PROVE  Cardinality(Of(u \o v, e)) = Cardinality(Of(u, e)) + Cardinality(Of(v, e))
<1> DEFINE w == u \o v
           n == Len(u)
           behind == {i \in n + 1..Len(w) : w[i] = e}
<1>1. /\ w \in Seq(Event) /\ Len(w) = n + Len(v) /\ n \in Nat /\ Len(v) \in Nat
      /\ \A i \in 1..n : w[i] = u[i]
      /\ \A i \in 1..Len(v) : w[n + i] = v[i]
  BY Concatenated
<1> HIDE DEF w, n
<1>2. /\ Of(w, e) = {i \in 1..Len(w) : w[i] = e} /\ Of(u, e) = {i \in 1..n : u[i] = e}
      /\ Of(v, e) = {i \in 1..Len(v) : v[i] = e}
      /\ IsFiniteSet(Of(u, e)) /\ IsFiniteSet(Of(v, e))
      /\ Cardinality(Of(u, e)) \in Nat /\ Cardinality(Of(v, e)) \in Nat
  BY <1>1, OfFinite DEF n
<1>3. Of(w, e) = Of(u, e) \cup behind /\ Of(u, e) \cap behind = {}
  BY <1>1, <1>2
<1>4. IsFiniteSet(behind) /\ Cardinality(behind) = Cardinality(Of(v, e))
  <2> DEFINE f == [i \in Of(v, e) |-> n + i]
  <2>1. f \in [Of(v, e) -> behind]
    <3>1. ASSUME NEW i \in Of(v, e) PROVE n + i \in behind
      BY <1>1, <1>2
    <3>2. QED BY <3>1
  <2>a. \A i, j \in Of(v, e) : f[i] = f[j] => i = j
    BY <1>1, <1>2
  <2>2. ASSUME NEW j \in behind PROVE \E i \in Of(v, e) : f[i] = j
    <3>1. j - n \in 1..Len(v) /\ n + (j - n) = j
      BY <1>1
    <3>2. v[j - n] = e
      BY <1>1, <3>1
    <3>3. j - n \in Of(v, e)
      BY <1>2, <3>1, <3>2
    <3>4. QED BY <3>1, <3>3
  <2> HIDE DEF f, behind
  <2>3. QED BY <1>2, <2>1, <2>a, <2>2, SameSize, ZenonT(30)
<1> HIDE DEF behind
<1>5. Cardinality(Of(w, e)) = Cardinality(Of(u, e)) + Cardinality(Of(v, e))
  BY <1>2, <1>3, <1>4, Disjoint, ZenonT(30)
<1>6. QED BY <1>5 DEF w

LEMMA OfSingle ==
  ASSUME NEW d \in Event, NEW e
  PROVE  Cardinality(Of(<<d>>, e)) = IF d = e THEN 1 ELSE 0
<1>1. Of(<<d>>, e) = IF d = e THEN {1} ELSE {}
  BY DEF Of
<1>2. QED BY <1>1, FS_Singleton, FS_EmptySet

LEMMA OfRemoved ==
  ASSUME NEW q \in Seq(Event), NEW k \in 1..Len(q), NEW e
  PROVE  Cardinality(Of(RemoveAt(q, k), e)) = Cardinality(Of(q, e)) - IF q[k] = e THEN 1 ELSE 0
<1> DEFINE u == SubSeq(q, 1, k - 1)
           v == SubSeq(q, k + 1, Len(q))
           s == u \o <<q[k]>>
<1>1. /\ Len(q) \in Nat /\ k \in Nat \ {0} /\ k <= Len(q) /\ q[k] \in Event /\ <<q[k]>> \in Seq(Event)
      /\ u \in Seq(Event) /\ Len(u) = k - 1 /\ \A i \in 1..k - 1 : u[i] = q[i]
      /\ v \in Seq(Event) /\ Len(v) = Len(q) - k /\ \A i \in 1..Len(q) - k : v[i] = q[i + k]
  OBVIOUS
<1>2. RemoveAt(q, k) = u \o v
  BY DEF RemoveAt
<1> HIDE DEF u, v
<1>3. /\ s \in Seq(Event) /\ Len(s) = k
      /\ \A i \in 1..k - 1 : s[i] = q[i]
      /\ s[k] = q[k]
  <2> DEFINE c == <<q[k]>>
  <2>1. c \in Seq(Event) /\ Len(c) = 1 /\ c[1] = q[k] /\ 1 \in 1..1
    BY <1>1
  <2>2. s = u \o c
    OBVIOUS
  <2> HIDE DEF s, c
  <2>3. /\ u \o c \in Seq(Event) /\ Len(u \o c) = Len(u) + Len(c)
        /\ \A i \in 1..Len(u) : (u \o c)[i] = u[i]
        /\ \A i \in 1..Len(c) : (u \o c)[Len(u) + i] = c[i]
    BY <1>1, <2>1, Concatenated
  <2>4. s[Len(u) + 1] = c[1] /\ Len(u) + 1 = k
    BY <1>1, <2>1, <2>2, <2>3
  <2>5. QED BY <1>1, <2>1, <2>2, <2>3, <2>4
<1> HIDE DEF s
<1>4. q = s \o v
  <2> DEFINE z == s \o v
  <2>1. /\ z \in Seq(Event) /\ Len(z) = Len(s) + Len(v)
        /\ \A i \in 1..Len(s) : z[i] = s[i]
        /\ \A i \in 1..Len(v) : z[Len(s) + i] = v[i]
    BY <1>1, <1>3, Concatenated
  <2> HIDE DEF z
  <2>2. ASSUME NEW i \in 1..Len(q) PROVE z[i] = q[i]
    <3>1. CASE i <= k
      <4>1. i = k \/ i \in 1..k - 1
        BY <1>1, <3>1
      <4>2. QED BY <1>1, <1>3, <2>1, <3>1, <4>1
    <3>2. CASE i > k
      <4>1. i - k \in 1..Len(q) - k /\ k + (i - k) = i /\ (i - k) + k = i
        BY <1>1, <3>2
      <4>2. z[i] = v[i - k] /\ v[i - k] = q[i]
        BY <1>1, <1>3, <2>1, <4>1
      <4>3. QED BY <4>2
    <3>3. QED BY <1>1, <3>1, <3>2
  <2>3. z = q
    <3>1. Len(z) = Len(q)
      BY <1>1, <1>3, <2>1
    <3>2. z \in [1..Len(q) -> Event] /\ q \in [1..Len(q) -> Event]
      BY <2>1, <3>1
    <3>3. QED BY <2>2, <3>2
  <2>4. QED BY <2>3 DEF z
<1>5. /\ Cardinality(Of(q, e)) = Cardinality(Of(s, e)) + Cardinality(Of(v, e))
      /\ Cardinality(Of(RemoveAt(q, k), e)) = Cardinality(Of(u, e)) + Cardinality(Of(v, e))
  BY <1>1, <1>2, <1>3, <1>4, OfConcatenated
<1>6. Cardinality(Of(s, e)) = Cardinality(Of(u, e)) + Cardinality(Of(<<q[k]>>, e))
  BY <1>1, OfConcatenated, ZenonT(30) DEF s
<1>7. Cardinality(Of(u, e)) \in Nat /\ Cardinality(Of(v, e)) \in Nat
  BY <1>1, OfFinite
<1>8. Cardinality(Of(<<q[k]>>, e)) = IF q[k] = e THEN 1 ELSE 0
  BY <1>1, OfSingle
<1>9. QED BY <1>5, <1>6, <1>7, <1>8

LEMMA OfInjective ==
  ASSUME NEW q \in Seq(Event), IsInjective(q), NEW e
  PROVE  Cardinality(Of(q, e)) = IF e \in Range(q) THEN 1 ELSE 0
<1>1. CASE e \in Range(q)
  <2>1. PICK i \in DOMAIN q : q[i] = e
    BY <1>1 DEF Range
  <2>2. Of(q, e) = {i}
    BY <2>1 DEF Of, IsInjective
  <2>3. QED BY <1>1, <2>2, FS_Singleton
<1>2. CASE e \notin Range(q)
  <2>1. Of(q, e) = {}
    BY <1>2 DEF Of, Range
  <2>2. QED BY <1>2, <2>1, FS_EmptySet
<1>3. QED BY <1>1, <1>2

-----------------------------------------------------------------------------
(* Stores: the lists, or the pools, of all holders.                        *)

Store(f) == f \in [Holder -> Seq(Event)]

\* g is f with another sequence at h.
Replaces(f, g, h, q) == Store(g) /\ g[h] = q /\ \A u \in Holder \ {h} : g[u] = f[u]

\* g is f with the sequence at h changed: without entry p, with q appended, emptied.
Erases(f, g, h, p)  == g = [f EXCEPT ![h] = RemoveAt(@, p)]
Appends(f, g, h, q) == g = [f EXCEPT ![h] = @ \o q]
Clears(f, g, h)     == g = [f EXCEPT ![h] = <<>>]

\* One store is replaced: the entries of e in the others stay.
LEMMA InReplaced ==
  ASSUME NEW f, Store(f), NEW k, NEW e, NEW h \in Holder, NEW q \in Seq(Event),
         NEW g, Replaces(f, g, h, q), IsFiniteSet(In(f, k, e))
  PROVE  /\ IsFiniteSet(In(g, k, e))
         /\ Cardinality(In(g, k, e))
              = Cardinality(In(f, k, e)) - Cardinality(Of(f[h], e)) + Cardinality(Of(q, e))
<1> DEFINE here(s) == {<<h, k, i>> : i \in Of(s, e)}
           others  == {x \in In(f, k, e) : x[1] # h}
<1>1. ASSUME NEW s \in Seq(Event)
      PROVE  IsFiniteSet(here(s)) /\ Cardinality(here(s)) = Cardinality(Of(s, e))
  <2> DEFINE m == [i \in Of(s, e) |-> <<h, k, i>>]
  <2>1. IsFiniteSet(Of(s, e))
    BY OfFinite
  <2>2. /\ m \in [Of(s, e) -> here(s)] /\ \A x, y \in Of(s, e) : m[x] = m[y] => x = y
        /\ \A y \in here(s) : \E x \in Of(s, e) : m[x] = y
    OBVIOUS
  <2> HIDE DEF m, here
  <2>3. QED BY <2>1, <2>2, SameSize
<1>2. /\ In(f, k, e) = others \cup here(f[h]) /\ others \cap here(f[h]) = {}
      /\ In(g, k, e) = others \cup here(q) /\ others \cap here(q) = {}
  BY InIs DEF Replaces
<1>3. IsFiniteSet(others)
  BY FS_Subset
<1>4. f[h] \in Seq(Event)
  BY DEF Store
<1> HIDE DEF here, others
<1>5. Cardinality(In(f, k, e)) = Cardinality(others) + Cardinality(Of(f[h], e))
  BY <1>1, <1>2, <1>3, <1>4, Disjoint
<1>6. /\ IsFiniteSet(In(g, k, e))
      /\ Cardinality(In(g, k, e)) = Cardinality(others) + Cardinality(Of(q, e))
  BY <1>1, <1>2, <1>3, <1>4, Disjoint, ZenonT(30)
<1>7. /\ Cardinality(others) \in Nat /\ Cardinality(Of(f[h], e)) \in Nat
      /\ Cardinality(Of(q, e)) \in Nat
  BY <1>3, <1>4, OfFinite, FS_CardinalityType
<1>8. QED BY <1>5, <1>6, <1>7

\* Entry p of a store is erased.
LEMMA InErased ==
  ASSUME NEW f, Store(f), NEW k, NEW e, NEW h \in Holder, NEW p \in 1..Len(f[h]),
         IsFiniteSet(In(f, k, e)), NEW g, Erases(f, g, h, p)
  PROVE  /\ Store(g) /\ IsFiniteSet(In(g, k, e))
         /\ Cardinality(In(g, k, e)) = Cardinality(In(f, k, e)) - IF f[h][p] = e THEN 1 ELSE 0
<1>1. f[h] \in Seq(Event) /\ RemoveAt(f[h], p) \in Seq(Event)
  BY Removed DEF Store
<1>2. Replaces(f, g, h, RemoveAt(f[h], p))
  BY <1>1 DEF Store, Replaces, Erases
<1>3. /\ IsFiniteSet(In(g, k, e))
      /\ Cardinality(In(g, k, e))
           = Cardinality(In(f, k, e)) - Cardinality(Of(f[h], e)) + Cardinality(Of(RemoveAt(f[h], p), e))
  BY <1>1, <1>2, InReplaced
<1>4. Cardinality(Of(RemoveAt(f[h], p), e)) = Cardinality(Of(f[h], e)) - IF f[h][p] = e THEN 1 ELSE 0
  BY <1>1, OfRemoved
<1>5. Cardinality(Of(f[h], e)) \in Nat /\ Cardinality(In(f, k, e)) \in Nat
  BY <1>1, OfFinite, FS_CardinalityType
<1>6. QED BY <1>2, <1>3, <1>4, <1>5 DEF Replaces

\* Entries are appended to a store.
LEMMA InAppended ==
  ASSUME NEW f, Store(f), NEW k, NEW e, NEW h \in Holder, NEW q \in Seq(Event),
         IsFiniteSet(In(f, k, e)), NEW g, Appends(f, g, h, q)
  PROVE  /\ Store(g) /\ IsFiniteSet(In(g, k, e))
         /\ Cardinality(In(g, k, e)) = Cardinality(In(f, k, e)) + Cardinality(Of(q, e))
<1> DEFINE r == f[h] \o q
<1>1. f[h] \in Seq(Event) /\ r \in Seq(Event)
  BY Concatenated DEF Store
<1>2. Replaces(f, g, h, r)
  BY <1>1 DEF Store, Replaces, Appends
<1>3. Cardinality(Of(r, e)) = Cardinality(Of(f[h], e)) + Cardinality(Of(q, e))
  BY <1>1, OfConcatenated
<1> HIDE DEF r
<1>4. /\ IsFiniteSet(In(g, k, e))
      /\ Cardinality(In(g, k, e))
           = Cardinality(In(f, k, e)) - Cardinality(Of(f[h], e)) + Cardinality(Of(r, e))
  BY <1>1, <1>2, InReplaced
<1>5. /\ Cardinality(Of(f[h], e)) \in Nat /\ Cardinality(In(f, k, e)) \in Nat
      /\ Cardinality(Of(q, e)) \in Nat
  BY <1>1, OfFinite, FS_CardinalityType
<1>6. QED BY <1>2, <1>3, <1>4, <1>5 DEF Replaces

\* A store is emptied.
LEMMA InCleared ==
  ASSUME NEW f, Store(f), NEW k, NEW e, NEW h \in Holder,
         IsFiniteSet(In(f, k, e)), NEW g, Clears(f, g, h)
  PROVE  /\ Store(g) /\ IsFiniteSet(In(g, k, e))
         /\ Cardinality(In(g, k, e)) = Cardinality(In(f, k, e)) - Cardinality(Of(f[h], e))
<1> DEFINE r == <<>>
<1>1. Replaces(f, g, h, r) /\ r \in Seq(Event) /\ f[h] \in Seq(Event)
  BY DEF Store, Replaces, Clears
<1>2. Cardinality(Of(r, e)) = 0
  <2>1. Of(r, e) = {}
    BY DEF Of
  <2>2. QED BY <2>1, FS_EmptySet
<1> HIDE DEF r
<1>3. /\ IsFiniteSet(In(g, k, e))
      /\ Cardinality(In(g, k, e))
           = Cardinality(In(f, k, e)) - Cardinality(Of(f[h], e)) + Cardinality(Of(r, e))
  BY <1>1, InReplaced
<1>4. Cardinality(Of(f[h], e)) \in Nat /\ Cardinality(In(f, k, e)) \in Nat
  BY <1>1, OfFinite, FS_CardinalityType
<1>5. QED BY <1>1, <1>2, <1>3, <1>4 DEF Replaces

-----------------------------------------------------------------------------
(* The rest of the references.                                             *)

SameCalls(p, q, e, hs) == \A h \in hs : Calls(p, h, e) <=> Calls(q, h, e)

LEMMA MarksSame ==
  ASSUME NEW es, NEW fs, NEW p, NEW q, NEW e, e \in es <=> e \in fs, SameCalls(p, q, e, Holder)
  PROVE  MarksOf(fs, q, e) = MarksOf(es, p, e)
<1>1. \A h \in Holder : Calls(p, h, e) <=> Calls(q, h, e)
  BY DEF SameCalls
<1>2. \A x : x \in MarksOf(fs, q, e) <=> x \in MarksOf(es, p, e)
  BY <1>1, MarkIs
<1>3. QED BY <1>2

\* Marks m has one more than marks l, namely x.
OneMore(l, m) ==
  /\ IsFiniteSet(l) <=> IsFiniteSet(m)
  /\ IsFiniteSet(l) => Cardinality(m) = Cardinality(l) + 1 /\ Cardinality(l) \in Nat

LEMMA AnotherMark ==
  ASSUME NEW l, NEW x, x \notin l
  PROVE  OneMore(l, l \cup {x})
<1>1. l \in SUBSET (l \cup {x})
  OBVIOUS
<1>2. IsFiniteSet(l \cup {x}) => IsFiniteSet(l)
  BY <1>1, FS_Subset
<1>3. QED BY <1>2, FS_AddElement, FS_CardinalityType DEF OneMore

LEMMA MarkOfObject ==
  ASSUME NEW es, NEW fs, NEW p, NEW q, NEW e, e \notin es, e \in fs, SameCalls(p, q, e, Holder)
  PROVE  OneMore(MarksOf(es, p, e), MarksOf(fs, q, e))
<1> DEFINE x == <<None, "object", 0>>
<1>1. MarksOf(fs, q, e) = MarksOf(es, p, e) \cup {x} /\ x \notin MarksOf(es, p, e)
  BY MarkIs DEF SameCalls
<1>2. QED BY <1>1, AnotherMark

LEMMA MarkOfCall ==
  ASSUME NEW es, NEW p, NEW q, NEW e, NEW h \in Holder, ~Calls(p, h, e), Calls(q, h, e),
         SameCalls(p, q, e, Holder \ {h})
  PROVE  OneMore(MarksOf(es, p, e), MarksOf(es, q, e))
<1> DEFINE x == <<h, "call", 0>>
<1>1. MarksOf(es, q, e) = MarksOf(es, p, e) \cup {x} /\ x \notin MarksOf(es, p, e)
  BY MarkIs DEF SameCalls
<1>2. QED BY <1>1, AnotherMark

\* BeginUpdate: of the entries of the pool, those of the holder go to its list.
LEMMA PendingEntries ==
  ASSUME HoldTyped, NEW h \in Holder
  PROVE  /\ Pending(h) \in Seq(Event)
         /\ \A e \in Range(pool[h]) : Wanted(h, e) => e \in Range(Pending(h))
         /\ \A e : Cardinality(Of(Pending(h), e))
                    = IF Wanted(h, e) THEN Cardinality(Of(pool[h], e)) ELSE 0
<1> DEFINE q == pool[h]
           keep == {i \in DOMAIN q : Wanted(h, q[i])}
           place(n) == CHOOSE i \in keep : Rank(keep, i) = n
           c == Cardinality(keep)
           p == [n \in 1..c |-> q[place(n)]]
<1>1. q \in Seq(Event) /\ Len(q) \in Nat /\ DOMAIN q = 1..Len(q) /\ keep \in SUBSET (1..Len(q))
  BY DEF HoldTyped
<1>2. Pending(h) = p
  BY DEF Pending, Rank
<1>3. \A i \in keep : i \in 1..Len(q) /\ q[i] \in Event /\ Wanted(h, q[i])
  BY <1>1
<1>4. \A i \in 1..Len(q) : Wanted(h, q[i]) => i \in keep
  BY <1>1
<1> HIDE DEF q, keep
<1>5. /\ c \in Nat
      /\ \A i \in keep : Rank(keep, i) \in 1..c
      /\ \A i, j \in keep : Rank(keep, i) = Rank(keep, j) => i = j
      /\ \A n \in 1..c : \E i \in keep : Rank(keep, i) = n
  BY <1>1, RankIsBijection
<1> HIDE DEF c
<1>6. \A n \in 1..c : place(n) \in keep /\ Rank(keep, place(n)) = n
  BY <1>5
<1>7. \A i \in keep : place(Rank(keep, i)) = i
  BY <1>5, <1>6
<1> HIDE DEF place
<1>8. /\ p \in Seq(Event) /\ DOMAIN p = 1..c
      /\ \A n \in 1..c : p[n] = q[place(n)]
  BY <1>3, <1>5, <1>6
<1> HIDE DEF p
<1>9. \A i \in keep : Rank(keep, i) \in 1..c /\ p[Rank(keep, i)] = q[i]
  BY <1>5, <1>7, <1>8
<1>10. ASSUME NEW e \in Range(q), Wanted(h, e) PROVE e \in Range(p)
  <2>1. PICK i \in 1..Len(q) : q[i] = e
    BY <1>1, <1>10, RangeIs
  <2>2. i \in keep
    BY <1>4, <1>10, <2>1
  <2>3. QED BY <1>8, <1>9, <2>1, <2>2 DEF Range
<1>11. ASSUME NEW e, Wanted(h, e) PROVE Cardinality(Of(p, e)) = Cardinality(Of(q, e))
  <2> DEFINE f == [i \in Of(q, e) |-> Rank(keep, i)]
  <2>1. IsFiniteSet(Of(q, e)) /\ \A i \in Of(q, e) : i \in keep /\ q[i] = e
    BY <1>1, <1>4, <1>11, OfFinite
  <2>2. f \in [Of(q, e) -> Of(p, e)]
    BY <1>8, <1>9, <2>1 DEF Of
  <2>3. \A i, j \in Of(q, e) : f[i] = f[j] => i = j
    BY <1>5, <2>1
  <2>4. ASSUME NEW n \in Of(p, e) PROVE \E i \in Of(q, e) : f[i] = n
    <3>1. n \in 1..c /\ q[place(n)] = e
      BY <1>8 DEF Of
    <3>2. place(n) \in Of(q, e) /\ Rank(keep, place(n)) = n
      BY <1>1, <1>3, <1>6, <3>1 DEF Of
    <3>3. QED BY <3>2
  <2> HIDE DEF f
  <2>5. QED BY <2>1, <2>2, <2>3, <2>4, SameSize
<1>12. ASSUME NEW e, ~Wanted(h, e) PROVE Cardinality(Of(p, e)) = 0
  <2>1. Of(p, e) = {}
    BY <1>3, <1>6, <1>8, <1>12 DEF Of
  <2>2. QED BY <2>1, FS_EmptySet
<1>13. QED BY <1>2, <1>8, <1>10, <1>11, <1>12 DEF q

-----------------------------------------------------------------------------
(* The operations of the object.                                           *)

LEMMA EventsInit == EventsAssumption /\ Init => IInv
<1> SUFFICES ASSUME EventsAssumption, Init PROVE IInv
  OBVIOUS
<1> USE DEF EventsAssumption, Init, Holder, At
<1>1. Typed
  <2>1. ObjectTyped
    <3>1. alive \in BOOLEAN /\ inWorld \in BOOLEAN /\ crashed \in BOOLEAN /\ ~inWorld
      OBVIOUS
    <3>2. moves \in 0..MaxMoves
      OBVIOUS
    <3>3. QED BY <3>1, <3>2 DEF ObjectTyped
  <2>2. EventsTyped
    BY FS_EmptySet DEF EventsTyped
  <2>3. HoldTyped
    BY DEF HoldTyped, Places
  <2>4. QED BY <2>1, <2>2, <2>3 DEF Typed
<1>2. Slots /\ Unheld /\ Held /\ NotAssigned /\ FlaggedNotInWorld
  BY DEF Slots, Running, Unheld, Held, NotAssigned, FlaggedNotInWorld
<1>3. Counted
  <2> SUFFICES ASSUME NEW e \in Event
               PROVE  /\ IsFiniteSet(Listed(e)) /\ IsFiniteSet(Pooled(e)) /\ IsFiniteSet(Marks(e))
                      /\ ref[e] = Cardinality(Listed(e)) + Cardinality(Pooled(e))
                                    + Cardinality(Marks(e))
    BY DEF Counted
  <2>1. Listed(e) = {} /\ Pooled(e) = {}
    BY DEF Listed, Pooled, In, Of
  <2>2. Marks(e) = {}
    BY DEF Marks, MarksOf, Calls
  <2>3. QED BY <2>1, <2>2, FS_EmptySet
<1>4. QED BY <1>1, <1>2, <1>3 DEF IInv

\* A null or freed pointer changes nothing else.
LEMMA CrashKeeps ==
  ASSUME IInv, Crash
  PROVE  IInv'
<1> USE DEF Crash, object, event, hold
<1>1. Typed'
  BY DEF IInv, Typed, ObjectTyped, EventsTyped, HoldTyped
<1>2. Slots' /\ Unheld' /\ Held' /\ NotAssigned' /\ FlaggedNotInWorld'
  BY DEF IInv, Slots, Running, Unheld, Held, NotAssigned, FlaggedNotInWorld
<1>3. Counted'
  BY DEF IInv, Counted, Listed, Pooled, Marks
<1>4. QED BY <1>1, <1>2, <1>3 DEF IInv

\* The count is kept when what changes in it is what changes in the references:
\* the action's lemma says so for one event.
Balanced(e) ==
  /\ IsFiniteSet(Listed(e)') /\ IsFiniteSet(Pooled(e)') /\ IsFiniteSet(Marks(e)')
  /\ ref'[e] - ref[e] = (Cardinality(Listed(e)') - Cardinality(Listed(e)))
                          + (Cardinality(Pooled(e)') - Cardinality(Pooled(e)))
                          + (Cardinality(Marks(e)') - Cardinality(Marks(e)))

LEMMA FiniteCounts ==
  ASSUME IInv, NEW e \in Event
  PROVE  /\ IsFiniteSet(Listed(e)) /\ IsFiniteSet(Pooled(e)) /\ IsFiniteSet(Marks(e))
         /\ Cardinality(Listed(e)) \in Nat /\ Cardinality(Pooled(e)) \in Nat
         /\ Cardinality(Marks(e)) \in Nat /\ ref[e] \in Int
BY FS_CardinalityType DEF IInv, Counted, Typed, EventsTyped

LEMMA BalancedCounts ==
  ASSUME IInv, ref' \in [Event -> Int], \A e \in Event : Balanced(e)
  PROVE  Counted'
<1> SUFFICES ASSUME NEW e \in Event
             PROVE  /\ IsFiniteSet(Listed(e)') /\ IsFiniteSet(Pooled(e)') /\ IsFiniteSet(Marks(e)')
                    /\ ref'[e] = Cardinality(Listed(e)') + Cardinality(Pooled(e)')
                                   + Cardinality(Marks(e)')
  BY DEF Counted
<1>1. Balanced(e) /\ ref'[e] \in Int
  OBVIOUS
<1>2. /\ Cardinality(Listed(e)') \in Nat /\ Cardinality(Pooled(e)') \in Nat
      /\ Cardinality(Marks(e)') \in Nat
  BY <1>1, FS_CardinalityType DEF Balanced
<1>3. ref[e] = Cardinality(Listed(e)) + Cardinality(Pooled(e)) + Cardinality(Marks(e))
  BY DEF IInv, Counted
<1>4. QED BY <1>1, <1>2, <1>3, FiniteCounts DEF Balanced

\* An event moves into the object, or out of it, with the reference of m_events.
LEMMA ObjectMarks ==
  ASSUME IInv, NEW e \in Event, UNCHANGED <<hold, at>>, ref' \in [Event -> Int],
         ref'[e] - ref[e] = (IF e \in events' THEN 1 ELSE 0) - (IF e \in events THEN 1 ELSE 0)
  PROVE  Balanced(e)
<1>1. /\ Listed(e)' = Listed(e) /\ Pooled(e)' = Pooled(e)
      /\ Marks(e) = MarksOf(events, at, e) /\ Marks(e)' = MarksOf(events', at, e)
  BY DEF hold, Listed, Pooled, Marks
<1>2. SameCalls(at, at, e, Holder)
  BY DEF SameCalls
<1>3. CASE e \in events <=> e \in events'
  <2>1. Marks(e)' = Marks(e)
    BY <1>1, <1>2, <1>3, MarksSame
  <2>2. QED BY <1>1, <1>3, <2>1, FiniteCounts DEF Balanced
<1>4. CASE e \notin events /\ e \in events'
  <2>1. OneMore(Marks(e), Marks(e)')
    BY <1>1, <1>2, <1>4, MarkOfObject
  <2>2. QED BY <1>1, <1>4, <2>1, FiniteCounts DEF Balanced, OneMore
<1>5. CASE e \in events /\ e \notin events'
  <2>1. OneMore(Marks(e)', Marks(e))
    BY <1>1, <1>2, <1>5, MarkOfObject
  <2>2. QED BY <1>1, <1>5, <2>1, FiniteCounts DEF Balanced, OneMore
<1>6. QED BY <1>3, <1>4, <1>5

LEMMA AddEventKeeps ==
  ASSUME EventsAssumption, IInv, NEW t \in Holder, NEW e \in Event, AddEvent(t, e)
  PROVE  IInv'
<1> USE DEF EventsAssumption, Holder
<1>1. /\ e \in new /\ e \notin events /\ e \notin deleted /\ new' = new \ {e}
      /\ holder' \in Holder /\ (holder # None => holder' = holder)
      /\ UNCHANGED <<alive, instance, inWorld, moves, deleted, repeats, hold, at, crashed>>
  BY DEF AddEvent, IInv, Typed, ObjectTyped, EventsTyped
<1>2. \/ UNCHANGED <<events, ref, eventAt, adding>>
      \/ /\ events' = events \cup {e} /\ ref' = IncRef({e}) /\ ~Refused(e, holder')
         /\ eventAt' = [eventAt EXCEPT ![e] = holder'] /\ adding' = [adding EXCEPT ![t] = e]
  BY DEF AddEvent
<1>3. Typed'
  <2>1. ObjectTyped'
    BY <1>1 DEF IInv, Typed, ObjectTyped
  <2>2. EventsTyped'
    BY <1>1, <1>2, FS_AddElement DEF IInv, Typed, EventsTyped, IncRef
  <2>3. HoldTyped'
    BY <1>1, <1>2, SMTT(30) DEF IInv, Typed, HoldTyped, hold
  <2>4. QED BY <2>1, <2>2, <2>3 DEF Typed
<1>4. Slots' /\ FlaggedNotInWorld'
  BY <1>1 DEF IInv, Slots, Running, FlaggedNotInWorld, hold
<1>5. Unheld'
  BY <1>1 DEF Unheld
<1>6. ASSUME NEW x \in events' \ deleted', eventAt'[x] = holder'
      PROVE  \/ x \in Range(list'[holder']) \cup Range(pool'[holder'])
             \/ \E u \in Holder : adding'[u] = x
  <2>1. CASE x = e /\ e \in events'
    <3>1. adding' = [adding EXCEPT ![t] = e]
      BY <1>1, <1>2, <2>1
    <3>2. adding'[t] = e
      BY <3>1 DEF IInv, Typed, HoldTyped
    <3>3. QED BY <2>1, <3>2
  <2>2. CASE x # e
    <3>1. x \in events \ deleted /\ eventAt'[x] = eventAt[x]
      BY <1>1, <1>2, <2>2 DEF IInv, Typed, EventsTyped
    <3>2. holder # None /\ holder' = holder
      BY <1>1, <1>6, <3>1 DEF IInv, Unheld
    <3>3. \/ x \in Range(list[holder]) \cup Range(pool[holder])
          \/ \E u \in Holder : adding[u] = x
      BY <1>6, <3>1, <3>2 DEF IInv, Held
    <3>4. \A u \in Holder : adding[u] = x => adding'[u] = x
      BY <1>1, <1>2, <2>2 DEF AddEvent, Free, IInv, Typed, HoldTyped, EventsTyped
    <3>5. QED BY <1>1, <3>2, <3>3, <3>4 DEF hold
  <2>3. QED BY <1>1, <1>2, <2>1, <2>2
<1>7. Held'
  BY <1>6 DEF Held
<1>8. NotAssigned'
  BY <1>1, <1>2 DEF IInv, NotAssigned, Refused, Typed, EventsTyped
<1>9. Counted'
  <2>1. ref' \in [Event -> Int]
    BY <1>3 DEF Typed, EventsTyped
  <2>2. ASSUME NEW x \in Event PROVE Balanced(x)
    <3>1. ref'[x] - ref[x] = (IF x \in events' THEN 1 ELSE 0) - (IF x \in events THEN 1 ELSE 0)
      BY <1>1, <1>2, FiniteCounts DEF IncRef
    <3>2. QED BY <1>1, <2>1, <3>1, ObjectMarks
  <2>3. QED BY <2>1, <2>2, BalancedCounts
<1>10. QED BY <1>3, <1>4, <1>5, <1>7, <1>8, <1>9 DEF IInv

\* Events leave the object, and are deleted: event_RemoveEvents and the destructor.
LEMMA EventsLeave ==
  ASSUME EventsAssumption, IInv, NEW es, es \subseteq events,
         events' = events \ es, deleted' = deleted \cup es, ref' = DecRef(es),
         UNCHANGED <<instance, inWorld, holder, moves, new, eventAt, repeats, hold, at, adding,
                     crashed>>,
         alive' \in BOOLEAN
  PROVE  IInv'
<1>1. Typed'
  <2>1. ObjectTyped'
    BY DEF IInv, Typed, ObjectTyped
  <2>2. EventsTyped'
    <3>1. IsFiniteSet(events')
      BY FS_Subset DEF IInv, Typed, EventsTyped
    <3>2. QED BY <3>1 DEF IInv, Typed, EventsTyped, DecRef
  <2>3. HoldTyped'
    BY DEF IInv, Typed, HoldTyped, hold
  <2>4. QED BY <2>1, <2>2, <2>3 DEF Typed
<1>2. Slots' /\ FlaggedNotInWorld' /\ NotAssigned'
  BY DEF IInv, Slots, Running, FlaggedNotInWorld, NotAssigned, hold
<1>3. Unheld' /\ Held'
  BY DEF IInv, Unheld, Held, hold
<1>4. Counted'
  <2>1. ref' \in [Event -> Int]
    BY <1>1 DEF Typed, EventsTyped
  <2>2. ASSUME NEW x \in Event PROVE Balanced(x)
    <3>1. ref'[x] - ref[x] = (IF x \in events' THEN 1 ELSE 0) - (IF x \in events THEN 1 ELSE 0)
      BY FiniteCounts DEF DecRef
    <3>2. QED BY <2>1, <3>1, ObjectMarks
  <2>3. QED BY <2>1, <2>2, BalancedCounts
<1>5. QED BY <1>1, <1>2, <1>3, <1>4 DEF IInv

LEMMA RemoveEventsKeeps ==
  ASSUME EventsAssumption, IInv, NEW t \in Holder, NEW es \in SUBSET Event, RemoveEvents(t, es)
  PROVE  IInv'
<1>1. es \subseteq events /\ alive' \in BOOLEAN
  BY DEF RemoveEvents, IInv, Typed, ObjectTyped
<1>2. QED BY <1>1, EventsLeave DEF RemoveEvents

LEMMA DestroyKeeps ==
  ASSUME EventsAssumption, IInv, NEW t \in Holder, Destroy(t)
  PROVE  IInv'
<1>1. CASE Crash
  BY <1>1, CrashKeeps
<1>2. CASE ~Crash
  <2>1. events' = events \ events /\ alive' \in BOOLEAN
    BY <1>2 DEF Destroy
  <2>2. QED BY <1>2, <2>1, EventsLeave DEF Destroy
<1>3. QED BY <1>1, <1>2

-----------------------------------------------------------------------------
(* Entries that are added to the holders.                                  *)

\* Entries may be added behind the place an Update is at.
LEMMA SlotsKept ==
  ASSUME IInv, NEW h \in Holder, NEW q \in Seq(Event),
         list' = [list EXCEPT ![h] = @ \o q], at' = at
  PROVE  Slots'
<1>1. \A g \in Holder : list[g] \in Seq(Event)
  BY DEF IInv, Typed, HoldTyped
<1>2. ASSUME NEW g \in Holder
      PROVE  /\ Len(list'[g]) >= Len(list[g]) /\ Len(list'[g]) \in Nat /\ Len(list[g]) \in Nat
             /\ \A i \in 1..Len(list[g]) : list'[g][i] = list[g][i]
  <2>1. CASE g = h
    <3>1. list'[g] = list[g] \o q
      BY <2>1 DEF IInv, Typed, HoldTyped
    <3>2. /\ Len(list[g] \o q) = Len(list[g]) + Len(q)
          /\ \A i \in 1..Len(list[g]) : (list[g] \o q)[i] = list[g][i]
      BY <1>1, Concatenated
    <3>3. QED BY <1>1, <3>1, <3>2
  <2>2. CASE g # h
    <3>1. list'[g] = list[g]
      BY <2>2 DEF IInv, Typed, HoldTyped
    <3>2. QED BY <1>1, <3>1
  <2>3. QED BY <2>1, <2>2
<1>3. QED BY <1>2 DEF IInv, Slots, Running

\* All entries stay, and those of q are added.
LEMMA InsertAdds ==
  ASSUME EventsAssumption, IInv, NEW t, NEW h \in Holder, NEW q, q \in Seq(Event),
         Insert(t, h, q), at' = at
  PROVE  /\ Store(list') /\ Store(pool') /\ Slots'
         /\ \A g \in Holder : \A x \in Range(list[g]) \cup Range(pool[g]) :
              x \in Range(list'[g]) \cup Range(pool'[g])
         /\ \A x \in Range(q) : x \in Range(list'[h]) \cup Range(pool'[h])
<1>1. /\ Store(list) /\ Store(pool) /\ list[h] \in Seq(Event) /\ pool[h] \in Seq(Event)
      /\ \A g \in Holder : list[g] \in Seq(Event) /\ pool[g] \in Seq(Event)
  BY DEF IInv, Typed, HoldTyped, Store
<1>2. CASE list' = [list EXCEPT ![h] = @ \o q] /\ pool' = pool
  <2> DEFINE r == list[h] \o q
  <2>1. r \in Seq(Event) /\ Range(r) = Range(list[h]) \cup Range(q)
    BY <1>1, Concatenated, ConcatenatedRange
  <2> HIDE DEF r
  <2>2. list' = [list EXCEPT ![h] = r]
    BY <1>2 DEF r
  <2>3. Store(list') /\ list'[h] = r /\ \A g \in Holder \ {h} : list'[g] = list[g]
    BY <1>1, <2>1, <2>2 DEF Store
  <2>4. Slots'
    BY <1>2, SlotsKept
  <2>5. QED BY <1>1, <1>2, <2>1, <2>3, <2>4
<1>3. CASE pool' = [pool EXCEPT ![h] = @ \o q] /\ list' = list
  <2> DEFINE r == pool[h] \o q
  <2>1. r \in Seq(Event) /\ Range(r) = Range(pool[h]) \cup Range(q)
    BY <1>1, Concatenated, ConcatenatedRange
  <2> HIDE DEF r
  <2>2. pool' = [pool EXCEPT ![h] = r]
    BY <1>3 DEF r
  <2>3. Store(pool') /\ pool'[h] = r /\ \A g \in Holder \ {h} : pool'[g] = pool[g]
    BY <1>1, <2>1, <2>2 DEF Store
  <2>4. Slots'
    BY <1>3 DEF IInv, Slots, Running
  <2>5. QED BY <1>1, <1>3, <2>1, <2>3, <2>4
<1>4. QED BY <1>2, <1>3 DEF Insert

LEMMA InsertCounts ==
  ASSUME EventsAssumption, IInv, NEW t, NEW h \in Holder, NEW q, q \in Seq(Event),
         Insert(t, h, q), UNCHANGED <<events, at>>, NEW e \in Event,
         ref'[e] - ref[e] = Cardinality(Of(q, e))
  PROVE  Balanced(e)
<1>1. Store(list) /\ Store(pool)
  BY DEF IInv, Typed, HoldTyped, Store
<1>2. /\ Listed(e) = In(list, "list", e) /\ Listed(e)' = In(list', "list", e)
      /\ Pooled(e) = In(pool, "pool", e) /\ Pooled(e)' = In(pool', "pool", e)
  BY DEF Listed, Pooled
<1>3. Marks(e)' = Marks(e)
  BY DEF Marks
<1>4. CASE list' = [list EXCEPT ![h] = @ \o q] /\ pool' = pool
  <2>1. IsFiniteSet(Listed(e)')
        /\ Cardinality(Listed(e)') = Cardinality(Listed(e)) + Cardinality(Of(q, e))
    <3>1. Appends(list, list', h, q) /\ IsFiniteSet(In(list, "list", e))
      BY <1>2, <1>4, FiniteCounts DEF Appends
    <3>2. QED BY <1>1, <1>2, <3>1, InAppended
  <2>2. Pooled(e)' = Pooled(e)
    BY <1>2, <1>4
  <2>3. QED BY <1>3, <2>1, <2>2, FiniteCounts, OfFinite DEF Balanced
<1>5. CASE pool' = [pool EXCEPT ![h] = @ \o q] /\ list' = list
  <2>1. IsFiniteSet(Pooled(e)')
        /\ Cardinality(Pooled(e)') = Cardinality(Pooled(e)) + Cardinality(Of(q, e))
    <3>1. Appends(pool, pool', h, q) /\ IsFiniteSet(In(pool, "pool", e))
      BY <1>2, <1>5, FiniteCounts DEF Appends
    <3>2. QED BY <1>1, <1>2, <3>1, InAppended
  <2>2. Listed(e)' = Listed(e)
    BY <1>2, <1>5
  <2>3. QED BY <1>3, <2>1, <2>2, FiniteCounts, OfFinite DEF Balanced
<1>6. QED BY <1>4, <1>5 DEF Insert

LEMMA AddToHolderKeeps ==
  ASSUME EventsAssumption, IInv, NEW t \in Holder, AddToHolder(t)
  PROVE  IInv'
<1> DEFINE e == adding[t]
           q == <<e>>
<1>1. CASE Crash
  BY <1>1, CrashKeeps
<1>2. CASE ~Crash
  <2>1. /\ e \in Event /\ holder \in Holder /\ ref' = IncRef({e}) /\ Insert(t, holder, q)
        /\ adding' = [adding EXCEPT ![t] = None]
        /\ UNCHANGED <<object, new, deleted, eventAt, repeats, at, crashed>>
    BY <1>2 DEF AddToHolder, IInv, Typed, ObjectTyped, HoldTyped
  <2>2. /\ q \in Seq(Event) /\ e \in Range(q)
        /\ \A x \in Event : Cardinality(Of(q, x)) = IF e = x THEN 1 ELSE 0
    <3>1. \A x \in Event : Cardinality(Of(q, x)) = IF e = x THEN 1 ELSE 0
      BY <2>1, OfSingle
    <3>2. q \in Seq(Event) /\ e \in Range(q)
      BY <2>1 DEF Range
    <3>3. QED BY <3>1, <3>2
  <2> HIDE DEF q, e
  <2>3. /\ Store(list') /\ Store(pool') /\ Slots'
        /\ \A g \in Holder : \A x \in Range(list[g]) \cup Range(pool[g]) :
             x \in Range(list'[g]) \cup Range(pool'[g])
        /\ \A x \in Range(q) : x \in Range(list'[holder]) \cup Range(pool'[holder])
    BY <2>1, <2>2, InsertAdds
  <2>4. Typed'
    <3>1. ObjectTyped'
      BY <2>1 DEF IInv, Typed, ObjectTyped, object
    <3>2. EventsTyped'
      BY <2>1 DEF IInv, Typed, EventsTyped, HoldTyped, object, IncRef, e
    <3>3. HoldTyped'
      BY <2>1, <2>3 DEF IInv, Typed, HoldTyped, EventsTyped, Store, EventsAssumption
    <3>4. QED BY <3>1, <3>2, <3>3 DEF Typed
  <2>5. Unheld' /\ NotAssigned' /\ FlaggedNotInWorld'
    BY <2>1 DEF IInv, Unheld, NotAssigned, FlaggedNotInWorld, object
  <2>6. ASSUME NEW x \in events \ deleted, eventAt[x] = holder
        PROVE  \/ x \in Range(list'[holder]) \cup Range(pool'[holder])
               \/ \E u \in Holder : adding'[u] = x
    <3>1. CASE x \in Range(list[holder]) \cup Range(pool[holder])
      BY <2>1, <2>3, <3>1
    <3>2. ASSUME NEW u \in Holder, adding[u] = x
          PROVE  \/ x \in Range(list'[holder]) \cup Range(pool'[holder])
                 \/ \E g \in Holder : adding'[g] = x
      <4>1. CASE u = t
        BY <2>2, <2>3, <3>2, <4>1 DEF e
      <4>2. CASE u # t
        BY <2>1, <3>2, <4>2 DEF IInv, Typed, HoldTyped
      <4>3. QED BY <4>1, <4>2
    <3>3. holder # None
      BY <2>1 DEF EventsAssumption, Holder
    <3>4. QED BY <2>6, <3>1, <3>2, <3>3 DEF IInv, Held
  <2>7. Held'
    BY <2>1, <2>6 DEF Held, object
  <2>8. Counted'
    <3>1. ref' \in [Event -> Int]
      BY <2>4 DEF Typed, EventsTyped
    <3>2. ASSUME NEW x \in Event PROVE Balanced(x)
      <4>1. ref'[x] - ref[x] = Cardinality(Of(q, x))
        BY <2>1, <2>2, FiniteCounts DEF IncRef
      <4>2. QED BY <2>1, <2>2, <4>1, InsertCounts DEF object
    <3>3. QED BY <3>1, <3>2, BalancedCounts
  <2>9. QED BY <2>3, <2>4, <2>5, <2>7, <2>8 DEF IInv
<1>3. QED BY <1>1, <1>2

LEMMA AddToWorldKeeps ==
  ASSUME EventsAssumption, IInv, NEW t \in Holder, NEW m \in Map, AddToWorld(t, m)
  PROVE  IInv'
<1> USE DEF AddToWorld, event, hold
<1>1. Typed'
  BY DEF IInv, Typed, ObjectTyped, EventsTyped, HoldTyped, EventsAssumption
<1>2. Slots' /\ Unheld' /\ Held' /\ NotAssigned' /\ FlaggedNotInWorld'
  BY DEF IInv, Slots, Running, Unheld, Held, NotAssigned, FlaggedNotInWorld
<1>3. Counted'
  BY DEF IInv, Counted, Listed, Pooled, Marks
<1>4. QED BY <1>1, <1>2, <1>3 DEF IInv

-----------------------------------------------------------------------------
(* The object is put into a map, or taken out of it.                       *)

\* A relocation into a map, or out of it, assigns no event to WORLD_INSTANCE.
LEMMA RelocateAssigns ==
  ASSUME EventsAssumption, IInv, NEW t, NEW id \in Map \cup {None}, Relocate(t, id)
  PROVE  eventAt' \in [Event -> Holder \cup {None}] /\ NotAssigned'
<1> USE DEF EventsAssumption, IInv, Typed, EventsTyped, NotAssigned, Holder
<1>1. CASE id = holder
  BY <1>1 DEF Relocate
<1>2. CASE id # holder /\ id = None
  <2>1. eventAt' = [e \in Event |-> IF e \in events THEN None ELSE eventAt[e]]
    BY <1>2 DEF Relocate
  <2>2. QED BY <2>1
<1>3. CASE id # holder /\ id # None
  <2>1. eventAt' = [e \in Event |-> IF e \in Kept THEN id ELSE eventAt[e]]
    BY <1>3 DEF Relocate
  <2>2. QED BY <2>1
<1>4. QED BY <1>1, <1>2, <1>3

LEMMA PushToWorldKeeps ==
  ASSUME EventsAssumption, IInv, NEW m \in Map, PushToWorld(m)
  PROVE  IInv'
<1> DEFINE q == SetToSeq(Kept)
<1>1. /\ instance' = m /\ inWorld' = TRUE /\ moves' = moves + 1 /\ moves < MaxMoves
      /\ Relocate(m, m) /\ holder' = m /\ m \in Holder /\ m # None
      /\ UNCHANGED <<alive, events, new, deleted, repeats, at, adding, crashed>>
  BY DEF PushToWorld, Relocate, EventsAssumption, Holder
<1>2. eventAt' \in [Event -> Holder \cup {None}] /\ NotAssigned'
  BY <1>1, RelocateAssigns
<1>3. \/ m = holder /\ UNCHANGED <<ref, eventAt, hold>>
      \/ /\ m # holder /\ ref' = IncRef(Kept) /\ Insert(m, m, q)
         /\ eventAt' = [e \in Event |-> IF e \in Kept THEN m ELSE eventAt[e]]
  BY <1>1 DEF Relocate, Referenced
<1>4. /\ q \in Seq(Event) /\ Range(q) = Kept
      /\ \A e \in Event : Cardinality(Of(q, e)) = IF e \in Kept THEN 1 ELSE 0
  <2>1. Kept \in SUBSET Event /\ IsFiniteSet(Kept)
    BY FS_Subset DEF Kept, IInv, Typed, EventsTyped
  <2>2. q \in Seq(Event) /\ IsInjective(q) /\ Range(q) = Kept
    BY <2>1, SetInOrder
  <2> HIDE DEF q
  <2>3. QED BY <2>2, OfInjective
<1> HIDE DEF q
<1>5. /\ Store(list') /\ Store(pool') /\ Slots'
      /\ \A g \in Holder : \A x \in Range(list[g]) \cup Range(pool[g]) :
           x \in Range(list'[g]) \cup Range(pool'[g])
      /\ m # holder => \A x \in Range(q) : x \in Range(list'[m]) \cup Range(pool'[m])
  <2>1. CASE m = holder
    BY <1>1, <1>3, <2>1 DEF hold, IInv, Typed, HoldTyped, Store, Slots, Running
  <2>2. CASE m # holder
    BY <1>1, <1>3, <1>4, <2>2, InsertAdds
  <2>3. QED BY <2>1, <2>2
<1>6. Typed'
  <2>1. ObjectTyped'
    BY <1>1 DEF IInv, Typed, ObjectTyped, EventsAssumption
  <2>2. EventsTyped'
    BY <1>1, <1>2, <1>3 DEF IInv, Typed, EventsTyped, IncRef, Kept
  <2>3. HoldTyped'
    BY <1>1, <1>5 DEF IInv, Typed, HoldTyped, Store
  <2>4. QED BY <2>1, <2>2, <2>3 DEF Typed
<1>7. Unheld' /\ FlaggedNotInWorld'
  BY <1>1 DEF IInv, Unheld, FlaggedNotInWorld
<1>8. Held'
  <2>1. CASE m = holder
    BY <1>1, <1>3, <2>1 DEF IInv, Held, hold
  <2>2. CASE m # holder
    BY <1>1, <1>4, <1>5, <2>2 DEF Held, Kept
  <2>3. QED BY <2>1, <2>2
<1>9. Counted'
  <2>1. CASE m = holder
    BY <1>1, <1>3, <2>1 DEF IInv, Counted, Listed, Pooled, Marks, hold
  <2>2. CASE m # holder
    <3>1. ref' \in [Event -> Int]
      BY <1>6 DEF Typed, EventsTyped
    <3>2. ASSUME NEW x \in Event PROVE Balanced(x)
      <4>1. ref'[x] - ref[x] = Cardinality(Of(q, x))
        BY <1>3, <1>4, <2>2, FiniteCounts DEF IncRef
      <4>2. QED BY <1>1, <1>3, <1>4, <2>2, <4>1, InsertCounts
    <3>3. QED BY <3>1, <3>2, BalancedCounts
  <2>3. QED BY <2>1, <2>2
<1>10. QED BY <1>2, <1>5, <1>6, <1>7, <1>8, <1>9 DEF IInv

LEMMA RemoveFromWorldKeeps ==
  ASSUME EventsAssumption, IInv, NEW m \in Map, RemoveFromWorld(m)
  PROVE  IInv'
<1>1. /\ instance' = None /\ inWorld' = FALSE /\ Relocate(m, None) /\ holder' = None
      /\ UNCHANGED <<alive, events, moves, new, deleted, repeats, at, adding, crashed>>
      /\ UNCHANGED <<ref, list, pool>>
  BY DEF RemoveFromWorld, Relocate, hold
<1>2. eventAt' \in [Event -> Holder \cup {None}] /\ NotAssigned'
  BY <1>1, RelocateAssigns
<1>3. Typed'
  <2>1. ObjectTyped'
    BY <1>1 DEF IInv, Typed, ObjectTyped
  <2>2. EventsTyped'
    BY <1>1, <1>2 DEF IInv, Typed, EventsTyped
  <2>3. HoldTyped'
    BY <1>1 DEF IInv, Typed, HoldTyped
  <2>4. QED BY <2>1, <2>2, <2>3 DEF Typed
<1>4. Slots' /\ FlaggedNotInWorld' /\ Held'
  BY <1>1 DEF IInv, Slots, Running, FlaggedNotInWorld, Held
<1>5. Unheld'
  <2>1. CASE holder = None
    BY <1>1, <2>1 DEF Relocate, IInv, Unheld
  <2>2. CASE holder # None
    <3>1. eventAt' = [e \in Event |-> IF e \in events THEN None ELSE eventAt[e]]
      BY <1>1, <2>2 DEF Relocate
    <3>2. QED BY <1>1, <3>1 DEF Unheld, IInv, Typed, EventsTyped
  <2>3. QED BY <2>1, <2>2
<1>6. Counted'
  BY <1>1 DEF IInv, Counted, Listed, Pooled, Marks
<1>7. QED BY <1>2, <1>3, <1>4, <1>5, <1>6 DEF IInv

-----------------------------------------------------------------------------
(* EventableObjectHolder::Update.                                          *)

\* An event of the list has been created.
LEMMA ListedIsCreated ==
  ASSUME IInv, NEW h \in Holder, NEW i \in 1..Len(list[h])
  PROVE  list[h][i] \in Event \ new
<1> DEFINE e == list[h][i]
<1>1. e \in Event /\ list[h] \in Seq(Event)
  BY DEF IInv, Typed, HoldTyped
<1>2. <<h, "list", i>> \in Listed(e)
  BY <1>1, InIs DEF Listed, Of
<1> HIDE DEF e
<1>3. Cardinality(Listed(e)) # 0
  BY <1>1, <1>2, FiniteCounts, FS_EmptySet
<1>4. ref[e] > 0
  <2>1. ref[e] = Cardinality(Listed(e)) + Cardinality(Pooled(e)) + Cardinality(Marks(e))
    BY <1>1 DEF IInv, Counted
  <2>2. QED BY <1>1, <1>3, <2>1, FiniteCounts
<1>5. e \notin new
  BY <1>4 DEF IInv, Typed, EventsTyped
<1>6. QED BY <1>1, <1>5 DEF e

\* An Update moves on without the lists.
LEMMA MoveKeeps ==
  ASSUME EventsAssumption, IInv, NEW h \in Holder, NEW p \in Places,
         at' = [at EXCEPT ![h] = p], p.pc # "call", at[h].pc # "call",
         p.pos \in 1..Len(list[h]) + 1,
         p.pc = "due" => p.pos \in 1..Len(list[h]) /\ list[h][p.pos] = p.ev /\ p.ev \in Event,
         h = World => p.ev \notin Flagged,
         UNCHANGED <<object, event, hold, adding, crashed>>
  PROVE  IInv'
<1>1. Typed'
  BY DEF IInv, Typed, ObjectTyped, EventsTyped, HoldTyped, object, event, hold
<1>2. Slots'
  BY DEF IInv, Slots, Running, Typed, HoldTyped, hold
<1>3. Unheld' /\ Held' /\ NotAssigned'
  BY DEF IInv, Unheld, Held, NotAssigned, object, event, hold
<1>4. FlaggedNotInWorld'
  BY DEF IInv, FlaggedNotInWorld, Typed, HoldTyped, Holder
<1>5. Counted'
  <2>1. ref' \in [Event -> Int]
    BY <1>1 DEF Typed, EventsTyped
  <2>2. ASSUME NEW x \in Event PROVE Balanced(x)
    <3>1. SameCalls(at, at', x, Holder)
      BY DEF SameCalls, Calls, IInv, Typed, HoldTyped
    <3>2. Marks(x)' = Marks(x)
      <4>1. Marks(x) = MarksOf(events, at, x) /\ Marks(x)' = MarksOf(events, at', x)
        BY DEF Marks, object
      <4>2. QED BY <3>1, <4>1, MarksSame
    <3>3. Listed(x)' = Listed(x) /\ Pooled(x)' = Pooled(x) /\ ref'[x] = ref[x]
      BY DEF Listed, Pooled, hold, event
    <3>4. QED BY <3>2, <3>3, FiniteCounts DEF Balanced
  <2>3. QED BY <2>1, <2>2, BalancedCounts
<1>6. QED BY <1>1, <1>2, <1>3, <1>4, <1>5 DEF IInv

LEMMA MovesKeep ==
  ASSUME EventsAssumption, IInv, NEW h \in Holder, NotDue(h) \/ Due(h) \/ EndUpdate(h)
  PROVE  IInv'
<1>1. list[h] \in Seq(Event) /\ at[h] \in Places /\ Len(list[h]) \in Nat
  BY DEF IInv, Typed, HoldTyped
<1>2. CASE NotDue(h)
  <2> DEFINE p == [at[h] EXCEPT !.pos = @ + 1]
  <2>1. p \in Places /\ p.pc = "scan" /\ p.pos = at[h].pos + 1 /\ p.ev = at[h].ev
    BY <1>1, <1>2 DEF NotDue, Scans, Places
  <2>2. at' = [at EXCEPT ![h] = p]
    BY <1>2 DEF NotDue, IInv, Typed, HoldTyped
  <2> HIDE DEF p
  <2>3. p.pos \in 1..Len(list[h]) + 1
    BY <1>1, <1>2, <2>1 DEF NotDue, Scans, Places
  <2>4. h = World => p.ev \notin Flagged
    BY <2>1 DEF IInv, FlaggedNotInWorld
  <2>5. QED BY <1>2, <2>1, <2>2, <2>3, <2>4, MoveKeeps DEF NotDue, Scans
<1>3. CASE Due(h)
  <2> DEFINE p == At("due", at[h].pos, Current(h))
  <2>1. at[h].pos \in 1..Len(list[h]) /\ eventAt[Current(h)] = h
    BY <1>1, <1>3 DEF Due, Scans, Stale, Places
  <2>2. /\ p \in Places /\ p.pc = "due" /\ p.pos \in 1..Len(list[h])
        /\ list[h][p.pos] = p.ev /\ p.ev \in Event /\ p.ev = Current(h)
    BY <1>1, <2>1 DEF At, Places, Current
  <2>3. at' = [at EXCEPT ![h] = p]
    BY <1>3 DEF Due, IInv, Typed, HoldTyped
  <2> HIDE DEF p
  <2>4. h = World => p.ev \notin Flagged
    BY <2>1, <2>2 DEF IInv, NotAssigned
  <2>5. p.pos \in 1..Len(list[h]) + 1
    BY <1>1, <2>2
  <2>6. QED BY <1>3, <2>2, <2>3, <2>4, <2>5, MoveKeeps DEF Due, Scans
<1>4. CASE EndUpdate(h)
  <2> DEFINE p == At("idle", 1, None)
  <2>1. p \in Places /\ p.pc = "idle" /\ p.pos \in 1..Len(list[h]) + 1 /\ p.ev = None
    BY <1>1 DEF At, Places
  <2>2. at' = [at EXCEPT ![h] = p]
    BY <1>4 DEF EndUpdate
  <2> HIDE DEF p
  <2>3. p.ev \notin Flagged
    BY <2>1 DEF EventsAssumption
  <2>4. QED BY <1>4, <2>1, <2>2, <2>3, MoveKeeps DEF EndUpdate
<1>5. QED BY <1>2, <1>3, <1>4

LEMMA BeginUpdateKeeps ==
  ASSUME EventsAssumption, IInv, NEW h \in Holder, BeginUpdate(h)
  PROVE  IInv'
<1> DEFINE q == Pending(h)
           dropped(e) == Cardinality({i \in DOMAIN pool[h] : pool[h][i] = e /\ ~Wanted(h, e)})
           p == At("scan", 1, None)
<1>1. /\ at[h].pc = "idle" /\ at' = [at EXCEPT ![h] = p]
      /\ list' = [list EXCEPT ![h] = @ \o q] /\ pool' = [pool EXCEPT ![h] = <<>>]
      /\ ref' = [e \in Event |-> ref[e] - dropped(e)]
      /\ UNCHANGED <<object, new, deleted, eventAt, repeats, adding, crashed>>
  BY DEF BeginUpdate
<1>2. /\ list[h] \in Seq(Event) /\ pool[h] \in Seq(Event) /\ Store(list) /\ Store(pool)
      /\ at \in [Holder -> Places] /\ p \in Places /\ p.pc = "scan" /\ p.pos = 1 /\ p.ev = None
  BY DEF IInv, Typed, HoldTyped, Store, At, Places
<1>3. /\ q \in Seq(Event)
      /\ \A e \in Range(pool[h]) : Wanted(h, e) => e \in Range(q)
      /\ \A e : Cardinality(Of(q, e)) = IF Wanted(h, e) THEN Cardinality(Of(pool[h], e)) ELSE 0
  BY PendingEntries DEF IInv, Typed
<1>4. \A e \in Event : /\ dropped(e) = IF Wanted(h, e) THEN 0 ELSE Cardinality(Of(pool[h], e))
                       /\ dropped(e) \in Nat
  <2> SUFFICES ASSUME NEW e \in Event
               PROVE  /\ dropped(e) = IF Wanted(h, e) THEN 0 ELSE Cardinality(Of(pool[h], e))
                      /\ dropped(e) \in Nat
    OBVIOUS
  <2>1. CASE Wanted(h, e)
    <3>1. {i \in DOMAIN pool[h] : pool[h][i] = e /\ ~Wanted(h, e)} = {}
      BY <2>1
    <3>2. QED BY <2>1, <3>1, FS_EmptySet
  <2>2. CASE ~Wanted(h, e)
    <3>1. {i \in DOMAIN pool[h] : pool[h][i] = e /\ ~Wanted(h, e)} = Of(pool[h], e)
      BY <2>2 DEF Of
    <3>2. QED BY <1>2, <2>2, <3>1, OfFinite
  <2>3. QED BY <2>1, <2>2
<1> HIDE DEF q, dropped, p
<1>5. /\ Store(list') /\ Store(pool') /\ list'[h] \in Seq(Event) /\ Len(list'[h]) \in Nat
      /\ Range(list'[h]) = Range(list[h]) \cup Range(q)
      /\ \A g \in Holder \ {h} : list'[g] = list[g] /\ pool'[g] = pool[g]
  <2> DEFINE r == list[h] \o q
  <2>1. r \in Seq(Event) /\ Range(r) = Range(list[h]) \cup Range(q) /\ Len(r) \in Nat
    BY <1>2, <1>3, Concatenated, ConcatenatedRange
  <2>2. list' = [list EXCEPT ![h] = r]
    BY <1>1
  <2> HIDE DEF r
  <2>3. Store(list') /\ list'[h] = r /\ \A g \in Holder \ {h} : list'[g] = list[g]
    BY <1>2, <2>1, <2>2 DEF Store
  <2>4. Store(pool') /\ \A g \in Holder \ {h} : pool'[g] = pool[g]
    <3> DEFINE z == <<>>
    <3>1. pool' = [pool EXCEPT ![h] = z] /\ z \in Seq(Event)
      BY <1>1
    <3> HIDE DEF z
    <3>2. QED BY <1>2, <3>1 DEF Store
  <2>5. QED BY <2>1, <2>3, <2>4
<1>6. \A g \in Holder \ {h} : at'[g] = at[g]
  BY <1>1, <1>2
<1>7. at'[h] = p
  BY <1>1, <1>2
<1>8. Slots'
  BY <1>2, <1>5, <1>6, <1>7, SMTT(30) DEF IInv, Slots, Running
<1>9. Unheld' /\ NotAssigned'
  BY <1>1 DEF IInv, Unheld, NotAssigned, object
<1>10. FlaggedNotInWorld'
  BY <1>2, <1>6, <1>7 DEF IInv, FlaggedNotInWorld, EventsAssumption, Holder
<1>11. ASSUME NEW x \in events \ deleted, eventAt[x] = holder, holder # None
       PROVE  \/ x \in Range(list'[holder]) \cup Range(pool'[holder])
              \/ \E u \in Holder : adding[u] = x
  <2>1. \/ x \in Range(list[holder]) \cup Range(pool[holder])
        \/ \E u \in Holder : adding[u] = x
    BY <1>11 DEF IInv, Held
  <2>2. CASE holder = h
    <3>1. Wanted(h, x)
      BY <1>11, <2>2 DEF Wanted
    <3>2. QED BY <1>3, <1>5, <2>1, <2>2, <3>1
  <2>3. CASE holder # h
    <3>1. list'[holder] = list[holder] /\ pool'[holder] = pool[holder]
      BY <1>5, <1>11, <2>3 DEF IInv, Typed, ObjectTyped
    <3>2. QED BY <2>1, <3>1
  <2>4. QED BY <2>2, <2>3
<1>12. Held'
  BY <1>1, <1>11 DEF Held, object
<1>13. ref' \in [Event -> Int] /\ \A e \in Event : ref'[e] = ref[e] - dropped(e)
  BY <1>1, <1>4 DEF IInv, Typed, EventsTyped
<1>14. Counted'
  <2>1. ASSUME NEW x \in Event PROVE Balanced(x)
    <3>1. /\ Listed(x) = In(list, "list", x) /\ Listed(x)' = In(list', "list", x)
          /\ Pooled(x) = In(pool, "pool", x) /\ Pooled(x)' = In(pool', "pool", x)
          /\ Marks(x) = MarksOf(events, at, x) /\ Marks(x)' = MarksOf(events, at', x)
      BY <1>1 DEF Listed, Pooled, Marks, object
    <3>2. /\ IsFiniteSet(Listed(x)')
          /\ Cardinality(Listed(x)') = Cardinality(Listed(x)) + Cardinality(Of(q, x))
      <4>1. Appends(list, list', h, q) /\ IsFiniteSet(In(list, "list", x))
        BY <1>1, <3>1, FiniteCounts DEF Appends
      <4>2. QED BY <1>2, <1>3, <3>1, <4>1, InAppended
    <3>3. /\ IsFiniteSet(Pooled(x)')
          /\ Cardinality(Pooled(x)') = Cardinality(Pooled(x)) - Cardinality(Of(pool[h], x))
      <4>1. Clears(pool, pool', h) /\ IsFiniteSet(In(pool, "pool", x))
        BY <1>1, <3>1, FiniteCounts DEF Clears
      <4>2. QED BY <1>2, <3>1, <4>1, InCleared
    <3>4. SameCalls(at, at', x, Holder)
      BY <1>1, <1>2, <1>6, <1>7 DEF SameCalls, Calls
    <3>5. Marks(x)' = Marks(x)
      BY <3>1, <3>4, MarksSame
    <3>6. Cardinality(Of(pool[h], x)) \in Nat
      BY <1>2, OfFinite
    <3>7. ref'[x] - ref[x] = Cardinality(Of(q, x)) - Cardinality(Of(pool[h], x))
      <4>1. ref'[x] = ref[x] - dropped(x) /\ ref[x] \in Int /\ dropped(x) \in Nat
        BY <1>4, <1>13, FiniteCounts
      <4>2. Cardinality(Of(q, x)) = IF Wanted(h, x) THEN Cardinality(Of(pool[h], x)) ELSE 0
        BY <1>3
      <4>3. dropped(x) = IF Wanted(h, x) THEN 0 ELSE Cardinality(Of(pool[h], x))
        BY <1>4
      <4>4. QED BY <3>6, <4>1, <4>2, <4>3
    <3>8. Cardinality(Of(q, x)) \in Nat
      BY <1>3, OfFinite
    <3>9. QED BY <3>2, <3>3, <3>5, <3>6, <3>7, <3>8, FiniteCounts DEF Balanced
  <2>2. QED BY <1>13, <2>1, BalancedCounts
<1>15. \A e \in new : ref'[e] = 0
  <2>1. ASSUME NEW e \in new PROVE ref'[e] = 0
    <3>1. e \in Event /\ ref[e] = 0 /\ ref'[e] = ref[e] - dropped(e) /\ dropped(e) \in Nat
      BY <1>4, <1>13 DEF IInv, Typed, EventsTyped
    <3>2. ref'[e] \in Nat
      <4>1. /\ IsFiniteSet(Listed(e)') /\ IsFiniteSet(Pooled(e)') /\ IsFiniteSet(Marks(e)')
            /\ ref'[e] = Cardinality(Listed(e)') + Cardinality(Pooled(e)') + Cardinality(Marks(e)')
        BY <1>14, <3>1 DEF Counted
      <4>2. QED BY <4>1, FS_CardinalityType
    <3>3. QED BY <3>1, <3>2
  <2>2. QED BY <2>1
<1>16. Typed'
  <2>1. ObjectTyped'
    BY <1>1 DEF IInv, Typed, ObjectTyped, object
  <2>2. EventsTyped'
    BY <1>1, <1>13, <1>15 DEF IInv, Typed, EventsTyped, object
  <2>3. HoldTyped'
    BY <1>1, <1>2, <1>5 DEF IInv, Typed, HoldTyped, Store
  <2>4. QED BY <2>1, <2>2, <2>3 DEF Typed
<1>17. QED BY <1>8, <1>9, <1>10, <1>12, <1>14, <1>16 DEF IInv

\* An Update erases the entry it is at, of an event that is deleted or is not its own,
\* and scans on.
LEMMA EraseKeeps ==
  ASSUME EventsAssumption, IInv, NEW h \in Holder, NEW e, Erase(h, e),
         at[h].pos \in 1..Len(list[h]), list[h][at[h].pos] = e,
         at[h].pc # "call" \/ at[h].ev \notin Deletes,
         deleted \subseteq deleted', deleted' \subseteq deleted \cup {e},
         e \in deleted' \/ eventAt[e] # h,
         repeats' \in [Event -> {0, 1}],
         UNCHANGED <<object, new, eventAt, pool, adding, crashed>>
  PROVE  IInv'
<1> DEFINE n == at[h].pos
           p == At("scan", n, None)
<1>1. /\ at' = [at EXCEPT ![h] = p] /\ list' = [list EXCEPT ![h] = RemoveAt(@, n)]
      /\ ref' = DecRef({e})
  BY DEF Erase, NextEntry
<1>2. /\ list[h] \in Seq(Event) /\ pool[h] \in Seq(Event) /\ Store(list) /\ Store(pool)
      /\ at \in [Holder -> Places] /\ p \in Places /\ p.pc = "scan" /\ p.pos = n /\ p.ev = None
      /\ n \in 1..Len(list[h]) /\ Len(list[h]) \in Nat
  BY DEF IInv, Typed, HoldTyped, Store, At, Places
<1>3. e \in Event \ new
  BY ListedIsCreated
<1>4. /\ Store(list') /\ Len(list'[h]) = Len(list[h]) - 1
      /\ \A g \in Holder \ {h} : list'[g] = list[g]
      /\ \A x \in Range(list[h]) : x # e => x \in Range(list'[h])
  <2> DEFINE r == RemoveAt(list[h], n)
  <2>1. /\ r \in Seq(Event) /\ Len(r) = Len(list[h]) - 1
        /\ \A x \in Range(list[h]) : x # e => x \in Range(r)
    BY <1>2, Removed, RemovedRange
  <2>2. list' = [list EXCEPT ![h] = r]
    BY <1>1
  <2> HIDE DEF r
  <2>3. QED BY <1>2, <2>1, <2>2 DEF Store
<1>5. at'[h] = p /\ at' \in [Holder -> Places] /\ \A g \in Holder \ {h} : at'[g] = at[g]
  BY <1>1, <1>2
<1> HIDE DEF p, n
<1>6. Slots'
  BY <1>2, <1>4, <1>5, SMTT(30) DEF IInv, Slots, Running
<1>7. Unheld' /\ NotAssigned'
  BY DEF IInv, Unheld, NotAssigned, object
<1>8. FlaggedNotInWorld'
  BY <1>2, <1>5 DEF IInv, FlaggedNotInWorld, EventsAssumption, Holder
<1>9. ASSUME NEW x \in events' \ deleted', eventAt[x] = holder, holder # None
      PROVE  \/ x \in Range(list'[holder]) \cup Range(pool'[holder])
             \/ \E u \in Holder : adding[u] = x
  <2>1. x \in events \ deleted /\ pool' = pool /\ holder \in Holder
    BY <1>9 DEF object, IInv, Typed, ObjectTyped
  <2>2. \/ x \in Range(list[holder]) \cup Range(pool[holder])
        \/ \E u \in Holder : adding[u] = x
    BY <1>9, <2>1 DEF IInv, Held
  <2>3. holder = h => x # e
    BY <1>9
  <2>4. QED BY <1>4, <2>1, <2>2, <2>3
<1>10. Held'
  BY <1>9 DEF Held, object
<1>11. ref' \in [Event -> Int] /\ \A x \in Event : ref'[x] = IF x = e THEN ref[x] - 1 ELSE ref[x]
  BY <1>1 DEF DecRef, IInv, Typed, EventsTyped
<1>12. Counted'
  <2>1. ASSUME NEW x \in Event PROVE Balanced(x)
    <3>1. /\ Listed(x) = In(list, "list", x) /\ Listed(x)' = In(list', "list", x)
          /\ Marks(x) = MarksOf(events, at, x) /\ Marks(x)' = MarksOf(events, at', x)
          /\ Pooled(x)' = Pooled(x)
      BY DEF Listed, Pooled, Marks, object
    <3>2. /\ IsFiniteSet(Listed(x)')
          /\ Cardinality(Listed(x)') = Cardinality(Listed(x)) - IF list[h][n] = x THEN 1 ELSE 0
      <4>1. Erases(list, list', h, n) /\ IsFiniteSet(In(list, "list", x))
        BY <1>1, <3>1, FiniteCounts DEF Erases
      <4>2. QED BY <1>2, <3>1, <4>1, InErased
    <3>3. SameCalls(at, at', x, Holder)
      BY <1>2, <1>5 DEF SameCalls, Calls
    <3>4. Marks(x)' = Marks(x)
      BY <3>1, <3>3, MarksSame
    <3>5. list[h][n] = e
      BY DEF n
    <3>6. QED BY <1>11, <3>1, <3>2, <3>4, <3>5, FiniteCounts DEF Balanced
  <2>2. QED BY <1>11, <2>1, BalancedCounts
<1>13. Typed'
  <2>1. ObjectTyped'
    BY DEF IInv, Typed, ObjectTyped, object
  <2>2. EventsTyped'
    BY <1>3, <1>11 DEF IInv, Typed, EventsTyped, object
  <2>3. HoldTyped'
    BY <1>4, <1>5 DEF IInv, Typed, HoldTyped, Store
  <2>4. QED BY <2>1, <2>2, <2>3 DEF Typed
<1>14. QED BY <1>6, <1>7, <1>8, <1>10, <1>12, <1>13 DEF IInv

LEMMA DropStaleKeeps ==
  ASSUME EventsAssumption, IInv, NEW h \in Holder, DropStale(h)
  PROVE  IInv'
<1>1. /\ Erase(h, Current(h)) /\ at[h].pc = "scan" /\ at[h].pos \in 1..Len(list[h])
      /\ list[h][at[h].pos] = Current(h)
      /\ eventAt[Current(h)] # h \/ Current(h) \in deleted
  BY DEF DropStale, Scans, Stale, Current, IInv, Typed, HoldTyped, Places
<1>2. deleted' = deleted /\ repeats' \in [Event -> {0, 1}]
  BY DEF DropStale, IInv, Typed, EventsTyped
<1>3. UNCHANGED <<object, new, eventAt, pool, adding, crashed>>
  BY DEF DropStale
<1>4. QED BY <1>1, <1>2, <1>3, EraseKeeps

\* The callback starts: an event that deletes its object leaves the list, and only the
\* Update still refers to it.
LEMMA ExecuteKeeps ==
  ASSUME EventsAssumption, IInv, NEW h \in Holder, Execute(h)
  PROVE  IInv'
<1> DEFINE e == at[h].ev
           n == at[h].pos
           p == [at[h] EXCEPT !.pc = "call"]
<1>1. CASE Crash
  BY <1>1, CrashKeeps
<1>2. CASE ~Crash
  <2>1. /\ at[h].pc = "due" /\ at' = [at EXCEPT ![h].pc = "call"]
        /\ UNCHANGED <<object, new, ref, eventAt, repeats, pool, adding, crashed>>
        /\ \/ e \in Deletes /\ list' = [list EXCEPT ![h] = RemoveAt(@, n)] /\ deleted' = deleted \cup {e}
           \/ e \notin Deletes /\ list' = list /\ deleted' = deleted
    BY <1>2 DEF Execute
  <2>2. /\ list[h] \in Seq(Event) /\ Store(list) /\ at \in [Holder -> Places] /\ p \in Places
        /\ p.pc = "call" /\ p.pos = n /\ p.ev = e /\ Len(list[h]) \in Nat
    <3>1. list[h] \in Seq(Event) /\ Store(list) /\ at \in [Holder -> Places]
      BY DEF IInv, Typed, HoldTyped, Store
    <3>2. p \in Places /\ p.pc = "call" /\ p.pos = n /\ p.ev = e
      BY <3>1 DEF Places
    <3>3. QED BY <3>1, <3>2
  <2>3. n \in 1..Len(list[h]) /\ list[h][n] = e /\ e \in Event \ new
    BY <2>1, ListedIsCreated DEF IInv, Slots, Running
  <2>4. at'[h] = p /\ at' \in [Holder -> Places] /\ \A g \in Holder \ {h} : at'[g] = at[g]
    BY <2>1, <2>2
  <2>5. /\ Store(list') /\ \A g \in Holder \ {h} : list'[g] = list[g]
        /\ e \in Deletes => Len(list'[h]) = Len(list[h]) - 1
        /\ \A x \in Range(list[h]) : (x = e /\ e \in Deletes) \/ x \in Range(list'[h])
    <3> DEFINE r == RemoveAt(list[h], n)
    <3>1. /\ r \in Seq(Event) /\ Len(r) = Len(list[h]) - 1
          /\ \A x \in Range(list[h]) : x # e => x \in Range(r)
      BY <2>2, <2>3, Removed, RemovedRange
    <3>2. e \in Deletes => list' = [list EXCEPT ![h] = r]
      BY <2>1
    <3> HIDE DEF r
    <3>3. QED BY <2>1, <2>2, <3>1, <3>2 DEF Store
  <2> HIDE DEF p, n, e
  <2>6. Slots'
    <3>1. at'[h].pos \in 1..Len(list'[h]) + 1
      <4>1. at'[h].pos = n /\ n \in 1..Len(list[h]) /\ Len(list[h]) \in Nat
        BY <2>2, <2>3, <2>4
      <4>2. Len(list'[h]) = Len(list[h]) - 1 \/ list' = list
        BY <2>1, <2>5
      <4>3. QED BY <4>1, <4>2
    <3>2. Running(h)' => at'[h].pos \in 1..Len(list'[h]) /\ list'[h][at'[h].pos] = at'[h].ev
      BY <2>1, <2>2, <2>3, <2>4 DEF Running
    <3>3. QED BY <2>2, <2>3, <2>4, <2>5, <3>1, <3>2 DEF IInv, Slots, Running
  <2>7. Unheld' /\ NotAssigned'
    BY <2>1 DEF IInv, Unheld, NotAssigned, object
  <2>8. FlaggedNotInWorld'
    BY <2>2, <2>4 DEF IInv, FlaggedNotInWorld, Holder, e
  <2>9. ASSUME NEW x \in events' \ deleted', eventAt[x] = holder, holder # None
        PROVE  \/ x \in Range(list'[holder]) \cup Range(pool'[holder])
               \/ \E u \in Holder : adding[u] = x
    <3>1. /\ x \in events \ deleted /\ pool' = pool /\ holder \in Holder
          /\ e \in Deletes => x # e
      BY <2>1, <2>9 DEF object, IInv, Typed, ObjectTyped
    <3>2. \/ x \in Range(list[holder]) \cup Range(pool[holder])
          \/ \E u \in Holder : adding[u] = x
      BY <2>9, <3>1 DEF IInv, Held
    <3>3. QED BY <2>5, <3>1, <3>2
  <2>10. Held'
    BY <2>1, <2>9 DEF Held, object
  <2>11. Counted'
    <3>1. ASSUME NEW x \in Event PROVE Balanced(x)
      <4>1. /\ Listed(x) = In(list, "list", x) /\ Listed(x)' = In(list', "list", x)
            /\ Marks(x) = MarksOf(events, at, x) /\ Marks(x)' = MarksOf(events, at', x)
            /\ Pooled(x)' = Pooled(x) /\ ref'[x] = ref[x]
        BY <2>1 DEF Listed, Pooled, Marks, object
      <4>2. SameCalls(at, at', x, Holder \ {h}) /\ ~Calls(at, h, x)
        BY <2>1, <2>4 DEF SameCalls, Calls
      <4>3. Calls(at', h, x) <=> x = e /\ e \in Deletes
        BY <2>2, <2>4 DEF Calls
      <4>4. CASE e \in Deletes
        <5>1. /\ IsFiniteSet(Listed(x)')
              /\ Cardinality(Listed(x)') = Cardinality(Listed(x)) - IF list[h][n] = x THEN 1 ELSE 0
          <6>1. Erases(list, list', h, n) /\ IsFiniteSet(In(list, "list", x))
            BY <2>1, <4>1, <4>4, FiniteCounts DEF Erases
          <6>2. QED BY <2>2, <2>3, <4>1, <6>1, InErased
        <5>2. CASE x = e
          <6>1. OneMore(Marks(x), Marks(x)')
            BY <4>1, <4>2, <4>3, <4>4, <5>2, MarkOfCall
          <6>2. QED BY <2>3, <4>1, <5>1, <5>2, <6>1, FiniteCounts DEF OneMore, Balanced
        <5>3. CASE x # e
          <6>1. Marks(x)' = Marks(x)
            <7>1. SameCalls(at, at', x, Holder)
              BY <4>2, <4>3, <5>3 DEF SameCalls
            <7>2. QED BY <4>1, <7>1, MarksSame
          <6>2. QED BY <2>3, <4>1, <5>1, <5>3, <6>1, FiniteCounts DEF Balanced
        <5>4. QED BY <5>2, <5>3
      <4>5. CASE e \notin Deletes
        <5>1. SameCalls(at, at', x, Holder)
          BY <4>2, <4>3, <4>5 DEF SameCalls
        <5>2. Marks(x)' = Marks(x) /\ Listed(x)' = Listed(x)
          BY <2>1, <4>1, <4>5, <5>1, MarksSame
        <5>3. QED BY <4>1, <5>2, FiniteCounts DEF Balanced
      <4>6. QED BY <4>4, <4>5
    <3>2. ref' \in [Event -> Int]
      BY <2>1 DEF IInv, Typed, EventsTyped
    <3>3. QED BY <3>1, <3>2, BalancedCounts
  <2>12. Typed'
    <3>1. ObjectTyped'
      BY <2>1 DEF IInv, Typed, ObjectTyped, object
    <3>2. EventsTyped'
      BY <2>1, <2>3 DEF IInv, Typed, EventsTyped, object
    <3>3. HoldTyped'
      BY <2>1, <2>4, <2>5 DEF IInv, Typed, HoldTyped, Store
    <3>4. QED BY <3>1, <3>2, <3>3 DEF Typed
  <2>13. QED BY <2>6, <2>7, <2>8, <2>10, <2>11, <2>12 DEF IInv
<1>3. QED BY <1>1, <1>2

\* The callback returns: the Update gives up the event if it was for one time, or was
\* deleted meanwhile.
LEMMA ExecuteReturnsKeeps ==
  ASSUME EventsAssumption, IInv, NEW h \in Holder, ExecuteReturns(h)
  PROVE  IInv'
<1> DEFINE e == at[h].ev
           n == at[h].pos
<1>1. /\ at[h].pc = "call" /\ UNCHANGED <<object, new, eventAt, pool, adding, crashed>>
      /\ e \in Event /\ at \in [Holder -> Places] /\ Store(list) /\ list[h] \in Seq(Event)
      /\ n \in 1..Len(list[h]) + 1 /\ Len(list[h]) \in Nat
  BY DEF ExecuteReturns, IInv, Slots, Typed, HoldTyped, Store
<1>2. CASE e \in Deletes
  <2> DEFINE p == At("scan", n, None)
  <2>1. /\ ref' = DecRef({e}) /\ UNCHANGED <<list, deleted, repeats>>
        /\ at' = [at EXCEPT ![h] = p]
    BY <1>2 DEF ExecuteReturns, GiveUpReference
  <2>2. p \in Places /\ p.pc = "scan" /\ p.pos = n /\ p.ev = None
    BY <1>1 DEF At, Places
  <2> HIDE DEF p
  <2>3. at'[h] = p /\ at' \in [Holder -> Places] /\ \A g \in Holder \ {h} : at'[g] = at[g]
    BY <1>1, <2>1, <2>2
  <2> HIDE DEF n, e
  <2>4. Slots'
    BY <1>1, <2>1, <2>2, <2>3 DEF IInv, Slots, Running
  <2>5. Unheld' /\ Held' /\ NotAssigned'
    BY <1>1, <2>1 DEF IInv, Unheld, Held, NotAssigned, object
  <2>6. FlaggedNotInWorld'
    BY <2>2, <2>3 DEF IInv, FlaggedNotInWorld, EventsAssumption, Holder
  <2>7. ref' \in [Event -> Int] /\ \A x \in Event : ref'[x] = IF x = e THEN ref[x] - 1 ELSE ref[x]
    BY <2>1 DEF DecRef, IInv, Typed, EventsTyped
  <2>8. Counted'
    <3>1. ASSUME NEW x \in Event PROVE Balanced(x)
      <4>1. /\ Marks(x) = MarksOf(events, at, x) /\ Marks(x)' = MarksOf(events, at', x)
            /\ Listed(x)' = Listed(x) /\ Pooled(x)' = Pooled(x)
        BY <1>1, <2>1 DEF Listed, Pooled, Marks, object
      <4>2. SameCalls(at, at', x, Holder \ {h}) /\ SameCalls(at', at, x, Holder \ {h})
            /\ ~Calls(at', h, x) /\ (Calls(at, h, x) <=> x = e)
        BY <1>1, <1>2, <2>2, <2>3 DEF SameCalls, Calls, e
      <4>3. CASE x = e
        <5>1. OneMore(Marks(x)', Marks(x))
          BY <4>1, <4>2, <4>3, MarkOfCall
        <5>2. QED BY <2>7, <4>1, <4>3, <5>1, FiniteCounts DEF OneMore, Balanced
      <4>4. CASE x # e
        <5>1. SameCalls(at, at', x, Holder)
          BY <4>2, <4>4 DEF SameCalls
        <5>2. Marks(x)' = Marks(x)
          BY <4>1, <5>1, MarksSame
        <5>3. QED BY <2>7, <4>1, <4>4, <5>2, FiniteCounts DEF Balanced
      <4>5. QED BY <4>3, <4>4
    <3>2. QED BY <2>7, <3>1, BalancedCounts
  <2>9. e \notin new
    <3>1. <<h, "call", 0>> \in Marks(e) /\ Cardinality(Marks(e)) # 0
      <4>1. <<h, "call", 0>> \in Marks(e)
        BY <1>1, <1>2, MarkIs DEF Marks, Calls, e
      <4>2. QED BY <1>1, <4>1, FiniteCounts, FS_EmptySet
    <3>2. ref[e] = Cardinality(Listed(e)) + Cardinality(Pooled(e)) + Cardinality(Marks(e))
      BY <1>1 DEF IInv, Counted
    <3>3. ref[e] > 0
      BY <1>1, <3>1, <3>2, FiniteCounts
    <3>4. QED BY <3>3 DEF IInv, Typed, EventsTyped
  <2>10. Typed'
    <3>1. ObjectTyped'
      BY <1>1 DEF IInv, Typed, ObjectTyped, object
    <3>2. EventsTyped'
      BY <1>1, <2>1, <2>7, <2>9 DEF IInv, Typed, EventsTyped, object
    <3>3. HoldTyped'
      BY <1>1, <2>1, <2>3 DEF IInv, Typed, HoldTyped
    <3>4. QED BY <3>1, <3>2, <3>3 DEF Typed
  <2>11. QED BY <2>4, <2>5, <2>6, <2>8, <2>10 DEF IInv
<1>3. CASE e \notin Deletes
  <2>1. n \in 1..Len(list[h]) /\ list[h][n] = e
    BY <1>1, <1>3 DEF IInv, Slots, Running
  <2>2. CASE Erase(h, e) /\ e \in deleted' /\ deleted' \subseteq deleted \cup {e}
             /\ deleted \subseteq deleted' /\ repeats' \in [Event -> {0, 1}]
    BY <1>1, <1>3, <2>1, <2>2, EraseKeeps
  <2>3. CASE at' = [at EXCEPT ![h] = At("scan", n + 1, None)]
             /\ UNCHANGED <<list, ref, deleted, repeats>>
    <3> DEFINE p == At("scan", n + 1, None)
    <3>1. p \in Places /\ p.pc = "scan" /\ p.pos = n + 1 /\ p.ev = None
      BY <1>1 DEF At, Places
    <3>2. at' = [at EXCEPT ![h] = p]
      BY <2>3
    <3> HIDE DEF p
    <3>3. at'[h] = p /\ at' \in [Holder -> Places] /\ \A g \in Holder \ {h} : at'[g] = at[g]
      BY <1>1, <3>1, <3>2
    <3>4. p.pos \in 1..Len(list[h]) + 1
      BY <1>1, <2>1, <3>1
    <3>5. Slots'
      BY <2>3, <3>1, <3>3, <3>4 DEF IInv, Slots, Running
    <3>6. Unheld' /\ Held' /\ NotAssigned'
      BY <1>1, <2>3 DEF IInv, Unheld, Held, NotAssigned, object
    <3>7. FlaggedNotInWorld'
      BY <3>1, <3>3 DEF IInv, FlaggedNotInWorld, EventsAssumption, Holder
    <3>8. Counted'
      <4>1. ASSUME NEW x \in Event PROVE Balanced(x)
        <5>1. /\ Marks(x) = MarksOf(events, at, x) /\ Marks(x)' = MarksOf(events, at', x)
              /\ Listed(x)' = Listed(x) /\ Pooled(x)' = Pooled(x) /\ ref' = ref
          BY <1>1, <2>3 DEF Listed, Pooled, Marks, object
        <5>2. SameCalls(at, at', x, Holder)
          BY <1>1, <1>3, <3>1, <3>3 DEF SameCalls, Calls
        <5>3. Marks(x)' = Marks(x)
          BY <5>1, <5>2, MarksSame
        <5>4. QED BY <5>1, <5>3, FiniteCounts DEF Balanced
      <4>2. ref' \in [Event -> Int]
        BY <2>3 DEF IInv, Typed, EventsTyped
      <4>3. QED BY <4>1, <4>2, BalancedCounts
    <3>9. Typed'
      <4>1. ObjectTyped'
        BY <1>1 DEF IInv, Typed, ObjectTyped, object
      <4>2. EventsTyped'
        BY <1>1, <2>3 DEF IInv, Typed, EventsTyped, object
      <4>3. HoldTyped'
        BY <1>1, <2>3, <3>3 DEF IInv, Typed, HoldTyped
      <4>4. QED BY <4>1, <4>2, <4>3 DEF Typed
    <3>10. QED BY <3>5, <3>6, <3>7, <3>8, <3>9 DEF IInv
  <2>4. \/ /\ Erase(h, e) /\ e \in deleted' /\ deleted' \subseteq deleted \cup {e}
           /\ deleted \subseteq deleted' /\ repeats' \in [Event -> {0, 1}]
        \/ /\ at' = [at EXCEPT ![h] = At("scan", n + 1, None)]
           /\ UNCHANGED <<list, ref, deleted, repeats>>
    <3>1. repeats \in [Event -> {0, 1}]
      BY DEF IInv, Typed, EventsTyped
    <3>2. QED BY <1>1, <1>3, <3>1 DEF ExecuteReturns
  <2>5. QED BY <2>2, <2>3, <2>4
<1>4. QED BY <1>2, <1>3

-----------------------------------------------------------------------------
LEMMA EventsNext == EventsAssumption /\ IInv /\ [Next]_vars => IInv'
<1> SUFFICES ASSUME EventsAssumption, IInv, [Next]_vars PROVE IInv'
  OBVIOUS
<1>1. ASSUME NEW h \in Holder, Update(h) PROVE IInv'
  BY <1>1, BeginUpdateKeeps, DropStaleKeeps, MovesKeep, ExecuteKeeps, ExecuteReturnsKeeps
  DEF Update
<1>2. ASSUME NEW h \in Holder, AddToHolder(h) PROVE IInv'
  BY <1>2, AddToHolderKeeps
<1>3. ASSUME NEW h \in Holder, Operations(h) PROVE IInv'
  <2>1. CASE \E e \in Event : AddEvent(h, e)
    BY <2>1, AddEventKeeps
  <2>2. CASE \E es \in SUBSET Event : RemoveEvents(h, es)
    BY <2>2, RemoveEventsKeeps
  <2>3. CASE \E m \in Map : AddToWorld(h, m)
    BY <2>3, AddToWorldKeeps
  <2>4. CASE h \in Map /\ (PushToWorld(h) \/ RemoveFromWorld(h))
    BY <2>4, PushToWorldKeeps, RemoveFromWorldKeeps
  <2>5. CASE Destroy(h)
    BY <2>5, DestroyKeeps
  <2>6. QED BY <1>3, <2>1, <2>2, <2>3, <2>4, <2>5 DEF Operations
<1>4. CASE UNCHANGED vars
  <2> USE <1>4 DEF vars, object, event, hold
  <2>1. Typed'
    BY DEF IInv, Typed, ObjectTyped, EventsTyped, HoldTyped
  <2>2. Slots' /\ Unheld' /\ Held' /\ NotAssigned' /\ FlaggedNotInWorld'
    BY DEF IInv, Slots, Running, Unheld, Held, NotAssigned, FlaggedNotInWorld
  <2>3. Counted'
    BY DEF IInv, Counted, Listed, Pooled, Marks
  <2>4. QED BY <2>1, <2>2, <2>3 DEF IInv
<1>5. QED BY <1>1, <1>2, <1>3, <1>4 DEF Next

\* The inductive invariant: what the operations of the object, on any thread, and the
\* Updates of all holders rely on.
THEOREM EventsInvariant == Spec => []IInv
<1>1. Init => IInv
  BY EventsInit, EventsAssumption
<1>2. IInv /\ [Next]_vars => IInv'
  BY EventsNext, EventsAssumption
<1>3. QED BY <1>1, <1>2, PTL DEF Spec

\* Type correctness; a count is never below zero, which its type in IInv leaves open.
THEOREM EventsTypes == Spec => []TypeOK
<1>1. IInv => TypeOK
  <2> SUFFICES ASSUME IInv PROVE TypeOK
    OBVIOUS
  <2>1. ref \in [Event -> Nat]
    BY ReferencesCounted DEF IInv, Typed, EventsTyped
  <2>2. /\ alive \in BOOLEAN /\ inWorld \in BOOLEAN /\ crashed \in BOOLEAN
        /\ instance \in Map \cup {None} /\ holder \in Holder \cup {None}
        /\ inWorld => instance # None
        /\ moves \in 0..MaxMoves
    BY DEF IInv, Typed, ObjectTyped
  <2>3. /\ events \subseteq Event \ new /\ deleted \subseteq Event \ new
        /\ repeats \in [Event -> {0, 1}] /\ eventAt \in [Event -> Holder \cup {None}]
    BY DEF IInv, Typed, EventsTyped
  <2>4. /\ adding \in [Holder -> Event \cup {None}]
        /\ \A h \in Holder :
             /\ list[h] \in Seq(Event) /\ pool[h] \in Seq(Event)
             /\ at[h].pc \in {"idle", "scan", "due", "call"}
             /\ at[h].ev \in Event \cup {None}
             /\ at[h].pos \in 1..Len(list[h]) + 1
    BY DEF IInv, Typed, HoldTyped, Slots, Places
  <2>5. QED BY <2>1, <2>2, <2>3, <2>4 DEF TypeOK
<1>2. QED BY <1>1, EventsInvariant, PTL

\* An event's count is the number of references to it, however adding, removing,
\* relocating and executing it interleave: it is never freed while it is listed.
THEOREM EventsRefsExact == Spec => []RefsExact
<1>1. IInv => RefsExact
  BY ReferencesCounted DEF IInv, RefsExact
<1>2. QED BY <1>1, EventsInvariant, PTL

\* An event that belongs to the object's holder is in its list or its pool, or a thread
\* is about to add it: no relocation, and no Update at the same time, loses one.
THEOREM EventsHeldIsListed == Spec => []HeldIsListed
<1>1. IInv => HeldIsListed
  BY DEF IInv, Held, HeldIsListed
<1>2. QED BY <1>1, EventsInvariant, PTL

\* WorldRunnable never executes an event flagged
\* EVENT_FLAG_DO_NOT_EXECUTE_IN_WORLD_CONTEXT.
THEOREM EventsFlaggedNotInWorld == Spec => []FlaggedNotInWorld
<1>1. IInv => FlaggedNotInWorld
  BY DEF IInv
<1>2. QED BY <1>1, EventsInvariant, PTL
===============================================================================
