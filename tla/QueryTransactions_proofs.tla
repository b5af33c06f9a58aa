---------------------- MODULE QueryTransactions_proofs ----------------------
(***************************************************************************)
(* Proofs about QueryTransactions: any jobs of any size, any threads and    *)
(* connections, any number of lost connections and failed statements.       *)
(***************************************************************************)
EXTENDS QueryTransactions, FiniteSetTheorems, SequenceTheorems, TLAPS

\* How often a statement is in a sequence of them: Times(s) is Count(stored, s).
Count(q, s) == Cardinality({n \in DOMAIN q : q[n] = s})

LEMMA CountType ==
  ASSUME NEW S, NEW q \in Seq(S), NEW s
  PROVE  IsFiniteSet({n \in DOMAIN q : q[n] = s}) /\ Count(q, s) \in Nat
<1>1. Len(q) \in Nat /\ DOMAIN q = 1 .. Len(q)
  OBVIOUS
<1>2. IsFiniteSet(1 .. Len(q))
  BY <1>1, FS_Interval
<1>3. {n \in DOMAIN q : q[n] = s} \subseteq 1 .. Len(q)
  BY <1>1
<1>4. QED BY <1>2, <1>3, FS_Subset, FS_CardinalityType DEF Count

LEMMA CountEmpty == \A s : Count(<<>>, s) = 0
<1>1. \A s : {n \in DOMAIN <<>> : <<>>[n] = s} = {}
  OBVIOUS
<1>2. QED BY <1>1, FS_EmptySet DEF Count

LEMMA CountAppend ==
  ASSUME NEW S, NEW q \in Seq(S), NEW x \in S, NEW s
  PROVE  Count(Append(q, x), s) = Count(q, s) + (IF x = s THEN 1 ELSE 0)
<1> DEFINE A == {n \in DOMAIN q : q[n] = s}
           B == {n \in DOMAIN Append(q, x) : Append(q, x)[n] = s}
<1>1. /\ Len(q) \in Nat /\ DOMAIN q = 1 .. Len(q)
      /\ DOMAIN Append(q, x) = 1 .. Len(q) + 1
      /\ \A n \in 1 .. Len(q) : Append(q, x)[n] = q[n]
      /\ Append(q, x)[Len(q) + 1] = x
  OBVIOUS
<1>2. Count(q, s) = Cardinality(A) /\ Count(Append(q, x), s) = Cardinality(B)
  BY DEF Count
<1>3. IsFiniteSet(A) /\ Cardinality(A) \in Nat
  BY CountType, FS_CardinalityType
<1>4. CASE x = s
  <2>1. B = A \cup {Len(q) + 1} /\ Len(q) + 1 \notin A
    BY <1>1, <1>4
  <2> HIDE DEF A, B
  <2>2. Cardinality(A \cup {Len(q) + 1}) = Cardinality(A) + 1
    BY <1>3, <2>1, FS_AddElement
  <2>3. QED BY <1>2, <1>4, <2>1, <2>2
<1>5. CASE x # s
  <2>1. B = A
    BY <1>1, <1>5
  <2> HIDE DEF A, B
  <2>2. QED BY <1>2, <1>3, <1>5, <2>1
<1>6. QED BY <1>4, <1>5

LEMMA CountConcat ==
  ASSUME NEW S, NEW q \in Seq(S), NEW r \in Seq(S), NEW s
  PROVE  Count(q \o r, s) = Count(q, s) + Count(r, s)
<1> DEFINE A == {n \in DOMAIN q : q[n] = s}
           B == {n \in DOMAIN r : r[n] = s}
           C == {n \in (Len(q) + 1) .. (Len(q) + Len(r)) : r[n - Len(q)] = s}
           D == {n \in DOMAIN (q \o r) : (q \o r)[n] = s}
           shift == [n \in B |-> n + Len(q)]
<1>1. /\ Len(q) \in Nat /\ DOMAIN q = 1 .. Len(q) /\ Len(r) \in Nat /\ DOMAIN r = 1 .. Len(r)
      /\ DOMAIN (q \o r) = 1 .. Len(q) + Len(r)
      /\ \A n \in 1 .. Len(q) + Len(r) :
           (q \o r)[n] = IF n <= Len(q) THEN q[n] ELSE r[n - Len(q)]
  OBVIOUS
<1>2. /\ Count(q, s) = Cardinality(A) /\ Count(r, s) = Cardinality(B)
      /\ Count(q \o r, s) = Cardinality(D)
  BY DEF Count
<1>3. IsFiniteSet(A) /\ IsFiniteSet(B)
  BY CountType
<1>4. D = A \cup C /\ A \cap C = {}
  BY <1>1
<1>5. shift \in Bijection(B, C)
  <2>1. shift \in [B -> C]
    <3>1. \A n \in B : n \in Nat /\ n + Len(q) \in Nat /\ n + Len(q) - Len(q) = n
      BY <1>1
    <3>2. \A n \in B : n + Len(q) \in C
      BY <1>1, <3>1
    <3>3. QED BY <3>2
  <2>1a. \A m, n \in B : shift[m] = shift[n] => m = n
    BY <1>1, SMTT(30)
  <2>2. \A n \in C : n - Len(q) \in B /\ shift[n - Len(q)] = n
    <3>1. \A n \in C : n - Len(q) \in 1 .. Len(r) /\ n - Len(q) + Len(q) = n
      BY <1>1
    <3>2. \A n \in C : n - Len(q) \in B
      BY <1>1, <3>1
    <3>3. QED BY <3>1, <3>2
  <2> HIDE DEF B, C, shift
  <2>3. QED BY <2>1, <2>1a, <2>2 DEF Bijection, Injection, Surjection, IsInjective
<1> HIDE DEF A, B, C, D, shift
<1>6. IsFiniteSet(C) /\ Cardinality(C) = Cardinality(B)
  BY <1>3, <1>5, FS_Bijection DEF ExistsBijection
<1>7. Cardinality(A \cup C) = Cardinality(A) + Cardinality(C) - Cardinality(A \cap C)
  BY <1>3, <1>6, FS_Union
<1>8. Cardinality(A \cap C) = 0
  BY <1>4, FS_EmptySet
<1>9. Cardinality(A) \in Nat /\ Cardinality(B) \in Nat
  BY <1>3, FS_CardinalityType
<1>10. QED BY <1>2, <1>4, <1>6, <1>7, <1>8, <1>9

-----------------------------------------------------------------------------
\* A thread has a connection while it has a job.
Typed == TypeOK /\ \A t \in Thread : at[t].job = None <=> at[t].conn = None

\* Two threads have neither the same connection nor the same job, and none a job again.
Own ==
  /\ \A t, u \in Thread : t # u /\ Busy(t) => at[t].conn # at[u].conn /\ at[t].job # at[u].job
  /\ \A t \in Thread : at[t].job \notin done

\* A broken connection has no transaction, nor has one that is about to be opened again or
\* that performs a single statement.
Clean ==
  /\ \A k \in Conn : ~link[k] => tx[k] = NoTx
  /\ \A t \in Thread : Busy(t) /\ (at[t].try = "reconnect" \/ at[t].job \notin Buffer)
                         => tx[at[t].conn] = NoTx
  /\ FreeIsClean

Extra(U, s) == IF s \in U THEN 1 ELSE 0

\* How often a statement may have had its effect: of those still to be sent none has, the
\* one being sent only if its answer was lost, and none that an open transaction holds back.
Effects ==
  \A s \in Stmt :
    /\ Count(stored, s) <= 1 + Extra(unanswered, s)
    /\ s[1] \notin done /\ (\A t \in Thread : at[t].job # s[1]) => Count(stored, s) = 0
    /\ \A t \in Thread : at[t].job = s[1] =>
         /\ s[2] > at[t].pos => Count(stored, s) = 0
         /\ s[2] = at[t].pos => Count(stored, s) <= IF at[t].try = "first" THEN 0 ELSE Extra(unanswered, s)
         /\ tx[at[t].conn] # NoTx /\ s \notin Untransacted => Count(stored, s) = 0

\* What is open on a connection: of the job performed on it, what was sent, once.
Opened ==
  \A t \in Thread, s \in Stmt : Busy(t) /\ tx[at[t].conn] # NoTx =>
    Count(tx[at[t].conn], s)
      <= IF s[1] = at[t].job /\ s[2] < at[t].pos /\ s \notin Untransacted THEN 1 ELSE 0

\* Where a statement is once it was sent in a transaction: in what is stored, or held back.
Where(store, open, s) == IF s \in Untransacted THEN store ELSE open

\* Without trouble the transaction is open from its start, with all that was sent in it, but
\* for what is stored already.
Whole ==
  \A s \in Stmt : s[1] \notin troubled =>
    /\ s[1] \in done => Count(stored, s) = 1
    /\ \A t \in Thread : at[t].job = s[1] =>
         /\ at[t].try = "first"
         /\ s[1] \in Buffer /\ at[t].pos > 0 =>
              /\ tx[at[t].conn] # NoTx
              /\ Count(Where(stored, tx[at[t].conn], s), s) = IF s[2] < at[t].pos THEN 1 ELSE 0

IInv == Typed /\ Own /\ Clean /\ Effects /\ Opened /\ Whole

LEMMA Statements ==
  ASSUME TransactionAssumption
  PROVE  \A s \in Stmt : s[1] \in Job /\ s[2] \in 1 .. Size[s[1]] /\ s = <<s[1], s[2]>>
BY DEF TransactionAssumption, Stmt

LEMMA TransactionInit == TransactionAssumption /\ Init => IInv
<1> SUFFICES ASSUME TransactionAssumption, Init PROVE IInv
  OBVIOUS
<1>1. \A t \in Thread : at[t] = Idle /\ at[t].job = None /\ at[t].conn = None
  BY DEF Init, Idle
<1>2. \A s \in Stmt : Count(stored, s) = 0 /\ s[1] \in Job
  BY CountEmpty, Statements DEF Init
<1>3. Typed
  <2>1. at \in [Thread -> [job : Job \cup {None}, conn : Conn \cup {None}, pos : Nat,
                           try : {"first", "reconnect", "second"}]]
    BY DEF Init, Idle
  <2>2. /\ link \in [Conn -> BOOLEAN] /\ tx \in [Conn -> Seq(Stmt) \cup {NoTx}]
        /\ done = {} /\ stored \in Seq(Stmt) /\ unanswered = {} /\ troubled = {}
    BY DEF Init
  <2>3. QED BY <1>1, <2>1, <2>2 DEF Typed, TypeOK, TransactionAssumption
<1>4. Own /\ Clean
  BY <1>1 DEF Init, Own, Clean, Busy, FreeIsClean
<1>5. Effects
  BY <1>1, <1>2 DEF Effects, Extra, TransactionAssumption
<1>6. Opened /\ Whole
  BY <1>1, <1>2 DEF Init, Opened, Whole, Busy, TransactionAssumption
<1>7. QED BY <1>3, <1>4, <1>5, <1>6 DEF IInv

-----------------------------------------------------------------------------
\* Where a thread goes when _SendQuery has returned, or before it reconnects and after.
Ends(t)     == /\ at[t].pos = Last(at[t].job) /\ at'[t] = Idle
               /\ done' = done \cup {at[t].job}
Goes(t)     == /\ at[t].pos < Last(at[t].job) /\ done' = done
               /\ at'[t] = [job |-> at[t].job, conn |-> at[t].conn, pos |-> at[t].pos + 1,
                            try |-> "first"]
Tries(t, y) == /\ done' = done
               /\ at'[t] = [job |-> at[t].job, conn |-> at[t].conn, pos |-> at[t].pos, try |-> y]

Moves(t) ==
  /\ DOMAIN at' = Thread /\ at' = [u \in Thread |-> at'[u]]
  /\ \A u \in Thread \ {t} : at'[u] = at[u]
  /\ Ends(t) \/ Goes(t) \/ Tries(t, "reconnect") \/ Tries(t, "second")

LEMMA AdvanceMoves ==
  ASSUME TransactionAssumption, Typed, NEW t \in Thread, Busy(t), Advance(t)
  PROVE  Moves(t) /\ (Ends(t) \/ Goes(t))
<1>1. /\ at[t].job \in Job /\ at[t].pos \in Nat /\ at[t].pos <= Last(at[t].job)
      /\ Last(at[t].job) \in Nat
  BY DEF Typed, TypeOK, Busy, Last, TransactionAssumption
<1>2. CASE at[t].pos = Last(at[t].job)
  BY <1>1, <1>2 DEF Advance, Moves, Ends, Typed, TypeOK
<1>3. CASE at[t].pos # Last(at[t].job)
  <2>1. at' = [at EXCEPT ![t].pos = @ + 1, ![t].try = "first"] /\ done' = done
    BY <1>3 DEF Advance
  <2>2. at \in [Thread -> [job : Job \cup {None}, conn : Conn \cup {None}, pos : Nat,
                           try : {"first", "reconnect", "second"}]]
    BY DEF Typed, TypeOK
  <2>3. /\ DOMAIN at' = Thread /\ at' = [u \in Thread |-> at'[u]]
        /\ \A u \in Thread \ {t} : at'[u] = at[u]
    BY <2>1, <2>2
  <2>4. at'[t] = [at[t] EXCEPT !.pos = at[t].pos + 1, !.try = "first"]
    BY <2>1, <2>2
  <2>5. at'[t] = [job |-> at[t].job, conn |-> at[t].conn, pos |-> at[t].pos + 1,
                  try |-> "first"]
    BY <2>2, <2>4, ZenonT(30)
  <2>6. at[t].pos < Last(at[t].job)
    BY <1>1, <1>3
  <2>7. QED BY <2>1, <2>3, <2>5, <2>6 DEF Moves, Goes
<1>4. QED BY <1>2, <1>3

LEMMA MoveKeeps ==
  ASSUME TransactionAssumption, Typed, Own, NEW t \in Thread, Busy(t), Moves(t)
  PROVE  /\ at' \in [Thread -> [job : Job \cup {None}, conn : Conn \cup {None}, pos : Nat,
                                try : {"first", "reconnect", "second"}]]
         /\ \A u \in Thread : at'[u].job \in Job =>
              at'[u].conn \in Conn /\ at'[u].pos \in (IF at'[u].job \in Buffer
                                                      THEN 0 .. Size[at'[u].job] + 1 ELSE {1})
         /\ \A u \in Thread : at'[u].job = None <=> at'[u].conn = None
         /\ done' \subseteq Job /\ Own'
<1>1. /\ at[t].job \in Job /\ at[t].conn \in Conn /\ at[t].pos \in Nat
      /\ Size[at[t].job] \in Nat /\ at[t].job # None /\ at[t].conn # None
  BY DEF Typed, TypeOK, Busy, TransactionAssumption
<1>2. at'[t] \in [job : Job \cup {None}, conn : Conn \cup {None}, pos : Nat,
                  try : {"first", "reconnect", "second"}]
  BY <1>1 DEF Moves, Ends, Goes, Tries, Idle
<1>3. at' \in [Thread -> [job : Job \cup {None}, conn : Conn \cup {None}, pos : Nat,
                          try : {"first", "reconnect", "second"}]]
  BY <1>2 DEF Moves, Typed, TypeOK
<1>4. at'[t].job \in Job =>
        at'[t].conn \in Conn /\ at'[t].pos \in (IF at'[t].job \in Buffer
                                                THEN 0 .. Size[at'[t].job] + 1 ELSE {1})
  BY <1>1 DEF Moves, Ends, Goes, Tries, Idle, Last, Typed, TypeOK, TransactionAssumption
<1>5. /\ at'[t].job = None <=> at'[t].conn = None
      /\ \/ at'[t].job = None /\ done' = done \cup {at[t].job}
         \/ at'[t].job = at[t].job /\ at'[t].conn = at[t].conn /\ done' = done
  BY <1>1 DEF Moves, Ends, Goes, Tries, Idle
<1>6. Own'
  <2>1. \A u \in Thread \ {t} : at'[u] = at[u]
    BY DEF Moves
  <2>2. ASSUME NEW u \in Thread, NEW v \in Thread, u # v, at'[u].job # None
        PROVE  at'[u].conn # at'[v].conn /\ at'[u].job # at'[v].job
    <3>1. CASE u = t
      BY <1>1, <1>5, <2>1, <2>2, <3>1 DEF Own, Busy
    <3>2. CASE u # t
      <4>1. at'[u] = at[u] /\ at[u].conn # None
        BY <2>1, <2>2, <3>2 DEF Typed
      <4>2. QED BY <1>1, <1>5, <2>1, <2>2, <4>1 DEF Own, Busy
    <3>3. QED BY <3>1, <3>2
  <2>3. ASSUME NEW u \in Thread PROVE at'[u].job \notin done'
    <3>1. None \notin done /\ at[u].job \notin done /\ at[t].job \notin done
      BY DEF Typed, TypeOK, TransactionAssumption, Own
    <3>2. CASE u = t
      BY <1>1, <1>5, <3>1, <3>2
    <3>3. CASE u # t
      BY <1>1, <1>5, <2>1, <3>1, <3>3 DEF Own, Busy
    <3>4. QED BY <3>2, <3>3
  <2>4. QED BY <2>2, <2>3 DEF Own, Busy
<1>7. \A u \in Thread : at'[u].job \in Job =>
        at'[u].conn \in Conn /\ at'[u].pos \in (IF at'[u].job \in Buffer
                                                THEN 0 .. Size[at'[u].job] + 1 ELSE {1})
  BY <1>4 DEF Moves, Typed, TypeOK
<1>8. \A u \in Thread : at'[u].job = None <=> at'[u].conn = None
  BY <1>5 DEF Moves, Typed
<1>9. done' \subseteq Job
  BY <1>1, <1>5 DEF Typed, TypeOK
<1>10. QED BY <1>3, <1>6, <1>7, <1>8, <1>9

\* What a turn of a thread, after which x is open on its connection, must do to the counts.
Counts(t, x) ==
  \A s \in Stmt :
    /\ s[1] # at[t].job => Count(stored', s) = Count(stored, s) /\ (x # NoTx => Count(x, s) = 0)
    /\ s[1] = at[t].job =>
         /\ Count(stored', s) <= 1 + Extra(unanswered', s)
         /\ s[2] > at[t].pos => Count(stored', s) = 0
         /\ s[2] = at[t].pos /\ at'[t].pos = at[t].pos => Count(stored', s) <= Extra(unanswered', s)
         /\ x # NoTx =>
              /\ s \notin Untransacted => Count(stored', s) = 0
              /\ Count(x, s) <= IF s[2] < at'[t].pos /\ s \notin Untransacted THEN 1 ELSE 0
         /\ s[1] \notin troubled' =>
              /\ Ends(t) => Count(stored', s) = 1
              /\ ~Ends(t) => Goes(t)
              /\ ~Ends(t) /\ s[1] \in Buffer =>
                   x # NoTx /\ Count(Where(stored', x, s), s) = IF s[2] < at'[t].pos THEN 1 ELSE 0

LEMMA TurnKeeps ==
  ASSUME TransactionAssumption, IInv, NEW t \in Thread, Busy(t), Moves(t),
         NEW x \in Seq(Stmt) \cup {NoTx}, tx' = [tx EXCEPT ![at[t].conn] = x],
         link' \in [Conn -> BOOLEAN], \A k \in Conn \ {at[t].conn} : link'[k] = link[k],
         stored' \in Seq(Stmt),
         unanswered \subseteq unanswered', unanswered' \subseteq Stmt,
         troubled \subseteq troubled', troubled' \subseteq Job,
         ~link'[at[t].conn] \/ Ends(t) \/ at'[t].try = "reconnect" \/ at[t].job \notin Buffer
           => x = NoTx,
         Counts(t, x)
  PROVE  IInv'
<1>1. /\ \A u \in Thread \ {t} : at'[u] = at[u]
      /\ \/ Ends(t) /\ at'[t].job = None /\ at'[t].conn = None
         \/ ~Ends(t) /\ at'[t].job = at[t].job /\ at'[t].conn = at[t].conn
  BY DEF Moves, Ends, Goes, Tries, Idle, Busy
<1>2. at[t].job \in Job /\ at[t].conn \in Conn /\ at[t].job # None /\ at[t].conn # None
  BY DEF IInv, Typed, TypeOK, Busy, TransactionAssumption
<1>3. /\ tx'[at[t].conn] = x /\ tx' \in [Conn -> Seq(Stmt) \cup {NoTx}]
      /\ \A k \in Conn \ {at[t].conn} : tx'[k] = tx[k]
  BY <1>2 DEF IInv, Typed, TypeOK
<1>4. \A u \in Thread \ {t} : at[u].job # None =>
        /\ at[u].job # at[t].job /\ at[u].conn # at[t].conn /\ at[u].conn \in Conn
        /\ tx'[at[u].conn] = tx[at[u].conn]
  BY <1>2, <1>3 DEF IInv, Own, Busy, Typed, TypeOK
<1>5. Typed' /\ Own'
  BY <1>3, MoveKeeps DEF IInv, Typed, TypeOK
<1>6. Clean'
  <2>1. \A k \in Conn : ~link'[k] => tx'[k] = NoTx
    BY <1>3 DEF IInv, Clean
  <2>2. ASSUME NEW u \in Thread, Busy(u)', at'[u].try = "reconnect" \/ at'[u].job \notin Buffer
        PROVE  tx'[at'[u].conn] = NoTx
    <3>1. CASE u = t
      BY <1>1, <1>3, <2>2, <3>1 DEF Busy
    <3>2. CASE u # t
      BY <1>1, <1>4, <2>2, <3>2 DEF IInv, Clean, Busy
    <3>3. QED BY <3>1, <3>2
  <2>3. ASSUME NEW k \in Conn, \A u \in Thread : at'[u].conn # k PROVE tx'[k] = NoTx
    <3>1. CASE k = at[t].conn
      BY <1>1, <1>3, <2>3, <3>1
    <3>2. CASE k # at[t].conn
      <4>1. \A u \in Thread : at[u].conn # k
        BY <1>1, <2>3, <3>2
      <4>2. QED BY <1>3, <3>2, <4>1 DEF IInv, Clean, FreeIsClean
    <3>3. QED BY <3>1, <3>2
  <2>4. QED BY <2>1, <2>2, <2>3 DEF Clean, FreeIsClean
<1>7. \A s \in Stmt : /\ s[1] \in Job /\ s[2] \in Nat
                      /\ Count(stored, s) \in Nat /\ Count(stored', s) \in Nat
                      /\ Extra(unanswered, s) \in {0, 1} /\ Extra(unanswered', s) \in {0, 1}
                      /\ Extra(unanswered, s) <= Extra(unanswered', s)
  <2>1. \A s \in Stmt : s[1] \in Job /\ s[2] \in 1 .. Size[s[1]]
    BY Statements
  <2>2. \A s \in Stmt : Count(stored, s) \in Nat /\ Count(stored', s) \in Nat
    BY CountType DEF IInv, Typed, TypeOK
  <2>3. QED BY <2>1, <2>2 DEF Extra, TransactionAssumption
<1>8. \A j \in Job : j \in done' => j \in done \/ j = at[t].job
  BY DEF Moves, Ends, Goes, Tries
<1>9. \/ at'[t].job = None
      \/ /\ at'[t].pos \in Nat /\ at[t].pos \in Nat /\ ~Ends(t)
         /\ \/ Goes(t) /\ at'[t].pos = at[t].pos + 1 /\ at'[t].try = "first"
            \/ at'[t].pos = at[t].pos /\ at'[t].try # "first"
  <2>1. at[t].pos \in Nat
    BY DEF IInv, Typed, TypeOK
  <2>2. CASE Ends(t)
    <3>1. at'[t].job = None
      BY <2>2 DEF Ends, Idle
    <3>2. QED BY <3>1
  <2>3. CASE Goes(t)
    BY <1>2, <2>1, <2>3 DEF Goes, Ends, Idle
  <2>4. CASE Tries(t, "reconnect") \/ Tries(t, "second")
    BY <1>2, <2>1, <2>4 DEF Tries, Ends, Idle
  <2>5. QED BY <2>2, <2>3, <2>4 DEF Moves
<1>10. Effects'
  <2> SUFFICES ASSUME NEW s \in Stmt
      PROVE /\ Count(stored', s) <= 1 + Extra(unanswered', s)
            /\ s[1] \notin done' /\ (\A u \in Thread : at'[u].job # s[1]) => Count(stored', s) = 0
            /\ \A u \in Thread : at'[u].job = s[1] =>
                 /\ s[2] > at'[u].pos => Count(stored', s) = 0
                 /\ s[2] = at'[u].pos
                      => Count(stored', s) <= IF at'[u].try = "first" THEN 0 ELSE Extra(unanswered', s)
                 /\ tx'[at'[u].conn] # NoTx /\ s \notin Untransacted => Count(stored', s) = 0
    BY DEF Effects
  <2> DEFINE old == Count(stored, s)
             new == Count(stored', s)
  <2>0. /\ s[1] \in Job /\ s[2] \in Nat /\ old \in Nat /\ new \in Nat
        /\ Extra(unanswered, s) \in {0, 1} /\ Extra(unanswered', s) \in {0, 1}
        /\ Extra(unanswered, s) <= Extra(unanswered', s)
    BY <1>7
  <2>1. CASE s[1] = at[t].job
    <3>1. Ends(t) => s[1] \in done'
      BY <2>1 DEF Ends
    <3>2. \A u \in Thread : at'[u].job = s[1] => u = t
      BY <1>1, <1>2, <1>4, <2>1
    <3>3. at'[t].job = s[1] => /\ s[2] > at'[t].pos => Count(stored', s) = 0
                               /\ s[2] = at'[t].pos
                                    => Count(stored', s) <= IF at'[t].try = "first" THEN 0
                                                                                  ELSE Extra(unanswered', s)
                               /\ tx'[at'[t].conn] # NoTx /\ s \notin Untransacted => Count(stored', s) = 0
      BY <1>1, <1>2, <1>3, <2>0, <1>9, <2>1 DEF Counts
    <3>4. QED BY <1>1, <2>1, <3>1, <3>2, <3>3 DEF Counts
  <2>2. CASE s[1] # at[t].job
    <3>1. Count(stored', s) = Count(stored, s) /\ at[t].job # s[1] /\ s[1] # None
      BY <2>0, <2>2 DEF Counts, TransactionAssumption
    <3>2. Count(stored', s) <= 1 + Extra(unanswered', s)
      BY <2>0, <3>1 DEF IInv, Effects
    <3>3. s[1] \notin done' => s[1] \notin done
      BY DEF Moves, Ends, Goes, Tries
    <3>4. (\A u \in Thread : at'[u].job # s[1]) => \A u \in Thread : at[u].job # s[1]
      BY <1>1, <3>1
    <3>5. ASSUME NEW u \in Thread, at'[u].job = s[1]
          PROVE  u # t /\ at'[u] = at[u] /\ tx'[at'[u].conn] = tx[at[u].conn]
      BY <1>1, <1>4, <3>1, <3>5
    <3>6. s[1] \notin done' /\ (\A u \in Thread : at'[u].job # s[1]) => Count(stored', s) = 0
      BY <3>1, <3>3, <3>4 DEF IInv, Effects
    <3>7. ASSUME NEW u \in Thread, at'[u].job = s[1]
          PROVE  /\ s[2] > at'[u].pos => Count(stored', s) = 0
                 /\ s[2] = at'[u].pos
                      => Count(stored', s) <= IF at'[u].try = "first" THEN 0
                                                                    ELSE Extra(unanswered', s)
                 /\ tx'[at'[u].conn] # NoTx /\ s \notin Untransacted => Count(stored', s) = 0
      <4>1. at[u].job = s[1] /\ at'[u] = at[u] /\ tx'[at'[u].conn] = tx[at[u].conn]
        BY <3>5, <3>7
      <4>2. /\ s[2] > at[u].pos => Count(stored, s) = 0
            /\ s[2] = at[u].pos => Count(stored, s) <= IF at[u].try = "first" THEN 0
                                                       ELSE Extra(unanswered, s)
            /\ tx[at[u].conn] # NoTx /\ s \notin Untransacted => Count(stored, s) = 0
        BY <4>1 DEF IInv, Effects
      <4>3. QED BY <2>0, <3>1, <4>1, <4>2
    <3>8. QED BY <3>2, <3>6, <3>7
  <2>3. QED BY <2>1, <2>2
<1>11. Opened'
  <2> SUFFICES ASSUME NEW u \in Thread, NEW s \in Stmt, at'[u].job # None,
                      tx'[at'[u].conn] # NoTx
      PROVE Count(tx'[at'[u].conn], s)
              <= IF s[1] = at'[u].job /\ s[2] < at'[u].pos /\ s \notin Untransacted THEN 1 ELSE 0
    BY DEF Opened, Busy
  <2>1. CASE u = t
    <3>1. at'[t].job = at[t].job /\ tx'[at'[t].conn] = x
      BY <1>1, <1>3, <2>1
    <3>2. QED BY <2>1, <3>1 DEF Counts
  <2>2. CASE u # t
    BY <1>1, <1>4, <2>2 DEF IInv, Opened, Busy
  <2>3. QED BY <2>1, <2>2
<1>12. Whole'
  <2> SUFFICES ASSUME NEW s \in Stmt, s[1] \notin troubled'
      PROVE  /\ s[1] \in done' => Count(stored', s) = 1
             /\ \A u \in Thread : at'[u].job = s[1] =>
                  /\ at'[u].try = "first"
                  /\ s[1] \in Buffer /\ at'[u].pos > 0 =>
                       /\ tx'[at'[u].conn] # NoTx
                       /\ Count(Where(stored', tx'[at'[u].conn], s), s) = IF s[2] < at'[u].pos THEN 1 ELSE 0
    BY DEF Whole
  <2>1. CASE s[1] = at[t].job
    <3>1. \A u \in Thread : at'[u].job = s[1] => u = t /\ ~Ends(t)
      BY <1>1, <1>2, <1>4, <2>1
    <3>2. ~Ends(t) => s[1] \notin done'
      BY <1>1, <1>9, <2>1 DEF IInv, Own, Moves, Goes, Tries
    <3>3. s[1] \in done' => Count(stored', s) = 1
      BY <2>1, <3>2 DEF Counts
    <3>4. ASSUME NEW u \in Thread, at'[u].job = s[1]
          PROVE  /\ at'[u].try = "first"
                 /\ s[1] \in Buffer => x # NoTx
                 /\ s[1] \in Buffer => Count(Where(stored', x, s), s) = IF s[2] < at'[u].pos THEN 1 ELSE 0
                 /\ tx'[at'[u].conn] = x
      <4>1. u = t /\ ~Ends(t) /\ Goes(t)
        BY <2>1, <3>1, <3>4 DEF Counts
      <4>2. QED BY <1>1, <1>3, <2>1, <4>1 DEF Counts, Goes
    <3>5. QED BY <3>3, <3>4
  <2>2. CASE s[1] # at[t].job
    <3>1. /\ Count(stored', s) = Count(stored, s) /\ s[1] \notin troubled
          /\ s[1] \in done' => s[1] \in done
      BY <1>7, <1>8, <2>2 DEF Counts
    <3>2. ASSUME NEW u \in Thread, at'[u].job = s[1]
          PROVE  at'[u] = at[u] /\ tx'[at'[u].conn] = tx[at[u].conn]
      BY <1>1, <1>4, <1>7, <2>2, <3>2 DEF TransactionAssumption
    <3>3. \A q : Count(Where(stored', q, s), s) = Count(Where(stored, q, s), s)
      BY <3>1 DEF Where
    <3>4. QED BY <3>1, <3>2, <3>3 DEF IInv, Whole
  <2>3. QED BY <2>1, <2>2
<1>13. QED BY <1>5, <1>6, <1>10, <1>11, <1>12 DEF IInv

-----------------------------------------------------------------------------
\* Where a busy thread is, in the terms of the steps below.
LEMMA Position ==
  ASSUME TransactionAssumption, IInv, NEW t \in Thread, Busy(t)
  PROVE  /\ at[t].job \in Job /\ at[t].conn \in Conn /\ at[t].pos \in Nat
         /\ Size[at[t].job] \in Nat \ {0}
         /\ Begins(t) => at[t].job \in Buffer /\ at[t].pos < Last(at[t].job) /\ ~Commits(t)
         /\ Commits(t) => at[t].job \in Buffer /\ at[t].pos = Last(at[t].job)
         /\ at[t].job \notin Buffer => at[t].pos = 1 /\ Last(at[t].job) = 1 /\ ~Commits(t)
         /\ ~Begins(t) /\ ~Commits(t) => /\ Current(t) \in Stmt
                                         /\ at[t].job \in Buffer => at[t].pos < Last(at[t].job)
         /\ tx[at[t].conn] \in Seq(Stmt) \cup {NoTx}
         /\ Open(t) = tx[at[t].conn]
<1>1. /\ at[t].job \in Job /\ at[t].conn \in Conn /\ at[t].pos \in Nat
      /\ Size[at[t].job] \in Nat \ {0}
      /\ at[t].pos \in (IF at[t].job \in Buffer THEN 0 .. Size[at[t].job] + 1 ELSE {1})
      /\ at[t].job \notin Buffer => Size[at[t].job] = 1
      /\ tx[at[t].conn] \in Seq(Stmt) \cup {NoTx}
  BY DEF IInv, Typed, TypeOK, Busy, TransactionAssumption
<1>2. ~Begins(t) /\ ~Commits(t) => Current(t) \in Stmt
  BY <1>1 DEF Begins, Commits, Current, Stmt
<1>3. QED BY <1>1, <1>2 DEF Begins, Commits, Last, Open

\* The server: how often a statement is stored, and open, once it has done what it was sent.
LEMMA ServerCounts ==
  ASSUME TransactionAssumption, IInv, NEW t \in Thread, Busy(t)
  PROVE  /\ StoredBy(t) \in Seq(Stmt) /\ OpenedBy(t) \in Seq(Stmt) \cup {NoTx}
         /\ Begins(t) => StoredBy(t) = stored /\ OpenedBy(t) = <<>> /\ OpenedBy(t) # NoTx
         /\ Commits(t) => /\ OpenedBy(t) = NoTx
                          /\ \A s \in Stmt : Count(StoredBy(t), s) = Count(stored, s)
                               + (IF Open(t) = NoTx THEN 0 ELSE Count(Open(t), s))
         /\ ~Begins(t) /\ ~Commits(t) /\ ~Defers(t) =>
              /\ OpenedBy(t) = Open(t)
              /\ \A s \in Stmt : Count(StoredBy(t), s) = Count(stored, s)
                   + (IF Current(t) = s THEN 1 ELSE 0)
         /\ ~Begins(t) /\ ~Commits(t) /\ Defers(t) =>
              /\ StoredBy(t) = stored /\ OpenedBy(t) # NoTx
              /\ \A s \in Stmt : Count(OpenedBy(t), s) = Count(Open(t), s)
                   + (IF Current(t) = s THEN 1 ELSE 0)
<1>1. stored \in Seq(Stmt) /\ \A s \in Stmt : Count(stored, s) \in Nat
  BY CountType DEF IInv, Typed, TypeOK
<1>2. CASE Begins(t)
  <2>1. ~Commits(t)
    BY <1>2, Position
  <2>2. StoredBy(t) = stored /\ OpenedBy(t) = <<>>
    BY <1>2, <2>1 DEF StoredBy, OpenedBy
  <2>3. <<>> # NoTx
    <3>1. Len(<<>>) = 0 /\ Len(<<None>>) = 1
      OBVIOUS
    <3>2. QED BY <3>1 DEF NoTx
  <2>4. QED BY <1>1, <1>2, <2>1, <2>2, <2>3
<1>3. CASE Commits(t)
  <2>1. ~Begins(t)
    BY <1>3, Position
  <2>2. /\ StoredBy(t) = IF Open(t) = NoTx THEN stored ELSE stored \o Open(t)
        /\ OpenedBy(t) = NoTx
    BY <1>3, <2>1 DEF StoredBy, OpenedBy
  <2>3. CASE Open(t) = NoTx
    BY <1>1, <1>3, <2>1, <2>2, <2>3
  <2>4. CASE Open(t) # NoTx
    <3>1. Open(t) \in Seq(Stmt) /\ StoredBy(t) = stored \o Open(t)
      BY <2>2, <2>4, Position
    <3>2. \A s \in Stmt : Count(stored \o Open(t), s) = Count(stored, s) + Count(Open(t), s)
      BY <1>1, <3>1, CountConcat
    <3>3. QED BY <1>1, <1>3, <2>1, <2>2, <2>4, <3>1, <3>2
  <2>5. QED BY <2>3, <2>4
<1>4. CASE ~Begins(t) /\ ~Commits(t)
  <2>1. Current(t) \in Stmt
    BY <1>4, Position
  <2>2. CASE ~Defers(t)
    <3>1. StoredBy(t) = Append(stored, Current(t)) /\ OpenedBy(t) = Open(t)
      BY <1>4, <2>2 DEF StoredBy, OpenedBy
    <3>2. Append(stored, Current(t)) \in Seq(Stmt)
      BY <1>1, <2>1
    <3>3. \A s \in Stmt : Count(Append(stored, Current(t)), s)
                            = Count(stored, s) + (IF Current(t) = s THEN 1 ELSE 0)
      BY <1>1, <2>1, CountAppend
    <3>4. QED BY <1>4, <2>2, <3>1, <3>2, <3>3, Position
  <2>3. CASE Defers(t)
    <3>1. StoredBy(t) = stored /\ OpenedBy(t) = Append(Open(t), Current(t))
      BY <1>4, <2>3 DEF StoredBy, OpenedBy
    <3>2. Open(t) \in Seq(Stmt)
      BY <2>3, Position DEF Defers
    <3>3. Append(Open(t), Current(t)) \in Seq(Stmt)
      BY <2>1, <3>2
    <3>4. \A s \in Stmt : Count(Append(Open(t), Current(t)), s)
                            = Count(Open(t), s) + (IF Current(t) = s THEN 1 ELSE 0)
      BY <2>1, <3>2, CountAppend
    <3>5. Append(Open(t), Current(t)) # NoTx
      <4>1. NoTx \notin Seq(Stmt)
        <5>1. NoTx[1] = None /\ Len(NoTx) = 1
          BY DEF NoTx
        <5>2. QED BY <5>1, ElementOfSeq DEF TransactionAssumption
      <4>2. QED BY <3>3, <4>1
    <3>6. QED BY <1>1, <1>4, <2>3, <3>1, <3>3, <3>4, <3>5
  <2>4. QED BY <2>2, <2>3
<1>5. QED BY <1>2, <1>3, <1>4

-----------------------------------------------------------------------------
\* The counts at a busy thread, for a statement of its job and for one of another.
LEMMA Known ==
  ASSUME TransactionAssumption, IInv, NEW t \in Thread, Busy(t), NEW s \in Stmt
  PROVE  /\ s[1] \in Job /\ s[2] \in Nat \ {0} /\ Count(stored, s) \in Nat
         /\ Open(t) # NoTx => /\ Count(Open(t), s) \in Nat
                              /\ Count(Open(t), s) <= IF s[1] = at[t].job /\ s[2] < at[t].pos
                                                           /\ s \notin Untransacted
                                                      THEN 1 ELSE 0
         /\ Current(t) = s => s[1] = at[t].job /\ s[2] = at[t].pos
         /\ s[1] = at[t].job =>
              /\ s[2] <= Size[at[t].job]
              /\ Count(stored, s) <= 1 + Extra(unanswered, s)
              /\ s[2] > at[t].pos => Count(stored, s) = 0
              /\ s[2] = at[t].pos
                   => Count(stored, s) <= IF at[t].try = "first" THEN 0 ELSE Extra(unanswered, s)
              /\ Open(t) # NoTx /\ s \notin Untransacted => Count(stored, s) = 0
              /\ s[2] = at[t].pos => Current(t) = s
              /\ s[1] \notin troubled =>
                   /\ at[t].try = "first"
                   /\ s[1] \in Buffer /\ at[t].pos > 0 =>
                        /\ Open(t) # NoTx
                        /\ Count(Where(stored, Open(t), s), s) = IF s[2] < at[t].pos THEN 1 ELSE 0
<1>1. s[1] \in Job /\ s[2] \in 1 .. Size[s[1]] /\ s = <<s[1], s[2]>> /\ Size[s[1]] \in Nat
  BY Statements DEF TransactionAssumption
<1>2. Count(stored, s) \in Nat
  BY CountType DEF IInv, Typed, TypeOK
<1>3. Open(t) = tx[at[t].conn] /\ at[t].conn \in Conn
  BY Position
<1>4. Open(t) # NoTx => /\ Count(Open(t), s) \in Nat
                        /\ Count(Open(t), s) <= IF s[1] = at[t].job /\ s[2] < at[t].pos
                                                     /\ s \notin Untransacted
                                                THEN 1 ELSE 0
  <2>1. Open(t) # NoTx => Open(t) \in Seq(Stmt)
    BY Position
  <2>2. QED BY <1>3, <2>1, CountType DEF IInv, Opened
<1>5. Current(t) = s => s[1] = at[t].job /\ s[2] = at[t].pos
  BY DEF Current
<1>6. s[1] = at[t].job =>
        /\ Count(stored, s) <= 1 + Extra(unanswered, s)
        /\ s[2] > at[t].pos => Count(stored, s) = 0
        /\ s[2] = at[t].pos
             => Count(stored, s) <= IF at[t].try = "first" THEN 0 ELSE Extra(unanswered, s)
        /\ Open(t) # NoTx /\ s \notin Untransacted => Count(stored, s) = 0
  BY <1>3 DEF IInv, Effects
<1>7. s[1] = at[t].job /\ s[1] \notin troubled =>
        /\ at[t].try = "first"
        /\ s[1] \in Buffer /\ at[t].pos > 0 =>
             /\ Open(t) # NoTx
             /\ Count(Where(stored, Open(t), s), s) = IF s[2] < at[t].pos THEN 1 ELSE 0
  BY <1>3 DEF IInv, Whole
<1>8. s[1] = at[t].job /\ s[2] = at[t].pos => Current(t) = s
  BY <1>1 DEF Current
<1>9. QED BY <1>1, <1>2, <1>4, <1>5, <1>6, <1>7, <1>8

LEMMA SendStep ==
  ASSUME TransactionAssumption, IInv, NEW t \in Thread, Send(t)
  PROVE  IInv'
<1>1. /\ Busy(t) /\ link[at[t].conn] /\ Advance(t) /\ stored' = StoredBy(t)
      /\ tx' = [tx EXCEPT ![at[t].conn] = OpenedBy(t)]
      /\ UNCHANGED <<link, unanswered, troubled>>
  BY DEF Send, Sending
<1>2. Moves(t) /\ (Ends(t) \/ Goes(t))
  BY <1>1, AdvanceMoves DEF IInv
<1>3. /\ Begins(t) \/ (~Begins(t) /\ ~Commits(t) /\ at[t].job \in Buffer) => Goes(t) /\ ~Ends(t)
      /\ Commits(t) \/ at[t].job \notin Buffer => Ends(t)
      /\ Goes(t) => at'[t].pos = at[t].pos + 1 /\ at'[t].try = "first"
      /\ Ends(t) => at'[t].pos = 0 /\ at'[t].try = "first"
  BY <1>1, <1>2, Position DEF Ends, Goes, Idle
<1>4. at[t].job \notin Buffer => Open(t) = NoTx
  BY <1>1, Position DEF IInv, Clean
<1>5. Counts(t, OpenedBy(t))
  <2> SUFFICES ASSUME NEW s \in Stmt
      PROVE /\ s[1] # at[t].job => /\ Count(stored', s) = Count(stored, s)
                                   /\ OpenedBy(t) # NoTx => Count(OpenedBy(t), s) = 0
            /\ s[1] = at[t].job =>
                 /\ Count(stored', s) <= 1 + Extra(unanswered, s)
                 /\ s[2] > at[t].pos => Count(stored', s) = 0
                 /\ at'[t].pos # at[t].pos \/ s[2] # at[t].pos
                 /\ OpenedBy(t) # NoTx =>
                      /\ s \notin Untransacted => Count(stored', s) = 0
                      /\ Count(OpenedBy(t), s) <= IF s[2] < at'[t].pos /\ s \notin Untransacted
                                                  THEN 1 ELSE 0
                 /\ s[1] \notin troubled =>
                      /\ Ends(t) => Count(stored', s) = 1
                      /\ ~Ends(t) /\ s[1] \in Buffer =>
                           /\ OpenedBy(t) # NoTx
                           /\ Count(Where(stored', OpenedBy(t), s), s)
                                = IF s[2] < at'[t].pos THEN 1 ELSE 0
    BY <1>1, <1>2 DEF Counts
  <2>1. Extra(unanswered, s) \in {0, 1} /\ at[t].pos \in Nat /\ Size[at[t].job] \in Nat
    BY <1>1, Position DEF Extra
  <2>2. at'[t].pos # at[t].pos \/ s[2] # at[t].pos
    BY <1>1, <1>2, <1>3, <2>1, Known
  <2>3. CASE Begins(t)
    <3>1. at[t].pos = 0 /\ at'[t].pos = 1 /\ ~Ends(t)
      BY <1>3, <2>3 DEF Begins
    <3>2. /\ Count(stored', s) = Count(stored, s) /\ Count(OpenedBy(t), s) = 0
          /\ OpenedBy(t) # NoTx
      BY <1>1, <2>3, ServerCounts, CountEmpty
    <3>3. s[1] = at[t].job => Count(stored', s) = 0 /\ s[2] >= 1
      BY <1>1, <3>1, <3>2, Known
    <3>4. QED BY <1>1, <2>1, <2>2, <3>1, <3>2, <3>3, Known DEF Where
  <2>4. CASE Commits(t)
    <3>1. Ends(t) /\ at[t].pos > Size[at[t].job] /\ at[t].job \in Buffer
      BY <1>1, <1>3, <2>4, Position DEF Commits
    <3>2. /\ Count(stored', s) = Count(stored, s)
               + (IF Open(t) = NoTx THEN 0 ELSE Count(Open(t), s))
          /\ OpenedBy(t) = NoTx
      BY <1>1, <2>4, ServerCounts
    <3>3. QED BY <1>1, <2>1, <2>2, <3>1, <3>2, Known, SMTT(30) DEF Where
  <2>5. CASE ~Begins(t) /\ ~Commits(t) /\ Open(t) = NoTx
    <3>1. /\ Count(stored', s) = Count(stored, s) + (IF Current(t) = s THEN 1 ELSE 0)
          /\ OpenedBy(t) = NoTx
      BY <1>1, <2>5, ServerCounts DEF Defers
    <3>2. at[t].pos > 0
      BY <2>1, <2>5 DEF Begins
    <3>3. s[1] = at[t].job /\ s[1] \notin troubled =>
            Ends(t) /\ Current(t) = s /\ Count(stored, s) = 0
      <4>1. ASSUME s[1] = at[t].job, s[1] \notin troubled PROVE s[1] \notin Buffer
        BY <1>1, <2>5, <3>2, <4>1, Known
      <4>2. ASSUME s[1] = at[t].job, s[1] \notin Buffer PROVE s[2] = at[t].pos
        <5>1. at[t].pos = 1 /\ Size[at[t].job] = 1
          BY <1>1, <4>2, Position DEF TransactionAssumption
        <5>2. QED BY <1>1, <4>2, <5>1, Known
      <4>3. QED BY <1>1, <1>3, <2>1, <4>1, <4>2, Known
    <3>4. QED BY <1>1, <1>2, <1>3, <2>1, <2>2, <3>1, <3>3, Known
  <2>6. CASE ~Begins(t) /\ ~Commits(t) /\ Defers(t)
    <3>1. /\ Count(stored', s) = Count(stored, s) /\ OpenedBy(t) # NoTx
          /\ Count(OpenedBy(t), s) = Count(Open(t), s) + (IF Current(t) = s THEN 1 ELSE 0)
      BY <1>1, <2>6, ServerCounts
    <3>2. /\ at'[t].pos = at[t].pos + 1 /\ ~Ends(t) /\ at[t].pos > 0
          /\ Open(t) # NoTx /\ Current(t) \notin Untransacted
      BY <1>3, <1>4, <2>1, <2>6 DEF Begins, Defers
    <3>3. QED BY <1>1, <2>1, <2>2, <2>6, <3>1, <3>2, Known, SMTT(30) DEF Where
  <2>7. CASE ~Begins(t) /\ ~Commits(t) /\ ~Defers(t) /\ Open(t) # NoTx
    <3>1. /\ Count(stored', s) = Count(stored, s) + (IF Current(t) = s THEN 1 ELSE 0)
          /\ OpenedBy(t) = Open(t)
      BY <1>1, <2>7, ServerCounts
    <3>2. /\ at'[t].pos = at[t].pos + 1 /\ ~Ends(t) /\ at[t].pos > 0
          /\ Current(t) \in Untransacted
      BY <1>3, <1>4, <2>1, <2>7 DEF Begins, Defers
    <3>3. QED BY <1>1, <2>1, <2>2, <2>7, <3>1, <3>2, Known, SMTT(30) DEF Where
  <2>8. QED BY <2>3, <2>4, <2>5, <2>6, <2>7
<1>6. /\ StoredBy(t) \in Seq(Stmt) /\ OpenedBy(t) \in Seq(Stmt) \cup {NoTx}
      /\ Ends(t) \/ at[t].job \notin Buffer => OpenedBy(t) = NoTx
  <2>1. Ends(t) => Commits(t) \/ at[t].job \notin Buffer
    BY <1>3
  <2>2. at[t].job \notin Buffer => ~Begins(t) /\ ~Commits(t)
    BY <1>1, Position
  <2>3. at[t].job \notin Buffer => ~Defers(t)
    BY <1>4 DEF Defers
  <2>4. QED BY <1>1, <1>4, <2>1, <2>2, <2>3, ServerCounts
<1>7. at'[t].try # "reconnect"
  BY <1>2, <1>3
<1>8. /\ link \in [Conn -> BOOLEAN] /\ unanswered \subseteq Stmt /\ troubled \subseteq Job
  BY DEF IInv, Typed, TypeOK
<1>9. QED BY <1>1, <1>2, <1>5, <1>6, <1>7, <1>8, TurnKeeps

-----------------------------------------------------------------------------
LEMMA TryMoves ==
  ASSUME TransactionAssumption, Typed, NEW t \in Thread, Busy(t),
         NEW y \in {"reconnect", "second"}, at' = [at EXCEPT ![t].try = y], done' = done
  PROVE  Moves(t) /\ Tries(t, y)
<1>1. at \in [Thread -> [job : Job \cup {None}, conn : Conn \cup {None}, pos : Nat,
                         try : {"first", "reconnect", "second"}]]
  BY DEF Typed, TypeOK
<1>2. /\ DOMAIN at' = Thread /\ at' = [u \in Thread |-> at'[u]]
      /\ \A u \in Thread \ {t} : at'[u] = at[u]
  BY <1>1
<1>3. at'[t] = [at[t] EXCEPT !.try = y]
  BY <1>1
<1>4. at'[t] = [job |-> at[t].job, conn |-> at[t].conn, pos |-> at[t].pos, try |-> y]
  BY <1>1, <1>3
<1>5. QED BY <1>2, <1>4 DEF Moves, Tries

\* Where a thread is after a sending that brought no answer.
LEMMA NotSentMoves ==
  ASSUME TransactionAssumption, Typed, NEW t \in Thread, Busy(t), Sending(t), NotSent(t)
  PROVE  /\ Moves(t) /\ ~Tries(t, "second")
         /\ at[t].try = "first" <=> Tries(t, "reconnect")
         /\ at[t].try # "first" => at'[t].pos # at[t].pos \/ Ends(t)
<1>1. at[t].pos \in Nat /\ at[t].job # None
  BY DEF Typed, TypeOK, Busy
<1>2. CASE at[t].try = "first"
  <2>1. Moves(t) /\ Tries(t, "reconnect")
    BY <1>2, TryMoves DEF NotSent
  <2>2. QED BY <1>2, <2>1 DEF Tries
<1>3. CASE at[t].try # "first"
  <2>1. Moves(t) /\ (Ends(t) \/ Goes(t))
    BY <1>3, AdvanceMoves DEF NotSent
  <2>2. at'[t].try = "first"
    BY <2>1 DEF Ends, Goes, Idle
  <2>3. Goes(t) => at'[t].pos # at[t].pos
    BY <1>1 DEF Goes
  <2>4. QED BY <1>3, <2>1, <2>2, <2>3 DEF Tries
<1>4. QED BY <1>2, <1>3

\* The server has done what it was sent, and its transaction is gone with the connection.
LEMMA AnswerLostStep ==
  ASSUME TransactionAssumption, IInv, NEW t \in Thread, AnswerLost(t)
  PROVE  IInv'
<1>1. /\ Busy(t) /\ Sending(t) /\ NotSent(t) /\ stored' = StoredBy(t)
      /\ tx' = [tx EXCEPT ![at[t].conn] = NoTx]
      /\ link' = [link EXCEPT ![at[t].conn] = FALSE]
      /\ unanswered' = unanswered \cup ({Current(t)} \cap Stmt)
      /\ troubled' = troubled \cup {at[t].job}
  BY DEF AnswerLost, Sending
<1>2. /\ Moves(t)
      /\ at[t].try # "first" => at'[t].pos # at[t].pos \/ Ends(t)
      /\ at'[t].pos = at[t].pos /\ ~Ends(t) => at[t].try = "first"
  BY <1>1, NotSentMoves DEF IInv
<1>3. Ends(t) => at'[t].pos = 0
  BY DEF Ends, Idle
<1>4. Counts(t, NoTx)
  <2> SUFFICES ASSUME NEW s \in Stmt
      PROVE /\ s[1] # at[t].job => Count(stored', s) = Count(stored, s)
            /\ s[1] = at[t].job =>
                 /\ Count(stored', s) <= 1 + Extra(unanswered', s)
                 /\ s[2] > at[t].pos => Count(stored', s) = 0
                 /\ s[2] = at[t].pos /\ at'[t].pos = at[t].pos
                      => Count(stored', s) <= Extra(unanswered', s)
    BY <1>1 DEF Counts
  <2>1. /\ Extra(unanswered, s) \in {0, 1} /\ at[t].pos \in Nat /\ Size[at[t].job] \in Nat
        /\ Extra(unanswered', s) \in {0, 1} /\ Extra(unanswered, s) <= Extra(unanswered', s)
        /\ Current(t) = s => Extra(unanswered', s) = 1
    BY <1>1, Position DEF Extra
  <2>2. CASE Begins(t)
    <3>1. Count(stored', s) = Count(stored, s) /\ at[t].pos = 0
      BY <1>1, <2>2, ServerCounts DEF Begins
    <3>2. QED BY <1>1, <2>1, <3>1, Known
  <2>3. CASE Commits(t)
    <3>1. Count(stored', s) = Count(stored, s)
            + (IF Open(t) = NoTx THEN 0 ELSE Count(Open(t), s))
      BY <1>1, <2>3, ServerCounts
    <3>2. at[t].pos > Size[at[t].job]
      BY <2>3 DEF Commits
    <3>3. QED BY <1>1, <2>1, <3>1, <3>2, Known
  <2>4. CASE ~Begins(t) /\ ~Commits(t) /\ ~Defers(t)
    <3>1. Count(stored', s) = Count(stored, s) + (IF Current(t) = s THEN 1 ELSE 0)
      BY <1>1, <2>4, ServerCounts
    <3>2. s[2] = at[t].pos /\ at'[t].pos = at[t].pos => at[t].try = "first"
      BY <1>1, <1>2, <1>3, <2>1, Known
    <3>3. QED BY <1>1, <2>1, <3>1, <3>2, Known
  <2>5. CASE ~Begins(t) /\ ~Commits(t) /\ Defers(t)
    <3>1. Count(stored', s) = Count(stored, s)
      BY <1>1, <2>5, ServerCounts
    <3>2. QED BY <1>1, <2>1, <2>5, <3>1, Known
  <2>6. QED BY <2>2, <2>3, <2>4, <2>5
<1>5. /\ link' \in [Conn -> BOOLEAN] /\ \A k \in Conn \ {at[t].conn} : link'[k] = link[k]
      /\ unanswered' \subseteq Stmt /\ troubled' \subseteq Job /\ at[t].job \in Job
  BY <1>1, Position DEF IInv, Typed, TypeOK
<1>6. StoredBy(t) \in Seq(Stmt)
  BY <1>1, ServerCounts
<1>7. QED BY <1>1, <1>2, <1>4, <1>5, <1>6, TurnKeeps

\* A statement that had no effect: what is stored does not change, and the job has trouble.
LEMMA FailKeeps ==
  ASSUME TransactionAssumption, IInv, NEW t \in Thread, Busy(t), Moves(t),
         NEW x \in {NoTx, tx[at[t].conn]}, tx' = [tx EXCEPT ![at[t].conn] = x],
         link' \in [Conn -> BOOLEAN], \A k \in Conn \ {at[t].conn} : link'[k] = link[k],
         UNCHANGED <<stored, unanswered>>, troubled \subseteq troubled', troubled' \subseteq Job,
         at[t].job \in troubled',
         ~link'[at[t].conn] \/ Ends(t) \/ at'[t].try = "reconnect" \/ at[t].job \notin Buffer
           => x = NoTx
  PROVE  IInv'
<1>1. at[t].pos \in Nat /\ Open(t) = tx[at[t].conn] /\ x \in Seq(Stmt) \cup {NoTx}
  BY Position
<1>2. ~Ends(t) => at'[t].pos \in Nat /\ at[t].pos <= at'[t].pos
  BY <1>1 DEF Moves, Goes, Tries
<1>3. Counts(t, x)
  <2> SUFFICES ASSUME NEW s \in Stmt
      PROVE /\ s[1] # at[t].job /\ x # NoTx => Count(x, s) = 0
            /\ s[1] = at[t].job =>
                 /\ Count(stored, s) <= 1 + Extra(unanswered, s)
                 /\ s[2] > at[t].pos => Count(stored, s) = 0
                 /\ s[2] = at[t].pos => Count(stored, s) <= Extra(unanswered, s)
                 /\ x # NoTx =>
                      /\ s \notin Untransacted => Count(stored, s) = 0
                      /\ Count(x, s) <= IF s[2] < at'[t].pos /\ s \notin Untransacted
                                        THEN 1 ELSE 0
    BY DEF Counts
  <2>1. Extra(unanswered, s) \in {0, 1}
    BY DEF Extra
  <2>2. x # NoTx => x = Open(t) /\ ~Ends(t)
    BY <1>1
  <2>3. QED BY <1>1, <1>2, <2>1, <2>2, Known, SMTT(30)
<1>4. stored' \in Seq(Stmt) /\ unanswered' \subseteq Stmt
  BY DEF IInv, Typed, TypeOK
<1>5. QED BY <1>1, <1>3, <1>4, TurnKeeps

LEMMA RejectedStep ==
  ASSUME TransactionAssumption, IInv, NEW t \in Thread, Rejected(t)
  PROVE  IInv'
<1>1. /\ Busy(t) /\ ~Begins(t) /\ ~Commits(t) /\ Advance(t) /\ link[at[t].conn]
      /\ troubled' = troubled \cup {at[t].job} /\ UNCHANGED <<link, stored, unanswered>>
  BY DEF Rejected, Sending
<1>2. /\ at[t].job \in Job /\ at[t].conn \in Conn
      /\ at[t].job \in Buffer => at[t].pos < Last(at[t].job)
      /\ Open(t) = tx[at[t].conn]
  BY <1>1, Position
<1>3. PICK x \in {NoTx, tx[at[t].conn]} : tx' = [tx EXCEPT ![at[t].conn] = x]
  BY DEF Rejected, IInv, Typed, TypeOK
<1>4. Moves(t) /\ at'[t].try = "first" /\ (at[t].job \in Buffer => ~Ends(t))
  <2>1. Moves(t) /\ (Ends(t) \/ Goes(t))
    BY <1>1, AdvanceMoves DEF IInv
  <2>2. at[t].pos \in Nat /\ Last(at[t].job) \in Nat
    BY <1>1, Position DEF Last
  <2>3. QED BY <1>2, <2>1, <2>2 DEF Ends, Goes, Idle
<1>5. at[t].job \notin Buffer => x = NoTx
  BY <1>1, <1>3 DEF IInv, Clean
<1>6. troubled' \subseteq Job /\ link' \in [Conn -> BOOLEAN]
  BY <1>1, <1>2 DEF IInv, Typed, TypeOK
<1>7. QED BY <1>1, <1>3, <1>4, <1>5, <1>6, FailKeeps

LEMMA SendFailsStep ==
  ASSUME TransactionAssumption, IInv, NEW t \in Thread, SendFails(t)
  PROVE  IInv'
<1>1. /\ Busy(t) /\ Sending(t) /\ NotSent(t) /\ ~link[at[t].conn]
      /\ troubled' = troubled \cup {at[t].job} /\ UNCHANGED <<link, tx, stored, unanswered>>
  BY DEF SendFails, Sending
<1>2. at[t].job \in Job /\ at[t].conn \in Conn /\ Moves(t)
  BY <1>1, Position, NotSentMoves DEF IInv
<1>3. tx[at[t].conn] = NoTx
  BY <1>1, <1>2 DEF IInv, Clean
<1>4. tx' = [tx EXCEPT ![at[t].conn] = NoTx]
  BY <1>1, <1>2, <1>3 DEF IInv, Typed, TypeOK
<1>5. troubled' \subseteq Job /\ link' \in [Conn -> BOOLEAN]
  BY <1>1, <1>2 DEF IInv, Typed, TypeOK
<1>6. QED BY <1>1, <1>2, <1>4, <1>5, FailKeeps

LEMMA ReconnectStep ==
  ASSUME TransactionAssumption, IInv, NEW t \in Thread, Reconnect(t)
  PROVE  IInv'
<1>1. /\ Busy(t) /\ at[t].try = "reconnect"
      /\ UNCHANGED <<tx, stored, unanswered, troubled>>
      /\ \/ /\ at' = [at EXCEPT ![t].try = "second"] /\ UNCHANGED done
            /\ link' = [link EXCEPT ![at[t].conn] = TRUE]
         \/ Advance(t) /\ UNCHANGED link
  BY DEF Reconnect
<1>2. at[t].job \in Job /\ at[t].conn \in Conn
  BY <1>1, Position
<1>3. Moves(t)
  BY <1>1, TryMoves, AdvanceMoves DEF IInv
<1>4. tx[at[t].conn] = NoTx
  BY <1>1 DEF IInv, Clean
<1>5. tx' = [tx EXCEPT ![at[t].conn] = NoTx]
  BY <1>1, <1>2, <1>4 DEF IInv, Typed, TypeOK
<1>6. at[t].job \in troubled
  <2>1. <<at[t].job, 1>> \in Stmt
    BY <1>2 DEF Stmt, TransactionAssumption
  <2>2. <<at[t].job, 1>>[1] = at[t].job
    OBVIOUS
  <2>3. QED BY <1>1, <2>1, <2>2 DEF IInv, Whole
<1>7. /\ link' \in [Conn -> BOOLEAN] /\ \A k \in Conn \ {at[t].conn} : link'[k] = link[k]
      /\ troubled' \subseteq Job
  BY <1>1, <1>2 DEF IInv, Typed, TypeOK
<1>8. QED BY <1>1, <1>3, <1>5, <1>6, <1>7, FailKeeps

-----------------------------------------------------------------------------
\* A thread starts a job on a connection that no other has, and which is clean.
LEMMA StartStep ==
  ASSUME TransactionAssumption, IInv, NEW t \in Thread, Start(t)
  PROVE  IInv'
<1>1. PICK j \in Job, k \in Conn :
        /\ ~Busy(t) /\ j \notin done
        /\ \A u \in Thread : at[u].job # j /\ at[u].conn # k
        /\ at' = [at EXCEPT ![t] = [job |-> j, conn |-> k,
                                    pos |-> IF j \in Buffer THEN 0 ELSE 1, try |-> "first"]]
        /\ UNCHANGED <<link, tx, done, stored, unanswered, troubled>>
  BY DEF Start
<1> DEFINE p == IF j \in Buffer THEN 0 ELSE 1
<1>2. /\ at' \in [Thread -> [job : Job \cup {None}, conn : Conn \cup {None}, pos : Nat,
                             try : {"first", "reconnect", "second"}]]
      /\ at'[t].job = j /\ at'[t].conn = k /\ at'[t].pos = p /\ at'[t].try = "first"
      /\ \A u \in Thread \ {t} : at'[u] = at[u]
      /\ Size[j] \in Nat
  BY <1>1 DEF IInv, Typed, TypeOK, TransactionAssumption
<1>3. tx[k] = NoTx /\ j # None /\ k # None
  BY <1>1 DEF IInv, Clean, FreeIsClean, TransactionAssumption
<1>4. Typed'
  <2>1. \A u \in Thread : at'[u].job \in Job =>
          at'[u].conn \in Conn /\ at'[u].pos \in (IF at'[u].job \in Buffer
                                                  THEN 0 .. Size[at'[u].job] + 1 ELSE {1})
    <3>1. p \in (IF j \in Buffer THEN 0 .. Size[j] + 1 ELSE {1})
      BY <1>2
    <3>2. \A u \in Thread : at[u].job \in Job =>
            at[u].conn \in Conn /\ at[u].pos \in (IF at[u].job \in Buffer
                                                  THEN 0 .. Size[at[u].job] + 1 ELSE {1})
      BY DEF IInv, Typed, TypeOK
    <3> HIDE DEF p
    <3>3. QED BY <1>2, <3>1, <3>2
  <2>2. \A u \in Thread : at'[u].job = None <=> at'[u].conn = None
    BY <1>2, <1>3 DEF IInv, Typed
  <2>3. QED BY <1>1, <1>2, <2>1, <2>2 DEF IInv, Typed, TypeOK
<1>5. Own'
  BY <1>1, <1>2, <1>3 DEF IInv, Own, Busy
<1>6. Clean'
  <2>1. \A l \in Conn : (\A u \in Thread : at'[u].conn # l) => \A u \in Thread : at[u].conn # l
    BY <1>1, <1>2, <1>3 DEF IInv, Typed, Busy
  <2>2. \A u \in Thread : Busy(u)' /\ (at'[u].try = "reconnect" \/ at'[u].job \notin Buffer)
                            => tx[at'[u].conn] = NoTx
    BY <1>2, <1>3 DEF IInv, Clean, Busy
  <2>3. QED BY <1>1, <2>1, <2>2 DEF IInv, Clean, FreeIsClean
<1>7. Effects'
  <2> SUFFICES ASSUME NEW s \in Stmt
      PROVE /\ Count(stored, s) <= 1 + Extra(unanswered, s)
            /\ s[1] \notin done /\ (\A u \in Thread : at'[u].job # s[1]) => Count(stored, s) = 0
            /\ \A u \in Thread : at'[u].job = s[1] =>
                 /\ s[2] > at'[u].pos => Count(stored, s) = 0
                 /\ s[2] = at'[u].pos
                      => Count(stored, s) <= IF at'[u].try = "first" THEN 0
                                                                     ELSE Extra(unanswered, s)
                 /\ tx[at'[u].conn] # NoTx /\ s \notin Untransacted => Count(stored, s) = 0
    BY <1>1 DEF Effects
  <2>1. CASE s[1] = j
    <3>1. Count(stored, s) = 0
      BY <1>1, <2>1 DEF IInv, Effects
    <3>2. Extra(unanswered, s) \in {0, 1}
      BY DEF Extra
    <3>3. \A u \in Thread : at'[u].job = s[1] => at'[u].try = "first"
      BY <1>1, <1>2, <2>1
    <3>4. QED BY <3>1, <3>2, <3>3
  <2>2. CASE s[1] # j
    <3>1. s[1] # None
      BY Statements DEF TransactionAssumption
    <3>2. \A u \in Thread : at'[u].job = s[1] => at'[u] = at[u]
      BY <1>2, <2>2
    <3>3. (\A u \in Thread : at'[u].job # s[1]) => \A u \in Thread : at[u].job # s[1]
      BY <1>1, <1>2, <3>1 DEF Busy
    <3>4. QED BY <3>2, <3>3 DEF IInv, Effects
  <2>3. QED BY <2>1, <2>2
<1>8. Opened'
  <2>1. \A u \in Thread : Busy(u)' /\ tx[at'[u].conn] # NoTx => at'[u] = at[u]
    BY <1>2, <1>3
  <2>2. QED BY <1>1, <2>1 DEF IInv, Opened, Busy
<1>9. Whole'
  <2> SUFFICES ASSUME NEW s \in Stmt, s[1] \notin troubled
      PROVE  /\ s[1] \in done => Count(stored, s) = 1
             /\ \A u \in Thread : at'[u].job = s[1] =>
                  /\ at'[u].try = "first"
                  /\ s[1] \in Buffer /\ at'[u].pos > 0 =>
                       /\ tx[at'[u].conn] # NoTx
                       /\ Count(Where(stored, tx[at'[u].conn], s), s) = IF s[2] < at'[u].pos THEN 1 ELSE 0
    BY <1>1 DEF Whole
  <2>1. CASE s[1] = j
    <3>1. s[1] \in Buffer => p = 0
      BY <2>1
    <3>2. \A u \in Thread : at'[u].job = s[1] =>
            at'[u].try = "first" /\ (s[1] \in Buffer => at'[u].pos = 0)
      BY <1>1, <1>2, <2>1, <3>1
    <3>3. QED BY <1>1, <2>1, <3>2
  <2>2. CASE s[1] # j
    <3>1. \A u \in Thread : at'[u].job = s[1] => at'[u] = at[u]
      BY <1>2, <2>2
    <3>2. QED BY <3>1 DEF IInv, Whole
  <2>3. QED BY <2>1, <2>2
<1>10. QED BY <1>4, <1>5, <1>6, <1>7, <1>8, <1>9 DEF IInv

\* A connection breaks under whatever is performed on it, or works again by itself.
LEMMA LostStep ==
  ASSUME TransactionAssumption, IInv, NEW k \in Conn, Lost(k)
  PROVE  IInv'
<1>1. /\ link' = [link EXCEPT ![k] = FALSE] /\ tx' = [tx EXCEPT ![k] = NoTx]
      /\ troubled' = troubled \cup {j \in Job : \E t \in Thread : at[t].job = j
                                                                /\ at[t].conn = k}
      /\ UNCHANGED <<at, done, stored, unanswered>>
  BY DEF Lost
<1>2. /\ link' \in [Conn -> BOOLEAN] /\ tx' \in [Conn -> Seq(Stmt) \cup {NoTx}]
      /\ tx'[k] = NoTx /\ \A l \in Conn \ {k} : link'[l] = link[l] /\ tx'[l] = tx[l]
  BY <1>1 DEF IInv, Typed, TypeOK
<1>3. \A t \in Thread : Busy(t) => at[t].conn \in Conn /\ at[t].job \in Job
  BY DEF IInv, Typed, TypeOK, Busy
<1>4. Typed' /\ Own'
  BY <1>1, <1>2 DEF IInv, Typed, TypeOK, Own, Busy
<1>5. Clean'
  <2>1. \A l \in Conn : (~link'[l] => tx'[l] = NoTx)
                        /\ ((\A t \in Thread : at[t].conn # l) => tx'[l] = NoTx)
    BY <1>2 DEF IInv, Clean, FreeIsClean
  <2>2. \A t \in Thread : Busy(t) /\ (at[t].try = "reconnect" \/ at[t].job \notin Buffer)
                            => tx'[at[t].conn] = NoTx
    BY <1>2, <1>3 DEF IInv, Clean
  <2>3. QED BY <1>1, <2>1, <2>2 DEF Clean, FreeIsClean, Busy
<1>6. \A t \in Thread : Busy(t) /\ tx'[at[t].conn] # NoTx
                          => tx'[at[t].conn] = tx[at[t].conn]
  BY <1>2, <1>3
<1>7. Effects'
  <2>1. \A s \in Stmt : \A t \in Thread : at[t].job = s[1] => Busy(t)
    BY Statements DEF Busy, TransactionAssumption
  <2>2. QED BY <1>1, <1>6, <2>1 DEF IInv, Effects
<1>8. Opened'
  BY <1>1, <1>6 DEF IInv, Opened, Busy
<1>9. Whole'
  <2>1. ASSUME NEW s \in Stmt, s[1] \notin troubled', NEW t \in Thread, at[t].job = s[1]
        PROVE  tx'[at[t].conn] = tx[at[t].conn]
    <3>1. Busy(t) /\ at[t].conn # k
      BY <1>1, <2>1, Statements DEF Busy, TransactionAssumption
    <3>2. QED BY <1>2, <1>3, <3>1
  <2>2. QED BY <1>1, <2>1 DEF IInv, Whole
<1>10. QED BY <1>4, <1>5, <1>7, <1>8, <1>9 DEF IInv

LEMMA RevivedStep ==
  ASSUME TransactionAssumption, IInv, NEW k \in Conn, Revived(k)
  PROVE  IInv'
<1>1. /\ link' = [link EXCEPT ![k] = TRUE]
      /\ UNCHANGED <<tx, at, done, stored, unanswered, troubled>>
  BY DEF Revived
<1>2. link' \in [Conn -> BOOLEAN] /\ \A l \in Conn : ~link'[l] => ~link[l]
  BY <1>1 DEF IInv, Typed, TypeOK
<1>3. Typed' /\ Own' /\ Clean'
  BY <1>1, <1>2 DEF IInv, Typed, TypeOK, Own, Clean, Busy, FreeIsClean
<1>4. Effects' /\ Opened' /\ Whole'
  BY <1>1 DEF IInv, Effects, Opened, Whole, Busy
<1>5. QED BY <1>3, <1>4 DEF IInv

LEMMA TransactionNext == TransactionAssumption /\ IInv /\ [Next]_vars => IInv'
<1> SUFFICES ASSUME TransactionAssumption, IInv, [Next]_vars PROVE IInv'
  OBVIOUS
<1>1. ASSUME NEW t \in Thread, Start(t) PROVE IInv'
  BY <1>1, StartStep
<1>2. ASSUME NEW t \in Thread, Step(t) PROVE IInv'
  BY <1>2, SendStep, RejectedStep, SendFailsStep, AnswerLostStep, ReconnectStep DEF Step
<1>3. ASSUME NEW k \in Conn, Lost(k) \/ Revived(k) PROVE IInv'
  BY <1>3, LostStep, RevivedStep
<1>4. CASE UNCHANGED vars
  BY <1>4 DEF vars, IInv, Typed, TypeOK, Own, Clean, FreeIsClean, Effects, Opened, Whole, Busy
<1>5. QED BY <1>1, <1>2, <1>3, <1>4 DEF Next

\* The strengthening is an invariant of the connections.
THEOREM TransactionInvariant == Spec => []IInv
<1>1. Init => IInv
  BY TransactionInit, TransactionAssumption
<1>2. IInv /\ [Next]_vars => IInv'
  BY TransactionNext, TransactionAssumption
<1>3. QED BY <1>1, <1>2, PTL DEF Spec

\* The variables keep their types; a buffer never goes past its COMMIT.
THEOREM TransactionTypes == Spec => []TypeOK
<1>1. IInv => TypeOK
  BY DEF IInv, Typed
<1>2. QED BY <1>1, TransactionInvariant, PTL

\* A connection that goes back to the others has no transaction open on it, whatever
\* failed in the job that had it.
THEOREM TransactionFreeIsClean == Spec => []FreeIsClean
<1>1. IInv => FreeIsClean
  BY DEF IInv, Clean
<1>2. QED BY <1>1, TransactionInvariant, PTL

\* An undisturbed buffer has all its effects, once each, when it was performed, whatever its
\* length, and none before but on tables without transactions.
THEOREM TransactionWhole == Spec => []WholeUnlessTroubled
<1>1. TransactionAssumption /\ IInv => WholeUnlessTroubled
  <2> SUFFICES ASSUME TransactionAssumption, IInv, NEW s \in Stmt, s[1] \notin troubled
      PROVE  /\ s[1] \in done => Times(s) = 1
             /\ s[1] \notin done /\ s \notin Untransacted => Times(s) = 0
    BY DEF WholeUnlessTroubled, StmtsOf
  <2>1. Times(s) = Count(stored, s)
    BY DEF Times, Count
  <2>2. CASE s[1] \in done
    BY <2>1, <2>2 DEF IInv, Whole
  <2>3. CASE s[1] \notin done /\ \A t \in Thread : at[t].job # s[1]
    BY <2>1, <2>3 DEF IInv, Effects
  <2>4. ASSUME NEW t \in Thread, at[t].job = s[1], s[1] \notin done, s \notin Untransacted
        PROVE Count(stored, s) = 0
    <3>1. Busy(t)
      BY <2>4, Statements DEF Busy, TransactionAssumption
    <3>2. at[t].try = "first" /\ at[t].pos \in Nat
      BY <2>4, <3>1, Position DEF IInv, Whole
    <3>3. CASE at[t].job \in Buffer /\ at[t].pos > 0
      BY <2>4, <3>1, <3>3, Known
    <3>4. CASE at[t].job \in Buffer /\ at[t].pos = 0
      BY <2>4, <3>1, <3>4, Known
    <3>5. CASE at[t].job \notin Buffer
      <4>1. at[t].pos = 1 /\ Size[at[t].job] = 1
        BY <3>1, <3>5, Position DEF TransactionAssumption
      <4>2. QED BY <2>4, <3>1, <3>2, <4>1, Known
    <3>6. QED BY <3>2, <3>3, <3>4, <3>5
  <2>5. QED BY <2>1, <2>2, <2>3, <2>4
<1>2. QED BY <1>1, TransactionInvariant, TransactionAssumption, PTL

\* A statement has its effect a second time only after an answer was lost, never a third.
THEOREM TransactionTwice == Spec => []TwiceOnlyIfUnanswered
<1>1. IInv => TwiceOnlyIfUnanswered
  <2> SUFFICES ASSUME IInv, NEW s \in Stmt
      PROVE Times(s) <= IF s \in unanswered THEN 2 ELSE 1
    BY DEF TwiceOnlyIfUnanswered
  <2>1. Times(s) = Count(stored, s)
    BY DEF Times, Count
  <2>2. Count(stored, s) <= 1 + (IF s \in unanswered THEN 1 ELSE 0)
    BY DEF IInv, Effects, Extra
  <2>3. QED BY <2>1, <2>2
<1>2. QED BY <1>1, TransactionInvariant, PTL
=============================================================================
