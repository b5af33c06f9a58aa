----------------------- MODULE DatabaseThreads_proofs -----------------------
(***************************************************************************)
(* Proofs about DatabaseThreads: any statements, buffers and callers, any   *)
(* number of connections.                                                   *)
(***************************************************************************)
EXTENDS DatabaseThreads, FiniteSetTheorems, SequenceTheorems, TLAPS

\* Only a thread that pushes has a job in its hand for certain.
Typed ==
  /\ queries_queue \in Seq(Query) /\ query_buffer \in Seq(Batch)
  /\ ThreadRunning \in BOOLEAN /\ terminate \in BOOLEAN
  /\ call \in [Caller -> [at : CallAt, job : Job \cup {None}]]
  /\ exec \in [at : LoopAt, job : Query \cup {None}, last : BOOLEAN]
  /\ buff \in [at : LoopAt, job : Batch \cup {None}, last : BOOLEAN]
  /\ main \in [at : MainAt, job : Job \cup {None}]
  /\ performed \subseteq Job /\ owed \subseteq Job
  /\ \A c \in Caller : call[c].at = "push" => call[c].job \in Job
  /\ main.at = "pushB" => main.job \in Batch
  /\ main.at = "pushQ" => main.job \in Query

\* The connections in use, and where a thread that has one is.
Held ==
  /\ holding \subseteq Thread /\ IsFiniteSet(holding)
  /\ Cardinality(holding) <= ConnectionCount
  /\ \A c \in Caller : c \in holding => call[c].at = "send"
  /\ exec.at \in {"drain", "stop", "done"} => Exec \notin holding
  /\ buff.at \in {"drain", "stop", "done"} => Buff \notin holding

\* How far EndThreads is, what the threads may have seen of it and what it has seen of them.
Ended ==
  /\ terminate <=> main.at \in {"wait", "ended", "pooled", "deleted"}
  /\ exec.last \/ exec.at \in {"drain", "stop", "done"} => terminate
  /\ buff.last \/ buff.at \in {"drain", "stop", "done"} => terminate
  /\ ~ThreadRunning => exec.at = "done"
  /\ main.at \in {"ended", "pooled", "deleted"} => ~ThreadRunning
  /\ main.at \in {"pooled", "deleted"} =>
       buff.at = "done" /\ \A c \in Caller \ {Main} : call[c].at = "idle"
  /\ main.at = "deleted" => call[Main].at = "idle"

\* A job that waited when the state was set is performed, in its queue or in the hand of
\* its thread; and a thread leaves the loop that empties the queue only without it.
Owed ==
  /\ exec.at \notin {"get", "send"} => exec.job = None
  /\ buff.at \notin {"get", "send"} => buff.job = None
  /\ buff.at = "get" /\ ~buff.last => buff.job = None
  /\ buff.at = "drain" => buff.last
  /\ ~terminate => owed = {}
  /\ owed \cap Query \subseteq performed \cup Range(queries_queue) \cup {exec.job}
  /\ owed \cap Batch \subseteq performed \cup Range(query_buffer) \cup {buff.job}
  /\ exec.at \in {"stop", "done"} => owed \cap Query \subseteq performed
  /\ buff.at \in {"stop", "done"} => owed \cap Batch \subseteq performed

IInv == Typed /\ Held /\ Ended /\ Owed

-----------------------------------------------------------------------------
\* What a queue holds after a push and after a pop.
LEMMA RangeOfQueue ==
  ASSUME NEW S, NEW s \in Seq(S)
  PROVE  Range(s) \subseteq S
BY DEF Range

LEMMA RangeOfPushed ==
  ASSUME NEW S, NEW s \in Seq(S), NEW x \in S
  PROVE  Append(s, x) \in Seq(S) /\ Range(Append(s, x)) = Range(s) \cup {x}
<1>1. /\ Append(s, x) \in Seq(S) /\ DOMAIN Append(s, x) = 1 .. Len(s) + 1
      /\ DOMAIN s = 1 .. Len(s) /\ Len(s) \in Nat
      /\ \A n \in 1 .. Len(s) : Append(s, x)[n] = s[n]
      /\ Append(s, x)[Len(s) + 1] = x
  OBVIOUS
<1>2. Range(Append(s, x)) \subseteq Range(s) \cup {x}
  BY <1>1 DEF Range
<1>3. Range(s) \cup {x} \subseteq Range(Append(s, x))
  BY <1>1 DEF Range
<1>4. QED BY <1>1, <1>2, <1>3

LEMMA RangeOfRest ==
  ASSUME NEW S, NEW s \in Seq(S), s # <<>>
  PROVE  /\ Head(s) \in S /\ Tail(s) \in Seq(S)
         /\ Range(s) = {Head(s)} \cup Range(Tail(s))
<1>1. /\ Head(s) \in S /\ Tail(s) \in Seq(S) /\ Len(s) \in Nat \ {0} /\ Head(s) = s[1]
      /\ DOMAIN s = 1 .. Len(s) /\ DOMAIN Tail(s) = 1 .. Len(s) - 1
      /\ \A n \in 1 .. Len(s) - 1 : Tail(s)[n] = s[n + 1]
  OBVIOUS
<1>2. Range(s) \subseteq {Head(s)} \cup Range(Tail(s))
  <2>1. ASSUME NEW n \in 1 .. Len(s) PROVE s[n] \in {Head(s)} \cup Range(Tail(s))
    <3>1. CASE n = 1
      BY <1>1, <3>1
    <3>2. CASE n # 1
      <4>1. n - 1 \in 1 .. Len(s) - 1 /\ s[n] = Tail(s)[n - 1]
        BY <1>1, <3>2
      <4>2. QED BY <1>1, <4>1 DEF Range
    <3>3. QED BY <3>1, <3>2
  <2>2. QED BY <1>1, <2>1 DEF Range
<1>3. {Head(s)} \cup Range(Tail(s)) \subseteq Range(s)
  BY <1>1 DEF Range
<1>4. QED BY <1>1, <1>2, <1>3

\* GetFreeConnection and the release keep the number of connections in use.
LEMMA AcquireBounds ==
  ASSUME DatabaseAssumption, NEW t, IsFiniteSet(holding), Acquire(t)
  PROVE  IsFiniteSet(holding') /\ Cardinality(holding') <= ConnectionCount
<1>1. Cardinality(holding) \in Nat /\ Cardinality(holding) + 1 <= ConnectionCount
  BY FS_CardinalityType DEF DatabaseAssumption, Acquire
<1>2. /\ IsFiniteSet(holding \cup {t})
      /\ Cardinality(holding \cup {t}) = IF t \in holding THEN Cardinality(holding)
                                        ELSE Cardinality(holding) + 1
  BY FS_AddElement
<1>3. QED BY <1>1, <1>2 DEF DatabaseAssumption, Acquire

LEMMA ReleaseBounds ==
  ASSUME DatabaseAssumption, NEW t, IsFiniteSet(holding),
         Cardinality(holding) <= ConnectionCount, Release(t)
  PROVE  IsFiniteSet(holding') /\ Cardinality(holding') <= ConnectionCount
<1>1. Cardinality(holding) \in Nat
  BY FS_CardinalityType
<1>2. /\ IsFiniteSet(holding \ {t})
      /\ Cardinality(holding \ {t}) = IF t \in holding THEN Cardinality(holding) - 1
                                     ELSE Cardinality(holding)
  BY FS_RemoveElement
<1>3. QED BY <1>1, <1>2 DEF DatabaseAssumption, Release

LEMMA DatabaseInit == DatabaseAssumption /\ Init => IInv
<1> SUFFICES ASSUME DatabaseAssumption, Init PROVE IInv
  OBVIOUS
<1>1. IsFiniteSet({}) /\ Cardinality({}) = 0
  BY FS_EmptySet
<1>2. Typed
  <2>1. queries_queue \in Seq(Query) /\ query_buffer \in Seq(Batch)
    BY DEF Init
  <2>2. /\ call \in [Caller -> [at : CallAt, job : Job \cup {None}]]
        /\ \A c \in Caller : call[c].at # "push"
    BY DEF Init, CallAt
  <2>3. exec \in [at : LoopAt, job : Query \cup {None}, last : BOOLEAN]
    BY DEF Init, LoopAt
  <2>4. buff \in [at : LoopAt, job : Batch \cup {None}, last : BOOLEAN]
    BY DEF Init, LoopAt
  <2>5. main \in [at : MainAt, job : Job \cup {None}] /\ main.at = "run"
    BY DEF Init, MainAt
  <2>6. QED BY <2>1, <2>2, <2>3, <2>4, <2>5 DEF Init, Typed
<1>3. Held
  BY <1>1 DEF DatabaseAssumption, Init, Held
<1>4. Ended /\ Owed
  BY DEF Init, Ended, Owed
<1>5. QED BY <1>2, <1>3, <1>4 DEF IInv

-----------------------------------------------------------------------------
\* Execute, AddQueryBuffer and Query: what the caller finds decides where it goes.
LEMMA EnterStep ==
  ASSUME DatabaseAssumption, IInv, NEW c \in Caller,
         NEW a \in {"push", "get"}, NEW j \in Job \cup {None}, MayCall(c), Enter(c, a, j),
         a = "push" => j \in Job
  PROVE  IInv'
<1> USE DEF IInv
<1>1. /\ UNCHANGED <<queries_queue, query_buffer, holding, ThreadRunning, terminate, exec,
                     buff, main, performed, owed>>
      /\ call' \in [Caller -> [at : CallAt, job : Job \cup {None}]]
      /\ call[c].at = "idle" /\ call'[c] = [at |-> a, job |-> j]
      /\ \A d \in Caller \ {c} : call'[d] = call[d]
  BY DEF Enter, MayCall, Typed, CallAt
<1>2. Typed'
  BY <1>1 DEF Typed
<1>3. Held'
  BY <1>1 DEF Held
<1>4. main.at \in {"pooled", "deleted"} => c = Main /\ main.at # "deleted"
  BY DEF MayCall
<1>5. Ended'
  BY <1>1, <1>4 DEF Ended
<1>6. Owed'
  BY <1>1 DEF Owed
<1>7. QED BY <1>2, <1>3, <1>5, <1>6

\* The push of a call, after which the job waits, and the call that does it itself.
LEMMA CallStepKeeps ==
  ASSUME DatabaseAssumption, IInv, NEW c \in Caller, CallStep(c)
  PROVE  IInv'
<1> USE DEF IInv
<1> DEFINE Rest == \A d \in Caller \ {c} : call'[d] = call[d]
<1>1. CASE Push(c)
  <2>1. /\ UNCHANGED <<holding, ThreadRunning, terminate, exec, buff, main, performed, owed>>
        /\ call' \in [Caller -> [at : CallAt, job : Job \cup {None}]]
        /\ call[c].at = "push" /\ call'[c].at = "idle" /\ Rest
    BY <1>1 DEF Push, Typed, CallAt
  <2>2. /\ queries_queue' \in Seq(Query) /\ Range(queries_queue) \subseteq Range(queries_queue')
        /\ query_buffer' \in Seq(Batch) /\ Range(query_buffer) \subseteq Range(query_buffer')
    <3>1. call[c].job \in Query \cup Batch
      BY <2>1 DEF Typed, Job
    <3>2. queries_queue \in Seq(Query) /\ query_buffer \in Seq(Batch)
      BY DEF Typed
    <3>3. CASE call[c].job \in Query
      <4>1. queries_queue' = Append(queries_queue, call[c].job) /\ UNCHANGED query_buffer
        BY <1>1, <3>3 DEF Push
      <4>2. QED BY <3>2, <3>3, <4>1, RangeOfPushed
    <3>4. CASE call[c].job \notin Query
      <4>1. query_buffer' = Append(query_buffer, call[c].job) /\ UNCHANGED queries_queue
        BY <1>1, <3>4 DEF Push
      <4>2. QED BY <3>1, <3>2, <3>4, <4>1, RangeOfPushed
    <3>5. QED BY <3>3, <3>4
  <2>3. Typed'
    BY <2>1, <2>2 DEF Typed
  <2>4. Held' /\ Ended'
    BY <2>1 DEF Held, Ended
  <2>5. Owed'
    BY <2>1, <2>2 DEF Owed
  <2>6. QED BY <2>3, <2>4, <2>5
<1>2. CASE CallGets(c)
  <2>1. /\ UNCHANGED <<queries_queue, query_buffer, ThreadRunning, terminate, exec, buff, main,
                       performed, owed>>
        /\ call' \in [Caller -> [at : CallAt, job : Job \cup {None}]]
        /\ call[c].at = "get" /\ call'[c].at = "send" /\ Rest
    BY <1>2 DEF CallGets, Typed, CallAt
  <2>2. Typed'
    BY <2>1 DEF Typed
  <2>3. holding' = holding \cup {c} /\ c \notin {Exec, Buff}
    BY <1>2 DEF CallGets, Acquire, DatabaseAssumption
  <2>4. IsFiniteSet(holding') /\ Cardinality(holding') <= ConnectionCount
    BY <1>2, AcquireBounds DEF CallGets, Held
  <2>5. Held'
    BY <2>1, <2>3, <2>4 DEF Held, Thread
  <2>6. Ended' /\ Owed'
    BY <2>1 DEF Ended, Owed
  <2>7. QED BY <2>2, <2>5, <2>6
<1>3. CASE CallSends(c)
  <2>1. /\ UNCHANGED <<queries_queue, query_buffer, ThreadRunning, terminate, exec, buff, main,
                       owed>>
        /\ call' \in [Caller -> [at : CallAt, job : Job \cup {None}]]
        /\ call[c].at = "send" /\ call'[c].at = "idle" /\ Rest
        /\ performed \subseteq performed' /\ performed' \subseteq Job
    BY <1>3 DEF CallSends, Typed, CallAt, Do
  <2>2. Typed'
    BY <2>1 DEF Typed
  <2>3. holding' = holding \ {c}
    BY <1>3 DEF CallSends, Release
  <2>4. IsFiniteSet(holding') /\ Cardinality(holding') <= ConnectionCount
    BY <1>3, ReleaseBounds DEF CallSends, Held
  <2>5. Held'
    BY <2>1, <2>3, <2>4 DEF Held
  <2>6. Ended' /\ Owed'
    BY <2>1 DEF Ended, Owed
  <2>7. QED BY <2>2, <2>5, <2>6
<1>4. QED BY <1>1, <1>2, <1>3 DEF CallStep

-----------------------------------------------------------------------------
\* Database::run.  A statement leaves the queue into the hand of the thread, and the hand
\* when it is performed; it is last seen in an empty queue before the loop is left.
LEMMA ExecStepKeeps ==
  ASSUME DatabaseAssumption, IInv, ExecStep
  PROVE  IInv'
<1> USE DEF IInv
<1> DEFINE Moves(a, j, l) == /\ exec' \in [at : LoopAt, job : Query \cup {None}, last : BOOLEAN]
                             /\ exec'.at = a /\ exec'.job = j /\ exec'.last = l
<1>1. UNCHANGED <<query_buffer, terminate, call, buff, main, owed>>
  BY DEF ExecStep, ExecFirst, ExecGet, ExecSend, ExecTest, ExecPop, ExecIdle, ExecDrain,
         ExecStop, ExecUnchanged
<1>2. CASE ExecFirst \/ ExecPop \/ ExecDrain
  <2>1. UNCHANGED <<holding, ThreadRunning, performed>>
    BY <1>2 DEF ExecFirst, ExecPop, ExecDrain
  <2>2. exec.job = None /\ queries_queue \in Seq(Query)
    BY <1>2 DEF Typed, Owed, ExecFirst, ExecPop, ExecDrain
  <2>3. CASE queries_queue = <<>>
    <3>1. /\ exec.at = "first" => Moves("get", None, exec.last)
          /\ exec.at = "drain" => Moves("stop", None, exec.last)
          /\ exec.at \in {"first", "drain"} /\ queries_queue' = queries_queue
      BY <1>2, <2>3 DEF Typed, LoopAt, ExecFirst, ExecPop, ExecDrain, First, Popped
    <3>2. Range(queries_queue) = {}
      BY <2>3 DEF Range
    <3>3. Typed' /\ Held' /\ Ended' /\ Owed'
      BY <1>1, <2>1, <2>2, <3>1, <3>2 DEF Typed, Held, Ended, Owed, DatabaseAssumption
    <3>4. QED BY <3>3
  <2>4. CASE queries_queue # <<>>
    <3>1. /\ \E a \in {"get", "send"} : Moves(a, Head(queries_queue), exec.last)
          /\ exec.at \in {"first", "pop", "drain"} /\ queries_queue' = Tail(queries_queue)
      <4>1. Head(queries_queue) \in Query
        BY <2>2, <2>4
      <4>2. QED BY <1>2, <2>4, <4>1, ZenonT(30) DEF Typed, LoopAt, ExecFirst, ExecPop,
                                                    ExecDrain, First, Popped
    <3>2. /\ Head(queries_queue) \in Query /\ queries_queue' \in Seq(Query)
          /\ Range(queries_queue) = {Head(queries_queue)} \cup Range(queries_queue')
      BY <2>2, <2>4, <3>1, RangeOfRest
    <3>3. Typed'
      BY <1>1, <2>1, <3>1, <3>2 DEF Typed
    <3>4. Held' /\ Ended'
      BY <1>1, <2>1, <3>1 DEF Held, Ended
    <3>5. Owed'
      BY <1>1, <2>1, <2>2, <3>1, <3>2 DEF Owed
    <3>6. QED BY <3>3, <3>4, <3>5
  <2>5. QED BY <2>3, <2>4
<1>3. CASE ExecGet
  <2>1. /\ UNCHANGED <<queries_queue, ThreadRunning, performed>>
        /\ exec.at = "get" /\ Moves("send", exec.job, exec.last)
        /\ holding' = holding \cup {Exec}
    BY <1>3 DEF ExecGet, Typed, LoopAt, Acquire
  <2>2. IsFiniteSet(holding') /\ Cardinality(holding') <= ConnectionCount
    BY <1>3, AcquireBounds DEF ExecGet, Held
  <2>3. Typed'
    BY <1>1, <2>1 DEF Typed
  <2>4. Held'
    BY <1>1, <2>1, <2>2 DEF Held, Thread, DatabaseAssumption
  <2>5. Ended' /\ Owed'
    BY <1>1, <2>1 DEF Ended, Owed
  <2>6. QED BY <2>3, <2>4, <2>5
<1>4. CASE ExecSend
  <2>1. /\ UNCHANGED <<queries_queue, ThreadRunning>>
        /\ exec.at = "send" /\ Moves(IF exec.last THEN "drain" ELSE "test", None, exec.last)
        /\ performed' = performed \cup ({exec.job} \ {None})
        /\ holding' = IF exec.last THEN holding \ {Exec} ELSE holding
    BY <1>4 DEF ExecSend, Typed, LoopAt, Release, Do
  <2>2. IsFiniteSet(holding') /\ Cardinality(holding') <= ConnectionCount
    BY <1>4, ReleaseBounds DEF ExecSend, Held
  <2>3. Typed'
    BY <1>1, <2>1 DEF Typed, Job
  <2>4. Held'
    BY <1>1, <2>1, <2>2 DEF Held
  <2>5. exec.last => terminate
    BY DEF Ended
  <2>6. Ended'
    BY <1>1, <2>1, <2>5 DEF Ended
  <2>7. Owed'
    BY <1>1, <2>1 DEF Owed, DatabaseAssumption
  <2>8. QED BY <2>3, <2>4, <2>6, <2>7
<1>5. CASE ExecTest \/ ExecIdle
  <2>1. /\ UNCHANGED <<queries_queue, ThreadRunning, performed>>
        /\ exec.at \in {"test", "pop"}
        /\ \/ Moves("drain", exec.job, TRUE) /\ terminate /\ holding' = holding \ {Exec}
           \/ Moves("pop", exec.job, exec.last) /\ holding' = holding
           \/ Moves("test", exec.job, exec.last) /\ holding' = holding \ {Exec}
    <3>1. CASE ExecTest /\ terminate
      <4>1. exec' = [exec EXCEPT !.at = "drain", !.last = TRUE]
        BY <3>1 DEF ExecTest
      <4>2. exec' = [at |-> "drain", job |-> exec.job, last |-> TRUE]
        BY <4>1 DEF Typed
      <4>3. Moves("drain", exec.job, TRUE)
        BY <4>2 DEF Typed, LoopAt
      <4>4. QED BY <3>1, <4>3 DEF ExecTest, Release
    <3>2. CASE ExecTest /\ ~terminate
      BY <3>2 DEF ExecTest, Typed, LoopAt
    <3>3. CASE ExecIdle
      BY <3>3 DEF ExecIdle, Typed, LoopAt, Release
    <3>4. QED BY <1>5, <3>1, <3>2, <3>3
  <2>2. IsFiniteSet(holding') /\ Cardinality(holding') <= ConnectionCount
    BY <2>1, ReleaseBounds DEF Held, Release
  <2>3. Typed'
    BY <1>1, <2>1 DEF Typed
  <2>4. Held'
    BY <1>1, <2>1, <2>2 DEF Held
  <2>5. Ended' /\ Owed'
    BY <1>1, <2>1 DEF Ended, Owed
  <2>6. QED BY <2>3, <2>4, <2>5
<1>6. CASE ExecStop
  <2>1. /\ UNCHANGED <<queries_queue, holding, performed>>
        /\ exec.at = "stop" /\ Moves("done", exec.job, exec.last) /\ ThreadRunning' = FALSE
    BY <1>6 DEF ExecStop, Typed, LoopAt
  <2>2. Typed' /\ Held' /\ Ended' /\ Owed'
    BY <1>1, <2>1 DEF Typed, Held, Ended, Owed
  <2>3. QED BY <2>2
<1>7. QED BY <1>2, <1>3, <1>4, <1>5, <1>6 DEF ExecStep

-----------------------------------------------------------------------------
\* thread_proc_query, which has a connection as long as it is in its loop.
LEMMA BuffStepKeeps ==
  ASSUME DatabaseAssumption, IInv, BuffStep
  PROVE  IInv'
<1> USE DEF IInv
<1> DEFINE Moves(a, j, l) == /\ buff' \in [at : LoopAt, job : Batch \cup {None}, last : BOOLEAN]
                             /\ buff'.at = a /\ buff'.job = j /\ buff'.last = l
<1>1. UNCHANGED <<queries_queue, ThreadRunning, terminate, call, exec, main, owed>>
  BY DEF BuffStep, BuffGet, BuffPop, BuffIdle, BuffSend, BuffTest, BuffDrain, BuffStop,
         BuffUnchanged
<1>2. CASE BuffPop \/ BuffDrain
  <2>1. UNCHANGED <<holding, performed>>
    BY <1>2 DEF BuffPop, BuffDrain
  <2>2. buff.job = None /\ query_buffer \in Seq(Batch)
    BY <1>2 DEF Typed, Owed, BuffPop, BuffDrain
  <2>3. CASE query_buffer = <<>>
    <3>1. /\ Moves("stop", None, buff.last) /\ buff.at = "drain"
          /\ query_buffer' = query_buffer
      BY <1>2, <2>3 DEF Typed, LoopAt, BuffPop, BuffDrain, First, Popped
    <3>2. Range(query_buffer) = {}
      BY <2>3 DEF Range
    <3>3. Typed' /\ Held' /\ Ended' /\ Owed'
      BY <1>1, <2>1, <2>2, <3>1, <3>2 DEF Typed, Held, Ended, Owed, DatabaseAssumption
    <3>4. QED BY <3>3
  <2>4. CASE query_buffer # <<>>
    <3>1. Head(query_buffer) \in Batch
      BY <2>2, <2>4
    <3>2. /\ \/ buff.at = "pop" /\ Moves("send", Head(query_buffer), buff.last)
             \/ buff.at = "drain" /\ Moves("get", Head(query_buffer), buff.last)
          /\ query_buffer' = Tail(query_buffer)
      <4>1. CASE BuffPop
        BY <3>1, <4>1 DEF Typed, LoopAt, BuffPop
      <4>2. CASE BuffDrain
        BY <2>4, <3>1, <4>2 DEF Typed, LoopAt, BuffDrain, First, Popped
      <4>3. QED BY <1>2, <4>1, <4>2
    <3>3. /\ query_buffer' \in Seq(Batch)
          /\ Range(query_buffer) = {Head(query_buffer)} \cup Range(query_buffer')
      BY <2>2, <2>4, <3>2, RangeOfRest
    <3>4. Typed'
      BY <1>1, <2>1, <3>1, <3>2, <3>3 DEF Typed
    <3>5. Held' /\ Ended'
      BY <1>1, <2>1, <3>2 DEF Held, Ended
    <3>6. buff.at = "drain" => buff.last
      BY DEF Owed
    <3>7. Owed'
      BY <1>1, <2>1, <2>2, <3>2, <3>3, <3>6 DEF Owed
    <3>8. QED BY <3>4, <3>5, <3>7
  <2>5. QED BY <2>3, <2>4
<1>3. CASE BuffGet
  <2>1. /\ UNCHANGED <<query_buffer, performed>>
        /\ buff.at = "get" /\ holding' = holding \cup {Buff}
        /\ Moves(IF buff.last THEN "send" ELSE "pop", buff.job, buff.last)
    BY <1>3 DEF BuffGet, Typed, LoopAt, Acquire
  <2>2. IsFiniteSet(holding') /\ Cardinality(holding') <= ConnectionCount
    BY <1>3, AcquireBounds DEF BuffGet, Held
  <2>3. Typed'
    BY <1>1, <2>1 DEF Typed
  <2>4. Held'
    BY <1>1, <2>1, <2>2 DEF Held, Thread, DatabaseAssumption
  <2>5. Ended' /\ Owed'
    BY <1>1, <2>1 DEF Ended, Owed
  <2>6. QED BY <2>3, <2>4, <2>5
<1>4. CASE BuffSend
  <2>1. /\ UNCHANGED query_buffer
        /\ buff.at = "send" /\ Moves(IF buff.last THEN "drain" ELSE "test", None, buff.last)
        /\ performed' = performed \cup ({buff.job} \ {None})
        /\ holding' = IF buff.last THEN holding \ {Buff} ELSE holding
    BY <1>4 DEF BuffSend, Typed, LoopAt, Release, Do
  <2>2. IsFiniteSet(holding') /\ Cardinality(holding') <= ConnectionCount
    BY <1>4, ReleaseBounds DEF BuffSend, Held
  <2>3. Typed'
    BY <1>1, <2>1 DEF Typed, Job
  <2>4. Held'
    BY <1>1, <2>1, <2>2 DEF Held
  <2>5. Ended'
    BY <1>1, <2>1 DEF Ended
  <2>6. Owed'
    BY <1>1, <2>1 DEF Owed, DatabaseAssumption
  <2>7. QED BY <2>3, <2>4, <2>5, <2>6
<1>5. CASE BuffTest
  <2>1. /\ UNCHANGED <<query_buffer, performed>> /\ buff.at = "test"
        /\ \/ Moves("drain", buff.job, TRUE) /\ terminate /\ holding' = holding \ {Buff}
           \/ Moves("pop", buff.job, buff.last) /\ holding' = holding
    <3>1. CASE terminate
      <4>1. buff' = [buff EXCEPT !.at = "drain", !.last = TRUE]
        BY <1>5, <3>1 DEF BuffTest
      <4>2. buff' = [at |-> "drain", job |-> buff.job, last |-> TRUE]
        BY <4>1 DEF Typed
      <4>3. Moves("drain", buff.job, TRUE)
        BY <4>2 DEF Typed, LoopAt
      <4>4. QED BY <1>5, <3>1, <4>3 DEF BuffTest, Release
    <3>2. CASE ~terminate
      BY <1>5, <3>2 DEF BuffTest, Typed, LoopAt
    <3>3. QED BY <3>1, <3>2
  <2>2. IsFiniteSet(holding') /\ Cardinality(holding') <= ConnectionCount
    BY <2>1, ReleaseBounds DEF Held, Release
  <2>3. Typed' /\ Held'
    BY <1>1, <2>1, <2>2 DEF Typed, Held
  <2>4. Ended' /\ Owed'
    BY <1>1, <2>1 DEF Ended, Owed
  <2>5. QED BY <2>3, <2>4
<1>6. CASE BuffIdle \/ BuffStop
  <2>1. /\ UNCHANGED <<query_buffer, holding, performed>>
        /\ \/ buff.at = "pop" /\ Moves("test", buff.job, buff.last)
           \/ buff.at = "stop" /\ Moves("done", buff.job, buff.last)
    BY <1>6 DEF BuffIdle, BuffStop, Typed, LoopAt
  <2>2. Typed' /\ Held'
    BY <1>1, <2>1 DEF Typed, Held
  <2>3. Ended' /\ Owed'
    BY <1>1, <2>1 DEF Ended, Owed
  <2>4. QED BY <2>2, <2>3
<1>7. QED BY <1>2, <1>3, <1>4, <1>5, <1>6 DEF BuffStep

-----------------------------------------------------------------------------
\* The thread in Master::Run.  Nothing is owed while it turns the queues round.
LEMMA MainStepKeeps ==
  ASSUME DatabaseAssumption, IInv, EndThreads \/ EndStep \/ PoolShutdown \/ StopDB
  PROVE  IInv'
<1> USE DEF IInv
<1> DEFINE Moves(a, j) == /\ main' \in [at : MainAt, job : Job \cup {None}]
                          /\ main'.at = a /\ main'.job = j
<1>1. UNCHANGED <<holding, ThreadRunning, call, exec, buff, performed>>
  BY DEF EndStep, EndThreads, RotateBuffers, ReturnBuffer, RotateQueries, ReturnQuery,
         SetTerminate, EndReturns, PoolShutdown, StopDB, MainUnchanged
<1>2. Held'
  BY <1>1 DEF Held
<1>3. queries_queue \in Seq(Query) /\ query_buffer \in Seq(Batch)
  BY DEF Typed
<1>4. CASE RotateBuffers \/ ReturnBuffer \/ RotateQueries \/ ReturnQuery
  <2>1. /\ queries_queue' \in Seq(Query) /\ query_buffer' \in Seq(Batch)
        /\ UNCHANGED <<terminate, owed>>
        /\ \/ main.at = "popB" /\ Moves("popQ", None)
           \/ main.at = "popB" /\ main'.job \in Batch /\ Moves("pushB", main'.job)
           \/ main.at = "pushB" /\ Moves("popB", None)
           \/ main.at = "popQ" /\ Moves("set", None)
           \/ main.at = "popQ" /\ main'.job \in Query /\ Moves("pushQ", main'.job)
           \/ main.at = "pushQ" /\ Moves("popQ", None)
    <3>1. CASE RotateBuffers /\ query_buffer = <<>>
      BY <1>3, <3>1 DEF RotateBuffers, First, Popped, MainAt
    <3>2. CASE RotateBuffers /\ query_buffer # <<>>
      <4>1. Head(query_buffer) \in Batch /\ Tail(query_buffer) \in Seq(Batch)
        BY <1>3, <3>2, RangeOfRest
      <4>2. QED BY <1>3, <3>2, <4>1 DEF RotateBuffers, First, Popped, MainAt, Job
    <3>3. CASE ReturnBuffer
      BY <1>3, <3>3, RangeOfPushed DEF ReturnBuffer, MainAt, Typed
    <3>4. CASE RotateQueries /\ queries_queue = <<>>
      BY <1>3, <3>4 DEF RotateQueries, First, Popped, MainAt
    <3>5. CASE RotateQueries /\ queries_queue # <<>>
      <4>1. Head(queries_queue) \in Query /\ Tail(queries_queue) \in Seq(Query)
        BY <1>3, <3>5, RangeOfRest
      <4>2. QED BY <1>3, <3>5, <4>1 DEF RotateQueries, First, Popped, MainAt, Job
    <3>6. CASE ReturnQuery
      BY <1>3, <3>6, RangeOfPushed DEF ReturnQuery, MainAt, Typed
    <3>7. QED BY <1>4, <3>1, <3>2, <3>3, <3>4, <3>5, <3>6
  <2>2. Typed'
    BY <1>1, <2>1 DEF Typed
  <2>3. Ended'
    BY <1>1, <2>1 DEF Ended
  <2>4. ~terminate
    BY <2>1 DEF Ended
  <2>5. Owed'
    BY <1>1, <2>1, <2>4 DEF Owed
  <2>6. QED BY <1>2, <2>2, <2>3, <2>5
<1>5. CASE SetTerminate
  <2>1. /\ UNCHANGED <<queries_queue, query_buffer>> /\ terminate' = TRUE
        /\ main.at = "set" /\ Moves("wait", main.job)
        /\ owed' = (Range(queries_queue) \cup Range(query_buffer) \cup {exec.job, buff.job})
                     \ {None}
    BY <1>5 DEF SetTerminate, Pending, Typed, MainAt
  <2>2. Range(queries_queue) \subseteq Query /\ Range(query_buffer) \subseteq Batch
    BY <1>3, RangeOfQueue
  <2>3. Typed'
    BY <1>1, <2>1, <2>2 DEF Typed, Job
  <2>4. Ended'
    BY <1>1, <2>1 DEF Ended
  <2>5. exec.at \notin {"stop", "done"} /\ buff.at \notin {"stop", "done"}
    BY <2>1 DEF Ended
  <2>6. Owed'
    <3>1. exec.job \in Query \cup {None} /\ buff.job \in Batch \cup {None}
      BY DEF Typed
    <3>2. QED BY <1>1, <2>1, <2>2, <2>5, <3>1 DEF Owed, DatabaseAssumption
  <2>7. QED BY <1>2, <2>3, <2>4, <2>6
<1>6. CASE EndThreads \/ EndReturns \/ PoolShutdown \/ StopDB
  <2>1. /\ UNCHANGED <<queries_queue, query_buffer, terminate, owed>>
        /\ \/ main.at = "run" /\ Moves("popB", main.job)
           \/ main.at = "wait" /\ ~ThreadRunning /\ Moves("ended", main.job)
           \/ /\ main.at = "ended" /\ Moves("pooled", main.job)
              /\ buff.at = "done" /\ \A c \in Caller : call[c].at = "idle"
           \/ main.at = "pooled" /\ call[Main].at = "idle" /\ Moves("deleted", main.job)
    BY <1>6 DEF EndThreads, EndReturns, PoolShutdown, StopDB, Typed, MainAt
  <2>2. Typed'
    BY <1>1, <2>1 DEF Typed
  <2>3. Ended'
    BY <1>1, <2>1 DEF Ended, DatabaseAssumption
  <2>4. Owed'
    BY <1>1, <2>1 DEF Owed
  <2>5. QED BY <1>2, <2>2, <2>3, <2>4
<1>7. QED BY <1>4, <1>5, <1>6 DEF EndStep

LEMMA DatabaseNext == DatabaseAssumption /\ IInv /\ [Next]_vars => IInv'
<1> SUFFICES ASSUME DatabaseAssumption, IInv, [Next]_vars PROVE IInv'
  OBVIOUS
<1>1. ASSUME NEW c \in Caller, Execute(c) PROVE IInv'
  <2>1. PICK q \in Query : MayCall(c) /\ Enter(c, IF ThreadRunning THEN "push" ELSE "get", q)
    BY <1>1 DEF Execute
  <2>2. CASE ThreadRunning
    BY <2>1, <2>2, EnterStep DEF Job
  <2>3. CASE ~ThreadRunning
    BY <2>1, <2>3, EnterStep DEF Job
  <2>4. QED BY <2>2, <2>3
<1>2. ASSUME NEW c \in Caller, AddQueryBuffer(c) PROVE IInv'
  <2>1. PICK b \in Batch : MayCall(c) /\ Enter(c, IF qt THEN "push" ELSE "get", b)
    BY <1>2 DEF AddQueryBuffer
  <2>2. CASE qt
    BY <2>1, <2>2, EnterStep DEF Job
  <2>3. CASE ~qt
    BY <2>1, <2>3, EnterStep DEF Job
  <2>4. QED BY <2>2, <2>3
<1>3. ASSUME NEW c \in Caller, QueryNow(c) PROVE IInv'
  BY <1>3, EnterStep DEF QueryNow
<1>4. ASSUME NEW c \in Caller, CallStep(c) PROVE IInv'
  BY <1>4, CallStepKeeps
<1>5. CASE ExecStep \/ BuffStep
  BY <1>5, ExecStepKeeps, BuffStepKeeps
<1>6. CASE EndThreads \/ EndStep \/ PoolShutdown \/ StopDB
  BY <1>6, MainStepKeeps
<1>7. CASE UNCHANGED vars
  BY <1>7 DEF vars, IInv, Typed, Held, Ended, Owed
<1>8. QED BY <1>1, <1>2, <1>3, <1>4, <1>5, <1>6, <1>7 DEF Next

\* The strengthening is an invariant of the Database.
THEOREM DatabaseInvariant == Spec => []IInv
<1>1. Init => IInv
  BY DatabaseInit, DatabaseAssumption
<1>2. IInv /\ [Next]_vars => IInv'
  BY DatabaseNext, DatabaseAssumption
<1>3. QED BY <1>1, <1>2, PTL DEF Spec

\* The variables keep their types, and never are more connections in use than there are:
\* GetFreeConnection hands none out twice, however many threads spin in it.
THEOREM DatabaseTypes == Spec => []TypeOK
<1>1. IInv => TypeOK
  BY DEF IInv, Typed, Held, TypeOK
<1>2. QED BY <1>1, DatabaseInvariant, PTL

\* No caller and neither thread is in the Database when Master::Run deletes it, though
\* EndThreads has waited for the execute thread only: the shut-down of the pool waits for
\* the others, and the callers of Main return before _StopDB.
THEOREM DatabaseNoUseAfterDelete == Spec => []NoUseAfterDelete
<1>1. IInv => NoUseAfterDelete
  <2> SUFFICES ASSUME IInv, main.at = "deleted" PROVE NoUseAfterDelete
    BY DEF NoUseAfterDelete
  <2>1. \A c \in Caller : call[c].at = "idle"
    BY DEF IInv, Ended
  <2>2. exec.at = "done" /\ buff.at = "done"
    BY DEF IInv, Ended
  <2>3. holding = {}
    BY <2>1, <2>2 DEF IInv, Held, Thread
  <2>4. QED BY <2>1, <2>2, <2>3 DEF NoUseAfterDelete
<1>2. QED BY <1>1, DatabaseInvariant, PTL

\* No statement and no buffer that waited when EndThreads set the thread state is lost,
\* wherever it was and in whatever order the threads see the state.
THEOREM DatabaseOwedIsPerformed == Spec => []OwedIsPerformed
<1>1. IInv => OwedIsPerformed
  <2> SUFFICES ASSUME IInv PROVE OwedIsPerformed
    OBVIOUS
  <2>1. main.at \in {"ended", "pooled", "deleted"} => owed \cap Query \subseteq performed
    BY DEF IInv, Ended, Owed
  <2>2. main.at \in {"pooled", "deleted"} => owed \cap Batch \subseteq performed
    BY DEF IInv, Ended, Owed
  <2>3. owed \subseteq Query \cup Batch
    BY DEF IInv, Typed, Job
  <2>4. QED BY <2>1, <2>2, <2>3 DEF OwedIsPerformed
<1>2. QED BY <1>1, DatabaseInvariant, PTL
-----------------------------------------------------------------------------
(* The Database implements JobQueue.  First what happens to a line of waiting jobs: the   *)
(* one in the hand h of the thread, the one in the hand m of EndThreads, and the queue q. *)

Line(h, m, S, q) == Hand(h) \o HeldBy(m, S) \o q
InLine(h, m, S, q) == ({h} \ {None}) \cup ({m} \cap S) \cup Range(q)

LEMMA LineParts ==
  ASSUME NEW S, None \notin S, NEW h \in S \cup {None}, NEW m, NEW q \in Seq(S)
  PROVE  /\ Hand(h) \in Seq(S) /\ HeldBy(m, S) \in Seq(S)
         /\ Range(Hand(h)) = {h} \ {None} /\ Range(HeldBy(m, S)) = {m} \cap S
         /\ Len(Hand(h)) = (IF h = None THEN 0 ELSE 1)
         /\ Len(HeldBy(m, S)) = (IF m \in S THEN 1 ELSE 0)
<1>1. Range(<<>>) = {} /\ \A x : Range(<<x>>) = {x}
  BY DEF Range
<1>2. \A x \in S : <<x>> \in Seq(S) /\ Len(<<x>>) = 1
  OBVIOUS
<1>3. <<>> \in Seq(S) /\ Len(<<>>) = 0
  OBVIOUS
<1>4. /\ Hand(h) \in Seq(S) /\ Range(Hand(h)) = {h} \ {None}
      /\ Len(Hand(h)) = (IF h = None THEN 0 ELSE 1)
  <2>1. CASE h = None
    <3>1. Hand(h) = <<>>
      BY <2>1 DEF Hand
    <3>2. QED BY <1>1, <1>3, <2>1, <3>1
  <2>2. CASE h # None
    <3>1. Hand(h) = <<h>> /\ h \in S
      BY <2>2 DEF Hand
    <3>2. QED BY <1>1, <1>2, <2>2, <3>1
  <2>3. QED BY <2>1, <2>2
<1>5. /\ HeldBy(m, S) \in Seq(S) /\ Range(HeldBy(m, S)) = {m} \cap S
      /\ Len(HeldBy(m, S)) = (IF m \in S THEN 1 ELSE 0)
  <2>1. CASE m \in S
    <3>1. HeldBy(m, S) = <<m>>
      BY <2>1 DEF HeldBy
    <3>2. QED BY <1>1, <1>2, <2>1, <3>1
  <2>2. CASE m \notin S
    <3>1. HeldBy(m, S) = <<>>
      BY <2>2 DEF HeldBy
    <3>2. QED BY <1>1, <1>3, <2>2, <3>1
  <2>3. QED BY <2>1, <2>2
<1>6. QED BY <1>4, <1>5

LEMMA LineType ==
  ASSUME NEW S, None \notin S, NEW h \in S \cup {None}, NEW m, NEW q \in Seq(S)
  PROVE  /\ Line(h, m, S, q) \in Seq(S)
         /\ Range(Line(h, m, S, q)) = InLine(h, m, S, q)
         /\ Len(Line(h, m, S, q)) = (IF h = None THEN 0 ELSE 1) + (IF m \in S THEN 1 ELSE 0) + Len(q)
<1>1. /\ Hand(h) \o HeldBy(m, S) \in Seq(S)
      /\ Range(Hand(h) \o HeldBy(m, S)) = ({h} \ {None}) \cup ({m} \cap S)
      /\ Len(Hand(h) \o HeldBy(m, S)) = Len(Hand(h)) + Len(HeldBy(m, S))
  BY LineParts, RangeConcatenation, ConcatProperties
<1>2. Range(Line(h, m, S, q)) = InLine(h, m, S, q)
  <2> DEFINE p == Hand(h) \o HeldBy(m, S)
  <2>1. p \in Seq(S)
    BY <1>1
  <2> HIDE DEF p
  <2>2. Range(p \o q) = Range(p) \cup Range(q)
    BY <2>1, RangeConcatenation
  <2>3. QED BY <1>1, <2>2 DEF p, Line, InLine
<1>3. /\ Line(h, m, S, q) \in Seq(S)
      /\ Len(Line(h, m, S, q)) = Len(Hand(h) \o HeldBy(m, S)) + Len(q)
  BY <1>1, ConcatProperties DEF Line
<1>4. QED BY <1>1, <1>2, <1>3, LineParts

\* Accept.
LEMMA LinePush ==
  ASSUME NEW S, None \notin S, NEW h \in S \cup {None}, NEW m, NEW q \in Seq(S), NEW j \in S
  PROVE  Line(h, m, S, Append(q, j)) = Append(Line(h, m, S, q), j)
<1> DEFINE p == Hand(h) \o HeldBy(m, S)
<1>1. p \in Seq(S) /\ <<j>> \in Seq(S)
  BY LineParts, ConcatProperties
<1>2. Line(h, m, S, Append(q, j)) = p \o (q \o <<j>>)
  BY AppendIsConcat DEF Line
<1>3. p \o (q \o <<j>>) = (p \o q) \o <<j>>
  BY <1>1, ConcatAssociative
<1>4. Append(Line(h, m, S, q), j) = Line(h, m, S, q) \o <<j>>
  BY LineType, AppendIsConcat
<1>5. QED BY <1>2, <1>3, <1>4 DEF Line

\* Perform: the job in the hand of the thread is the first.
LEMMA LineSend ==
  ASSUME NEW S, None \notin S, NEW h \in S, NEW m, NEW q \in Seq(S)
  PROVE  /\ Line(h, m, S, q) # <<>> /\ Head(Line(h, m, S, q)) = h
         /\ Tail(Line(h, m, S, q)) = Line(None, m, S, q)
<1> DEFINE r == Line(None, m, S, q)
<1>1. r \in Seq(S) /\ HeldBy(m, S) \in Seq(S) /\ <<h>> \in Seq(S)
  BY LineType, LineParts
<1>2. r = HeldBy(m, S) \o q
  BY <1>1, ConcatEmptySeq DEF Line, Hand
<1>3. Line(h, m, S, q) = <<h>> \o r
  <2>1. (<<h>> \o HeldBy(m, S)) \o q = <<h>> \o (HeldBy(m, S) \o q)
    BY <1>1, ConcatAssociative
  <2>2. Hand(h) = <<h>>
    BY DEF Hand
  <2>3. QED BY <1>2, <2>1, <2>2 DEF Line
<1> HIDE DEF r
<1>4. <<h>> \o r # <<>> /\ Head(<<h>> \o r) = h /\ Tail(<<h>> \o r) = r
  <2>1. <<h>> \o r \in Seq(S) /\ Len(<<h>> \o r) = 1 + Len(r) /\ Len(r) \in Nat
    BY <1>1, ConcatProperties
  <2>2. \A i \in 1 .. 1 + Len(r) : (<<h>> \o r)[i] = IF i <= 1 THEN h ELSE r[i - 1]
    BY <1>1, ConcatProperties
  <2>3. <<h>> \o r # <<>> /\ Head(<<h>> \o r) = h
    BY <2>1, <2>2
  <2>4. Tail(<<h>> \o r) \in Seq(S) /\ Len(Tail(<<h>> \o r)) = Len(r)
        /\ \A i \in 1 .. Len(r) : Tail(<<h>> \o r)[i] = (<<h>> \o r)[i + 1]
    BY <2>1, <2>3, HeadTailProperties
  <2>5. \A i \in 1 .. Len(r) : Tail(<<h>> \o r)[i] = r[i]
    <3>1. ASSUME NEW i \in 1 .. Len(r) PROVE Tail(<<h>> \o r)[i] = r[i]
      <4>1. i + 1 \in 1 .. 1 + Len(r) /\ ~(i + 1 <= 1) /\ i + 1 - 1 = i
        BY <2>1
      <4>2. QED BY <2>2, <2>4, <4>1
    <3>2. QED BY <3>1
  <2>6. Tail(<<h>> \o r) = r
    BY <1>1, <2>4, <2>5, SeqEqual
  <2>7. QED BY <2>3, <2>6
<1>5. QED BY <1>3, <1>4 DEF r

\* A job in front of the queue comes into a hand.
LEMMA LinePop ==
  ASSUME NEW S, None \notin S, NEW m, NEW q \in Seq(S), q # <<>>
  PROVE  /\ m \notin S => Line(Head(q), m, S, Tail(q)) = Line(None, m, S, q)
         /\ Len(Line(Head(q), m, S, Tail(q))) = Len(Line(None, m, S, q))
         /\ Range(Line(Head(q), m, S, Tail(q))) = Range(Line(None, m, S, q))
         /\ \A h \in S \cup {None} : m \notin S => Line(h, Head(q), S, Tail(q)) = Line(h, m, S, q)
<1>1. Head(q) \in S /\ Tail(q) \in Seq(S) /\ Len(q) = Len(Tail(q)) + 1 /\ Len(Tail(q)) \in Nat
      /\ Head(q) # None
  BY HeadTailProperties, LenProperties
<1>2. <<Head(q)>> \o Tail(q) = q
  <2>1. /\ <<Head(q)>> \o Tail(q) \in Seq(S) /\ Len(<<Head(q)>> \o Tail(q)) = Len(q)
        /\ \A i \in 1 .. Len(q) : (<<Head(q)>> \o Tail(q))[i] =
                                   IF i <= 1 THEN Head(q) ELSE Tail(q)[i - 1]
    <3>1. <<Head(q)>> \in Seq(S) /\ Len(<<Head(q)>>) = 1 /\ <<Head(q)>>[1] = Head(q)
      BY <1>1
    <3>2. 1 + Len(Tail(q)) = Len(q)
      BY <1>1
    <3>3. \A i \in 1 .. Len(q) : i <= 1 => i = 1
      BY <1>1
    <3>4. QED BY <1>1, <3>1, <3>2, <3>3, ConcatProperties
  <2>2. ASSUME NEW i \in 1 .. Len(q) PROVE (<<Head(q)>> \o Tail(q))[i] = q[i]
    <3>1. CASE i = 1
      BY <2>1, <3>1
    <3>2. CASE i # 1
      <4>1. i - 1 \in 1 .. Len(Tail(q)) /\ ~(i <= 1) /\ i - 1 + 1 = i
        BY <1>1, <3>2
      <4>2. Tail(q)[i - 1] = q[i]
        BY <4>1, HeadTailProperties
      <4>3. QED BY <2>1, <4>1, <4>2
    <3>3. QED BY <3>1, <3>2
  <2>3. QED BY <2>1, <2>2, SeqEqual
<1>3. ASSUME NEW h \in S \cup {None}, m \notin S
      PROVE  Line(h, Head(q), S, Tail(q)) = Line(h, m, S, q)
  <2>1. Hand(h) \in Seq(S) /\ <<Head(q)>> \in Seq(S) /\ <<>> \in Seq(S)
    BY <1>1, LineParts
  <2>2. Line(h, Head(q), S, Tail(q)) = Hand(h) \o (<<Head(q)>> \o Tail(q))
    BY <1>1, <2>1, ConcatAssociative DEF Line, HeldBy
  <2>3. Line(h, m, S, q) = Hand(h) \o q
    BY <1>3, <2>1, ConcatEmptySeq DEF Line, HeldBy
  <2>4. QED BY <1>2, <2>2, <2>3
<1>4. m \notin S => Line(Head(q), m, S, Tail(q)) = Line(None, m, S, q)
  <2> SUFFICES ASSUME m \notin S PROVE Line(Head(q), m, S, Tail(q)) = Line(None, m, S, q)
    OBVIOUS
  <2>1. <<Head(q)>> \in Seq(S) /\ <<>> \in Seq(S)
    BY <1>1
  <2>2. Line(Head(q), m, S, Tail(q)) = <<Head(q)>> \o Tail(q)
    BY <1>1, <2>1, ConcatEmptySeq DEF Line, HeldBy, Hand
  <2>3. Line(None, m, S, q) = q
    BY <2>1, ConcatEmptySeq DEF Line, HeldBy, Hand
  <2>4. QED BY <1>2, <2>2, <2>3
<1>5. Len(Line(Head(q), m, S, Tail(q))) = Len(Line(None, m, S, q))
  <2>1. Head(q) \in S \cup {None} /\ Head(q) # None
    BY <1>1
  <2>2. /\ Len(Line(Head(q), m, S, Tail(q))) = 1 + (IF m \in S THEN 1 ELSE 0) + Len(Tail(q))
        /\ Len(Line(None, m, S, q)) = 0 + (IF m \in S THEN 1 ELSE 0) + Len(q)
    <3>1. ASSUME NEW h \in S \cup {None}, NEW r \in Seq(S)
          PROVE  Len(Line(h, m, S, r)) =
                   (IF h = None THEN 0 ELSE 1) + (IF m \in S THEN 1 ELSE 0) + Len(r)
      BY LineType
    <3>2. Len(Line(Head(q), m, S, Tail(q))) = 1 + (IF m \in S THEN 1 ELSE 0) + Len(Tail(q))
      BY <1>1, <2>1, <3>1
    <3>3. Len(Line(None, m, S, q)) = 0 + (IF m \in S THEN 1 ELSE 0) + Len(q)
      BY <3>1
    <3>4. QED BY <3>2, <3>3
  <2>3. QED BY <1>1, <2>2
<1>6. Range(Line(Head(q), m, S, Tail(q))) = Range(Line(None, m, S, q))
  <2>1. Range(q) = {Head(q)} \cup Range(Tail(q))
    BY RangeOfRest
  <2>2. /\ Range(Line(Head(q), m, S, Tail(q))) = InLine(Head(q), m, S, Tail(q))
        /\ Range(Line(None, m, S, q)) = InLine(None, m, S, q)
    <3>1. ASSUME NEW h \in S \cup {None}, NEW r \in Seq(S)
          PROVE  Range(Line(h, m, S, r)) = InLine(h, m, S, r)
      BY LineType
    <3>2. QED BY <1>1, <3>1
  <2>3. QED BY <1>1, <2>1, <2>2 DEF InLine
<1>7. QED BY <1>3, <1>4, <1>5, <1>6

\* EndThreads puts back what it took out.
LEMMA LineReturn ==
  ASSUME NEW S, None \notin S, NEW h \in S \cup {None}, NEW m \in S, NEW q \in Seq(S)
  PROVE  /\ Len(Line(h, None, S, Append(q, m))) = Len(Line(h, m, S, q))
         /\ Range(Line(h, None, S, Append(q, m))) = Range(Line(h, m, S, q))
<1>1. /\ Append(q, m) \in Seq(S) /\ Len(Append(q, m)) = Len(q) + 1 /\ Len(q) \in Nat
      /\ Range(Append(q, m)) = Range(q) \cup {m}
  BY AppendProperties, RangeOfPushed, LenProperties
<1>2. /\ Len(Line(h, None, S, Append(q, m))) = (IF h = None THEN 0 ELSE 1) + 0 + Len(Append(q, m))
      /\ Len(Line(h, m, S, q)) = (IF h = None THEN 0 ELSE 1) + 1 + Len(q)
      /\ Range(Line(h, None, S, Append(q, m))) = InLine(h, None, S, Append(q, m))
      /\ Range(Line(h, m, S, q)) = InLine(h, m, S, q)
  <2>1. ASSUME NEW n, NEW r \in Seq(S)
        PROVE  /\ Range(Line(h, n, S, r)) = InLine(h, n, S, r)
               /\ Len(Line(h, n, S, r)) =
                    (IF h = None THEN 0 ELSE 1) + (IF n \in S THEN 1 ELSE 0) + Len(r)
    BY LineType
  <2>2. QED BY <1>1, <2>1
<1>3. QED BY <1>1, <1>2 DEF InLine
-----------------------------------------------------------------------------
\* Every job is in one place only: with a caller, in a hand, once in a queue, or performed.
Fit(h, m, S, q) ==
  /\ IsInjective(q)
  /\ h # None => h \notin Range(q)
  /\ m \in S => m \notin Range(q) /\ m # h

Waiting == ({exec.job, buff.job, main.job} \ {None}) \cup Range(queries_queue)
             \cup Range(query_buffer)

Once ==
  /\ main.at \notin {"pushB", "pushQ"} => main.job = None
  /\ main.at = "run" => \A c \in Caller : call[c].at \in {"get", "send"} => call[c].job = None
  /\ Fit(exec.job, main.job, Query, queries_queue)
  /\ Fit(buff.job, main.job, Batch, query_buffer)
  /\ Waiting \cap performed = {}
  /\ \A c \in Caller : call[c].job # None => call[c].job \notin performed \cup Waiting
  /\ \A c, d \in Caller : call[c].job = call[d].job /\ call[c].job # None => c = d

LEMMA FitPush ==
  ASSUME NEW S, NEW q \in Seq(S), NEW h, NEW m, Fit(h, m, S, q), NEW j \in S,
         j \notin Range(q), j # h, j # m
  PROVE  Fit(h, m, S, Append(q, j))
<1>1. /\ Len(q) \in Nat /\ DOMAIN q = 1 .. Len(q) /\ DOMAIN Append(q, j) = 1 .. Len(q) + 1
      /\ \A n \in 1 .. Len(q) : Append(q, j)[n] = q[n] /\ q[n] # j
      /\ Append(q, j)[Len(q) + 1] = j
  BY DEF Range
<1>2. IsInjective(q)
  BY DEF Fit
<1>3. \A a, b \in 1 .. Len(q) + 1 : Append(q, j)[a] = Append(q, j)[b] => a = b
  <2>1. ASSUME NEW a \in 1 .. Len(q) + 1, NEW b \in 1 .. Len(q) + 1,
               Append(q, j)[a] = Append(q, j)[b]
        PROVE  a = b
    <3>1. CASE a = Len(q) + 1
      <4>1. ~(b \in 1 .. Len(q))
        BY <1>1, <2>1, <3>1
      <4>2. QED BY <1>1, <3>1, <4>1
    <3>2. CASE b = Len(q) + 1
      <4>1. ~(a \in 1 .. Len(q))
        BY <1>1, <2>1, <3>2
      <4>2. QED BY <1>1, <3>2, <4>1
    <3>3. CASE a \in 1 .. Len(q) /\ b \in 1 .. Len(q)
      BY <1>1, <1>2, <2>1, <3>3 DEF IsInjective
    <3>4. QED BY <1>1, <3>1, <3>2, <3>3
  <2>2. QED BY <2>1
<1>4. Range(Append(q, j)) = Range(q) \cup {j}
  BY RangeOfPushed
<1>5. QED BY <1>1, <1>3, <1>4 DEF Fit, IsInjective

LEMMA InjectiveRest ==
  ASSUME NEW S, NEW q \in Seq(S), q # <<>>, IsInjective(q)
  PROVE  IsInjective(Tail(q)) /\ Head(q) \notin Range(Tail(q))
<1>1. /\ Len(q) \in Nat \ {0} /\ Head(q) = q[1] /\ DOMAIN q = 1 .. Len(q)
      /\ DOMAIN Tail(q) = 1 .. Len(q) - 1
      /\ \A n \in 1 .. Len(q) - 1 : Tail(q)[n] = q[n + 1]
  OBVIOUS
<1>2. \A a, b \in 1 .. Len(q) : q[a] = q[b] => a = b
  BY <1>1 DEF IsInjective
<1>3. \A n \in 1 .. Len(q) - 1 : n + 1 \in 1 .. Len(q) /\ n + 1 # 1
  BY <1>1
<1>4. IsInjective(Tail(q))
  BY <1>1, <1>2, <1>3 DEF IsInjective
<1>5. ASSUME NEW n \in 1 .. Len(q) - 1 PROVE Tail(q)[n] # Head(q)
  BY <1>1, <1>2, <1>3
<1>6. QED BY <1>1, <1>4, <1>5 DEF Range

LEMMA FitPop ==
  ASSUME NEW S, None \notin S, NEW q \in Seq(S), q # <<>>, NEW h, NEW m, Fit(h, m, S, q)
  PROVE  /\ h = None => Fit(Head(q), m, S, Tail(q))
         /\ m \notin S => Fit(h, Head(q), S, Tail(q))
<1>1. /\ Head(q) \in S /\ Range(q) = {Head(q)} \cup Range(Tail(q))
      /\ IsInjective(Tail(q)) /\ Head(q) \notin Range(Tail(q))
  BY RangeOfRest, InjectiveRest DEF Fit
<1>2. h # None => h # Head(q) /\ h \notin Range(Tail(q))
  BY <1>1 DEF Fit
<1>3. m \in S => m # Head(q) /\ m \notin Range(Tail(q))
  BY <1>1 DEF Fit
<1>4. Head(q) # None
  BY <1>1
<1>5. h = None => Fit(Head(q), m, S, Tail(q))
  BY <1>1, <1>3 DEF Fit
<1>6. m \notin S => Fit(h, Head(q), S, Tail(q))
  BY <1>1, <1>2, <1>4 DEF Fit
<1>7. QED BY <1>5, <1>6

\* A step of a JobQueue of the jobs S, from the line w, the performed p and closing c to v, r, d.
QueueStep(S, w, v, p, r, c, d) ==
  \/ w # <<>> /\ Head(w) \notin p /\ r = p \cup {Head(w)} /\ v = Tail(w) /\ d = c
  \/ d = TRUE /\ v = w /\ r = p
  \/ c /\ Len(v) = Len(w) /\ Range(v) = Range(w) /\ r = p /\ d = c
  \/ \E j \in S : j \notin p /\ j \notin Range(w) /\ v = Append(w, j) /\ r = p /\ d = c
  \/ \E j \in S : c /\ j \notin p /\ j \notin Range(w) /\ r = p \cup {j} /\ v = w /\ d = c
  \/ v = w /\ r = p /\ d = c

QueryLine == Line(exec.job, main.job, Query, queries_queue)
BatchLine == Line(buff.job, main.job, Batch, query_buffer)
Closing   == main.at # "run"

QStep == QueueStep(Query, QueryLine, QueryLine', performed \cap Query, performed' \cap Query,
                   Closing, Closing')
BStep == QueueStep(Batch, BatchLine, BatchLine', performed \cap Batch, performed' \cap Batch,
                   Closing, Closing')

LEMMA QueueSteps ==
  /\ QStep => [Queries!Next]_Queries!vars
  /\ BStep => [Batches!Next]_Batches!vars
<1>1. QStep => [Queries!Next]_Queries!vars
  <2> DEFINE w == QueryLine
             p == performed \cap Query
  <2> SUFFICES ASSUME QStep PROVE [Queries!Next]_Queries!vars
    OBVIOUS
  <2>0. QueueStep(Query, w, w', p, p', Closing, Closing')
    BY DEF QStep
  <2>1. CASE w # <<>> /\ Head(w) \notin p /\ p' = p \cup {Head(w)} /\ w' = Tail(w) /\ Closing' = Closing
    <3>1. Queries!Perform
      BY <2>1 DEF Queries!Perform, QueryLine, Line, Closing
    <3>2. QED BY <3>1 DEF Queries!Next
  <2>2. CASE Closing' = TRUE /\ w' = w /\ p' = p
    <3>1. Queries!Close
      BY <2>2 DEF Queries!Close, QueryLine, Line, Closing
    <3>2. QED BY <3>1 DEF Queries!Next
  <2>3. CASE Closing /\ Len(w') = Len(w) /\ Range(w') = Range(w) /\ p' = p /\ Closing' = Closing
    <3>1. Queries!Shuffle
      BY <2>3 DEF Queries!Shuffle, QueryLine, Line, Closing, Queries!Range, Range
    <3>2. QED BY <3>1 DEF Queries!Next
  <2>4. ASSUME NEW j \in Query, j \notin p, j \notin Range(w), w' = Append(w, j), p' = p, Closing' = Closing
        PROVE  Queries!Next
    <3>1. Queries!Accept(j)
      BY <2>4 DEF Queries!Accept, Queries!New, QueryLine, Line, Closing, Queries!Range, Range
    <3>2. QED BY <3>1 DEF Queries!Next
  <2>5. ASSUME NEW j \in Query, Closing, j \notin p, j \notin Range(w), p' = p \cup {j}, w' = w,
               Closing' = Closing
        PROVE  Queries!Next
    <3>1. Queries!PerformNow(j)
      BY <2>5 DEF Queries!PerformNow, Queries!New, QueryLine, Line, Closing,
             Queries!Range, Range
    <3>2. QED BY <3>1 DEF Queries!Next
  <2>6. CASE w' = w /\ p' = p /\ Closing' = Closing
    BY <2>6 DEF Queries!vars, QueryLine, Line, Closing
  <2> HIDE DEF w, p
  <2>7. QED BY <2>0, <2>1, <2>2, <2>3, <2>4, <2>5, <2>6 DEF QueueStep
<1>2. BStep => [Batches!Next]_Batches!vars
  <2> DEFINE w == BatchLine
             p == performed \cap Batch
  <2> SUFFICES ASSUME BStep PROVE [Batches!Next]_Batches!vars
    OBVIOUS
  <2>0. QueueStep(Batch, w, w', p, p', Closing, Closing')
    BY DEF BStep
  <2>1. CASE w # <<>> /\ Head(w) \notin p /\ p' = p \cup {Head(w)} /\ w' = Tail(w) /\ Closing' = Closing
    <3>1. Batches!Perform
      BY <2>1 DEF Batches!Perform, BatchLine, Line, Closing
    <3>2. QED BY <3>1 DEF Batches!Next
  <2>2. CASE Closing' = TRUE /\ w' = w /\ p' = p
    <3>1. Batches!Close
      BY <2>2 DEF Batches!Close, BatchLine, Line, Closing
    <3>2. QED BY <3>1 DEF Batches!Next
  <2>3. CASE Closing /\ Len(w') = Len(w) /\ Range(w') = Range(w) /\ p' = p /\ Closing' = Closing
    <3>1. Batches!Shuffle
      BY <2>3 DEF Batches!Shuffle, BatchLine, Line, Closing, Batches!Range, Range
    <3>2. QED BY <3>1 DEF Batches!Next
  <2>4. ASSUME NEW j \in Batch, j \notin p, j \notin Range(w), w' = Append(w, j), p' = p, Closing' = Closing
        PROVE  Batches!Next
    <3>1. Batches!Accept(j)
      BY <2>4 DEF Batches!Accept, Batches!New, BatchLine, Line, Closing, Batches!Range, Range
    <3>2. QED BY <3>1 DEF Batches!Next
  <2>5. ASSUME NEW j \in Batch, Closing, j \notin p, j \notin Range(w), p' = p \cup {j}, w' = w,
               Closing' = Closing
        PROVE  Batches!Next
    <3>1. Batches!PerformNow(j)
      BY <2>5 DEF Batches!PerformNow, Batches!New, BatchLine, Line, Closing,
             Batches!Range, Range
    <3>2. QED BY <3>1 DEF Batches!Next
  <2>6. CASE w' = w /\ p' = p /\ Closing' = Closing
    BY <2>6 DEF Batches!vars, BatchLine, Line, Closing
  <2> HIDE DEF w, p
  <2>7. QED BY <2>0, <2>1, <2>2, <2>3, <2>4, <2>5, <2>6 DEF QueueStep
<1>3. QED BY <1>1, <1>2

\* The steps of a line, one by one; P is what is performed of all jobs.
LEMMA LineAccepts ==
  ASSUME NEW S, None \notin S, NEW h \in S \cup {None}, NEW m, NEW q \in Seq(S), NEW P, NEW c,
         NEW j \in S, j \notin P, j \notin InLine(h, m, S, q)
  PROVE  QueueStep(S, Line(h, m, S, q), Line(h, m, S, Append(q, j)), P \cap S, P \cap S, c, c)
<1>1. Range(Line(h, m, S, q)) = InLine(h, m, S, q)
  BY LineType
<1>2. Line(h, m, S, Append(q, j)) = Append(Line(h, m, S, q), j)
  BY LinePush
<1>3. QED BY <1>1, <1>2 DEF QueueStep

LEMMA LinePerformsNow ==
  ASSUME NEW S, None \notin S, NEW h \in S \cup {None}, NEW m, NEW q \in Seq(S), NEW P, NEW c,
         c, NEW j \in S, j \notin P, j \notin InLine(h, m, S, q)
  PROVE  QueueStep(S, Line(h, m, S, q), Line(h, m, S, q), P \cap S, (P \cup {j}) \cap S, c, c)
<1>1. Range(Line(h, m, S, q)) = InLine(h, m, S, q)
  BY LineType
<1>2. (P \cup {j}) \cap S = (P \cap S) \cup {j} /\ j \notin P \cap S
  OBVIOUS
<1>3. QED BY <1>1, <1>2 DEF QueueStep

LEMMA LinePerforms ==
  ASSUME NEW S, None \notin S, NEW h \in S, NEW m, NEW q \in Seq(S), NEW P, NEW c, h \notin P
  PROVE  QueueStep(S, Line(h, m, S, q), Line(None, m, S, q), P \cap S, (P \cup {h}) \cap S, c, c)
<1>1. (P \cup {h}) \cap S = (P \cap S) \cup {h} /\ h \notin P \cap S
  OBVIOUS
<1>2. /\ Line(h, m, S, q) # <<>> /\ Head(Line(h, m, S, q)) = h
      /\ Tail(Line(h, m, S, q)) = Line(None, m, S, q)
  BY LineSend
<1>3. QED BY <1>1, <1>2 DEF QueueStep

LEMMA LineTakes ==
  ASSUME NEW S, None \notin S, NEW m, NEW q \in Seq(S), NEW P, NEW c, q # <<>>, m \in S => c
  PROVE  QueueStep(S, Line(None, m, S, q), Line(Head(q), m, S, Tail(q)), P \cap S, P \cap S, c, c)
<1>1. /\ m \notin S => Line(Head(q), m, S, Tail(q)) = Line(None, m, S, q)
      /\ Len(Line(Head(q), m, S, Tail(q))) = Len(Line(None, m, S, q))
      /\ Range(Line(Head(q), m, S, Tail(q))) = Range(Line(None, m, S, q))
  BY LinePop
<1>2. QED BY <1>1 DEF QueueStep

LEMMA LineGivesOut ==
  ASSUME NEW S, None \notin S, NEW h \in S \cup {None}, NEW m, NEW q \in Seq(S), NEW P, NEW c,
         m \notin S, q # <<>>
  PROVE  QueueStep(S, Line(h, m, S, q), Line(h, Head(q), S, Tail(q)), P \cap S, P \cap S, c, c)
<1>1. Line(h, Head(q), S, Tail(q)) = Line(h, m, S, q)
  BY LinePop, ZenonT(30)
<1>2. QED BY <1>1 DEF QueueStep

LEMMA LineTakesBack ==
  ASSUME NEW S, None \notin S, NEW h \in S \cup {None}, NEW m \in S, NEW q \in Seq(S), NEW P,
         NEW c, c
  PROVE  QueueStep(S, Line(h, m, S, q), Line(h, None, S, Append(q, m)), P \cap S, P \cap S, c, c)
BY LineReturn DEF QueueStep

LEMMA QueueFacts ==
  ASSUME DatabaseAssumption, Typed
  PROVE  /\ None \notin Query /\ None \notin Batch /\ Query \cap Batch = {} /\ Job = Query \cup Batch
         /\ queries_queue \in Seq(Query) /\ query_buffer \in Seq(Batch)
         /\ Range(queries_queue) \subseteq Query /\ Range(query_buffer) \subseteq Batch
         /\ exec.job \in Query \cup {None} /\ buff.job \in Batch \cup {None}
         /\ main.job \in Job \cup {None}
         /\ \A c \in Caller : call[c].job \in Job \cup {None}
BY RangeOfQueue DEF DatabaseAssumption, Typed, Job

LEMMA OnceInit == DatabaseAssumption /\ Init => Once /\ Queries!Init /\ Batches!Init
<1> SUFFICES ASSUME DatabaseAssumption, Init PROVE Once /\ Queries!Init /\ Batches!Init
  OBVIOUS
<1>1. /\ exec.job = None /\ buff.job = None /\ main.job = None /\ main.at = "run"
      /\ queries_queue = <<>> /\ query_buffer = <<>> /\ performed = {}
      /\ \A c \in Caller : call[c].job = None
  BY DEF Init
<1>2. Range(<<>>) = {} /\ IsInjective(<<>>)
  BY DEF Range, IsInjective
<1>3. None \notin Query /\ None \notin Batch
  BY DEF DatabaseAssumption
<1>4. Once
  BY <1>1, <1>2, <1>3 DEF Once, Fit, Waiting
<1>5. Hand(None) = <<>> /\ HeldBy(None, Query) = <<>> /\ HeldBy(None, Batch) = <<>>
  BY <1>3 DEF Hand, HeldBy
<1>6. <<>> \o <<>> \o <<>> = <<>>
  OBVIOUS
<1>7. Queries!Init /\ Batches!Init
  BY <1>1, <1>5, <1>6 DEF Queries!Init, Batches!Init
<1>8. QED BY <1>4, <1>7

\* Neither line is touched.
LEMMA LinesStay ==
  ASSUME exec'.job = exec.job, buff'.job = buff.job, main'.job = main.job,
         Closing' = Closing, UNCHANGED <<queries_queue, query_buffer, performed>>
  PROVE  QStep /\ BStep
BY DEF QStep, BStep, QueueStep, QueryLine, BatchLine

LEMMA OnceEnter ==
  ASSUME DatabaseAssumption, IInv, Once, NEW c \in Caller, NEW a \in {"push", "get"},
         NEW j \in Job \cup {None}, Enter(c, a, j), j # None => ~Brought(j),
         a = "get" /\ main.at = "run" => j = None
  PROVE  Once' /\ QStep /\ BStep
<1>1. /\ UNCHANGED <<queries_queue, query_buffer, exec, buff, main, performed>>
      /\ call'[c].at = a /\ call'[c].job = j /\ \A d \in Caller \ {c} : call'[d] = call[d]
  BY DEF Enter, IInv, Typed
<1>2. QStep /\ BStep
  BY <1>1, LinesStay DEF Closing
<1>3. j # None => /\ j \notin performed \cup Waiting
                  /\ \A d \in Caller : call[d].job # j
  BY DEF Brought, Waiting
<1>4. Once'
  BY <1>1, <1>3 DEF Once, Waiting, Fit
<1>5. QED BY <1>2, <1>4

LEMMA OncePushQuery ==
  ASSUME DatabaseAssumption, IInv, Once, NEW c \in Caller, call[c].at = "push",
         call[c].job \in Query, Push(c)
  PROVE  Once' /\ QStep /\ BStep
<1> DEFINE j == call[c].job
<1>0. /\ UNCHANGED <<exec, buff, main, performed, query_buffer>> /\ queries_queue' = Append(queries_queue, j)
      /\ call'[c].at = "idle" /\ call'[c].job = None
      /\ \A d \in Caller \ {c} : call'[d] = call[d]
  BY QueueFacts DEF Push, IInv, Typed
<1>1. j # None /\ j \notin Batch /\ Closing' = Closing
  BY <1>0, QueueFacts DEF IInv, Closing
<1>2. j \notin performed \cup Waiting /\ \A d \in Caller \ {c} : call[d].job # j
  BY <1>1 DEF Once
<1>3. Fit(exec.job, main.job, Query, queries_queue')
  BY <1>0, <1>1, <1>2, FitPush, QueueFacts DEF Once, Waiting, IInv
<1>4. Range(queries_queue') = Range(queries_queue) \cup {j}
  BY <1>0, RangeOfPushed, QueueFacts DEF IInv
<1>5. Once'
  BY <1>0, <1>1, <1>2, <1>3, <1>4 DEF Once, Waiting
<1>6. QueueStep(Query, QueryLine, Line(exec.job, main.job, Query, Append(queries_queue, j)),
                performed \cap Query, performed \cap Query, Closing, Closing)
  <2>1. j \notin InLine(exec.job, main.job, Query, queries_queue)
    BY <1>1, <1>2 DEF InLine, Waiting
  <2>2. /\ None \notin Query /\ exec.job \in Query \cup {None} /\ queries_queue \in Seq(Query)
        /\ j \notin performed
    BY <1>2, QueueFacts DEF IInv
  <2>3. QED BY <2>1, <2>2, LineAccepts DEF QueryLine
<1>7. QStep
  BY <1>0, <1>1, <1>6 DEF QStep, QueryLine
<1>8. BStep
  BY <1>0, <1>1 DEF BStep, QueueStep, BatchLine
<1>9. QED BY <1>5, <1>7, <1>8

LEMMA OncePushBuffer ==
  ASSUME DatabaseAssumption, IInv, Once, NEW c \in Caller, call[c].at = "push",
         call[c].job \in Batch, Push(c)
  PROVE  Once' /\ QStep /\ BStep
<1> DEFINE j == call[c].job
<1>0. /\ UNCHANGED <<exec, buff, main, performed, queries_queue>> /\ query_buffer' = Append(query_buffer, j)
      /\ call'[c].at = "idle" /\ call'[c].job = None
      /\ \A d \in Caller \ {c} : call'[d] = call[d]
  BY QueueFacts DEF Push, IInv, Typed
<1>1. j # None /\ j \notin Query /\ Closing' = Closing
  BY <1>0, QueueFacts DEF IInv, Closing
<1>2. j \notin performed \cup Waiting /\ \A d \in Caller \ {c} : call[d].job # j
  BY <1>1 DEF Once
<1>3. Fit(buff.job, main.job, Batch, query_buffer')
  BY <1>0, <1>1, <1>2, FitPush, QueueFacts DEF Once, Waiting, IInv
<1>4. Range(query_buffer') = Range(query_buffer) \cup {j}
  BY <1>0, RangeOfPushed, QueueFacts DEF IInv
<1>5. Once'
  BY <1>0, <1>1, <1>2, <1>3, <1>4 DEF Once, Waiting
<1>6. QueueStep(Batch, BatchLine, Line(buff.job, main.job, Batch, Append(query_buffer, j)),
                performed \cap Batch, performed \cap Batch, Closing, Closing)
  <2>1. j \notin InLine(buff.job, main.job, Batch, query_buffer)
    BY <1>1, <1>2 DEF InLine, Waiting
  <2>2. /\ None \notin Batch /\ buff.job \in Batch \cup {None} /\ query_buffer \in Seq(Batch)
        /\ j \notin performed
    BY <1>2, QueueFacts DEF IInv
  <2>3. QED BY <2>1, <2>2, LineAccepts DEF BatchLine
<1>7. BStep
  BY <1>0, <1>1, <1>6 DEF BStep, BatchLine
<1>8. QStep
  BY <1>0, <1>1 DEF QStep, QueueStep, QueryLine
<1>9. QED BY <1>5, <1>7, <1>8

LEMMA OnceNowQuery ==
  ASSUME DatabaseAssumption, IInv, Once, NEW c \in Caller, call[c].at = "send",
         call[c].job \in Query, CallSends(c)
  PROVE  Once' /\ QStep /\ BStep
<1> DEFINE j == call[c].job
<1>0. /\ UNCHANGED <<exec, buff, main, queries_queue, query_buffer>>
      /\ performed' = performed \cup ({j} \ {None})
      /\ call'[c].at = "idle" /\ call'[c].job = None
      /\ \A d \in Caller \ {c} : call'[d] = call[d]
  BY DEF CallSends, Do, IInv, Typed
<1>1. /\ j # None /\ j \notin Batch /\ Closing /\ Closing' = Closing
      /\ performed' = performed \cup {j}
  BY <1>0, QueueFacts DEF IInv, Closing, Once
<1>2. j \notin performed \cup Waiting /\ \A d \in Caller \ {c} : call[d].job # j
  BY <1>1 DEF Once
<1>3. Once'
  BY <1>0, <1>1, <1>2 DEF Once, Waiting
<1>4. QueueStep(Query, QueryLine, QueryLine, performed \cap Query,
                (performed \cup {j}) \cap Query, Closing, Closing)
  <2>1. j \notin InLine(exec.job, main.job, Query, queries_queue)
    BY <1>1, <1>2 DEF InLine, Waiting
  <2>2. /\ None \notin Query /\ exec.job \in Query \cup {None} /\ queries_queue \in Seq(Query)
        /\ j \notin performed
    BY <1>2, QueueFacts DEF IInv
  <2>3. QED BY <1>1, <2>1, <2>2, LinePerformsNow DEF QueryLine
<1>5. QStep
  BY <1>0, <1>1, <1>4 DEF QStep, QueryLine
<1>6. performed' \cap Batch = performed \cap Batch
  BY <1>1
<1>7. BStep
  BY <1>0, <1>1, <1>6 DEF BStep, QueueStep, BatchLine
<1>8. QED BY <1>3, <1>5, <1>7

LEMMA OnceNowBuffer ==
  ASSUME DatabaseAssumption, IInv, Once, NEW c \in Caller, call[c].at = "send",
         call[c].job \in Batch, CallSends(c)
  PROVE  Once' /\ QStep /\ BStep
<1> DEFINE j == call[c].job
<1>0. /\ UNCHANGED <<exec, buff, main, queries_queue, query_buffer>>
      /\ performed' = performed \cup ({j} \ {None})
      /\ call'[c].at = "idle" /\ call'[c].job = None
      /\ \A d \in Caller \ {c} : call'[d] = call[d]
  BY DEF CallSends, Do, IInv, Typed
<1>1. /\ j # None /\ j \notin Query /\ Closing /\ Closing' = Closing
      /\ performed' = performed \cup {j}
  BY <1>0, QueueFacts DEF IInv, Closing, Once
<1>2. j \notin performed \cup Waiting /\ \A d \in Caller \ {c} : call[d].job # j
  BY <1>1 DEF Once
<1>3. Once'
  BY <1>0, <1>1, <1>2 DEF Once, Waiting
<1>4. QueueStep(Batch, BatchLine, BatchLine, performed \cap Batch,
                (performed \cup {j}) \cap Batch, Closing, Closing)
  <2>1. j \notin InLine(buff.job, main.job, Batch, query_buffer)
    BY <1>1, <1>2 DEF InLine, Waiting
  <2>2. /\ None \notin Batch /\ buff.job \in Batch \cup {None} /\ query_buffer \in Seq(Batch)
        /\ j \notin performed
    BY <1>2, QueueFacts DEF IInv
  <2>3. QED BY <1>1, <2>1, <2>2, LinePerformsNow DEF BatchLine
<1>5. BStep
  BY <1>0, <1>1, <1>4 DEF BStep, BatchLine
<1>6. performed' \cap Query = performed \cap Query
  BY <1>1
<1>7. QStep
  BY <1>0, <1>1, <1>6 DEF QStep, QueueStep, QueryLine
<1>8. QED BY <1>3, <1>5, <1>7

\* A push is Accept; a caller that performs its own job does so after EndThreads began.
LEMMA OnceCall ==
  ASSUME DatabaseAssumption, IInv, Once, NEW c \in Caller, CallStep(c)
  PROVE  Once' /\ QStep /\ BStep
<1>0. call \in [Caller -> [at : CallAt, job : Job \cup {None}]] /\ Job = Query \cup Batch
  BY DEF IInv, Typed, Job
<1>1. CASE Push(c)
  <2>1. call[c].at = "push" /\ call[c].job \in Query \cup Batch
    BY <1>0, <1>1 DEF Push, IInv, Typed
  <2>2. QED BY <1>1, <2>1, OncePushQuery, OncePushBuffer
<1>2. CASE CallGets(c)
  <2>1. /\ call[c].at = "get" /\ call'[c].at = "send" /\ call'[c].job = call[c].job
        /\ UNCHANGED <<queries_queue, query_buffer, performed, exec, buff, main>>
        /\ \A d \in Caller \ {c} : call'[d] = call[d]
    BY <1>0, <1>2 DEF CallGets
  <2>2. QStep /\ BStep
    BY <2>1, LinesStay DEF Closing
  <2>3. Once'
    BY <2>1 DEF Once, Waiting
  <2>4. QED BY <2>2, <2>3
<1>3. CASE CallSends(c)
  <2>1. call[c].at = "send"
    BY <1>3 DEF CallSends
  <2>2. CASE call[c].job # None
    BY <1>0, <1>3, <2>1, <2>2, OnceNowQuery, OnceNowBuffer
  <2>3. CASE call[c].job = None
    <3>1. /\ call'[c].at = "idle" /\ call'[c].job = None
          /\ UNCHANGED <<queries_queue, query_buffer, performed, exec, buff, main>>
          /\ \A d \in Caller \ {c} : call'[d] = call[d]
      BY <1>0, <1>3, <2>3 DEF CallSends, Do
    <3>2. QStep /\ BStep
      BY <3>1, LinesStay DEF Closing
    <3>3. Once'
      BY <3>1 DEF Once, Waiting
    <3>4. QED BY <3>2, <3>3
  <2>4. QED BY <2>2, <2>3
<1>4. QED BY <1>1, <1>2, <1>3 DEF CallStep

\* What the execute thread does to its line: nothing, or it takes the first, or performs it.
LEMMA ExecKinds ==
  ASSUME DatabaseAssumption, IInv, ExecStep
  PROVE  /\ UNCHANGED <<query_buffer, call, buff, main>>
         /\ \/ exec'.job = exec.job /\ UNCHANGED <<queries_queue, performed>>
            \/ /\ exec.job = None /\ queries_queue # <<>>
               /\ exec'.job = Head(queries_queue) /\ queries_queue' = Tail(queries_queue)
               /\ UNCHANGED performed
            \/ /\ exec.job # None /\ exec'.job = None
               /\ performed' = performed \cup {exec.job} /\ UNCHANGED queries_queue
<1>0. /\ exec \in [at : LoopAt, job : Query \cup {None}, last : BOOLEAN]
      /\ exec.at \notin {"get", "send"} => exec.job = None
  BY DEF IInv, Typed, Owed
<1>1. CASE ExecFirst
  <2>1. CASE queries_queue = <<>>
    BY <1>0, <1>1, <2>1 DEF ExecFirst, ExecUnchanged, First, Popped
  <2>2. CASE queries_queue # <<>>
    BY <1>0, <1>1, <2>2 DEF ExecFirst, ExecUnchanged, First, Popped
  <2>3. QED BY <2>1, <2>2
<1>2. CASE ExecGet
  BY <1>0, <1>2 DEF ExecGet, ExecUnchanged
<1>3. CASE ExecSend
  <2>1. CASE exec.job = None
    BY <1>0, <1>3, <2>1 DEF ExecSend, ExecUnchanged, Do
  <2>2. CASE exec.job # None
    BY <1>0, <1>3, <2>2 DEF ExecSend, ExecUnchanged, Do
  <2>3. QED BY <2>1, <2>2
<1>4. CASE ExecTest
  BY <1>0, <1>4 DEF ExecTest, ExecUnchanged
<1>5. CASE ExecPop
  BY <1>0, <1>5 DEF ExecPop, ExecUnchanged
<1>6. CASE ExecIdle
  BY <1>0, <1>6 DEF ExecIdle, ExecUnchanged
<1>7. CASE ExecDrain
  <2>1. CASE queries_queue = <<>>
    BY <1>0, <1>7, <2>1 DEF ExecDrain, ExecUnchanged, First, Popped
  <2>2. CASE queries_queue # <<>>
    BY <1>0, <1>7, <2>2 DEF ExecDrain, ExecUnchanged, First, Popped
  <2>3. QED BY <2>1, <2>2
<1>8. CASE ExecStop
  BY <1>0, <1>8 DEF ExecStop, ExecUnchanged
<1>9. QED BY <1>1, <1>2, <1>3, <1>4, <1>5, <1>6, <1>7, <1>8 DEF ExecStep

LEMMA OnceExec ==
  ASSUME DatabaseAssumption, IInv, Once, ExecStep
  PROVE  Once' /\ QStep /\ BStep
<1>0. UNCHANGED <<query_buffer, call, buff, main>> /\ Closing' = Closing /\ Closing \in BOOLEAN
  BY ExecKinds DEF Closing
<1>1. CASE exec'.job = exec.job /\ UNCHANGED <<queries_queue, performed>>
  <2>1. QStep /\ BStep
    BY <1>0, <1>1, LinesStay
  <2>2. Once'
    BY <1>0, <1>1 DEF Once, Waiting
  <2>3. QED BY <2>1, <2>2
<1>2. CASE /\ exec.job = None /\ queries_queue # <<>>
           /\ exec'.job = Head(queries_queue) /\ queries_queue' = Tail(queries_queue)
           /\ UNCHANGED performed
  <2>1. Fit(exec'.job, main.job, Query, queries_queue')
    BY <1>2, FitPop, QueueFacts DEF Once, IInv
  <2>2. /\ Range(queries_queue) = {Head(queries_queue)} \cup Range(queries_queue') /\ Head(queries_queue) \in Query
        /\ Head(queries_queue) # None
    BY <1>2, RangeOfRest, QueueFacts DEF IInv
  <2>3. Waiting' = Waiting
    BY <1>0, <1>2, <2>2 DEF Waiting
  <2>4. Once'
    BY <1>0, <1>2, <2>1, <2>3 DEF Once
  <2>5. main.job \in Query => Closing
    BY QueueFacts DEF Once, Closing, IInv
  <2>6. QStep
    <3>1. None \notin Query /\ queries_queue \in Seq(Query)
      BY QueueFacts DEF IInv
    <3>2. QueueStep(Query, QueryLine, QueryLine', performed \cap Query, performed \cap Query,
                    Closing, Closing)
      BY <1>0, <1>2, <2>5, <3>1, LineTakes DEF QueryLine
    <3>3. QED BY <1>0, <1>2, <3>2 DEF QStep
  <2>7. BStep
    BY <1>0, <1>2 DEF BStep, QueueStep, BatchLine
  <2>8. QED BY <2>4, <2>6, <2>7
<1>3. CASE /\ exec.job # None /\ exec'.job = None
           /\ performed' = performed \cup {exec.job} /\ UNCHANGED queries_queue
  <2>1. /\ exec.job \in Query /\ exec.job \notin Batch /\ exec.job \in Waiting
        /\ exec.job \notin performed
    BY <1>3, QueueFacts DEF IInv, Once, Waiting
  <2>2. exec.job \notin Waiting'
    BY <1>0, <1>3, <2>1, QueueFacts DEF Once, Fit, Waiting, IInv
  <2>3. Waiting' \subseteq Waiting
    BY <1>0, <1>3 DEF Waiting
  <2>4. Fit(exec'.job, main.job, Query, queries_queue')
    <3>1. main.job \in Query => main.job # None
      BY QueueFacts DEF IInv
    <3>2. QED BY <1>3, <3>1 DEF Once, Fit
  <2>5. Once'
    BY <1>0, <1>3, <2>1, <2>2, <2>3, <2>4 DEF Once
  <2>6. QStep
    <3>1. None \notin Query /\ queries_queue \in Seq(Query)
      BY QueueFacts DEF IInv
    <3>2. QueueStep(Query, QueryLine, QueryLine', performed \cap Query,
                    (performed \cup {exec.job}) \cap Query, Closing, Closing)
      BY <1>0, <1>3, <2>1, <3>1, LinePerforms DEF QueryLine
    <3>3. QED BY <1>0, <1>3, <3>2 DEF QStep
  <2>7. performed' \cap Batch = performed \cap Batch
    BY <1>3, <2>1
  <2>8. BStep
    BY <1>0, <1>3, <2>7 DEF BStep, QueueStep, BatchLine
  <2>9. QED BY <2>5, <2>6, <2>8
<1>4. QED BY <1>1, <1>2, <1>3, ExecKinds

\* What the query-buffer thread does to its line: nothing, or it takes the first, or performs it.
LEMMA BuffKinds ==
  ASSUME DatabaseAssumption, IInv, BuffStep
  PROVE  /\ UNCHANGED <<queries_queue, call, exec, main>>
         /\ \/ buff'.job = buff.job /\ UNCHANGED <<query_buffer, performed>>
            \/ /\ buff.job = None /\ query_buffer # <<>>
               /\ buff'.job = Head(query_buffer) /\ query_buffer' = Tail(query_buffer)
               /\ UNCHANGED performed
            \/ /\ buff.job # None /\ buff'.job = None
               /\ performed' = performed \cup {buff.job} /\ UNCHANGED query_buffer
<1>0. /\ buff \in [at : LoopAt, job : Batch \cup {None}, last : BOOLEAN]
      /\ buff.at \notin {"get", "send"} => buff.job = None
  BY DEF IInv, Typed, Owed
<1>1. CASE BuffGet
  BY <1>0, <1>1 DEF BuffGet, BuffUnchanged
<1>2. CASE BuffPop
  BY <1>0, <1>2 DEF BuffPop, BuffUnchanged
<1>3. CASE BuffIdle
  BY <1>0, <1>3 DEF BuffIdle, BuffUnchanged
<1>4. CASE BuffSend
  <2>1. CASE buff.job = None
    BY <1>0, <1>4, <2>1 DEF BuffSend, BuffUnchanged, Do
  <2>2. CASE buff.job # None
    BY <1>0, <1>4, <2>2 DEF BuffSend, BuffUnchanged, Do
  <2>3. QED BY <2>1, <2>2
<1>5. CASE BuffTest
  BY <1>0, <1>5 DEF BuffTest, BuffUnchanged
<1>6. CASE BuffDrain
  <2>1. CASE query_buffer = <<>>
    BY <1>0, <1>6, <2>1 DEF BuffDrain, BuffUnchanged, First, Popped
  <2>2. CASE query_buffer # <<>>
    BY <1>0, <1>6, <2>2 DEF BuffDrain, BuffUnchanged, First, Popped
  <2>3. QED BY <2>1, <2>2
<1>7. CASE BuffStop
  BY <1>0, <1>7 DEF BuffStop, BuffUnchanged
<1>8. QED BY <1>1, <1>2, <1>3, <1>4, <1>5, <1>6, <1>7 DEF BuffStep

LEMMA OnceBuff ==
  ASSUME DatabaseAssumption, IInv, Once, BuffStep
  PROVE  Once' /\ QStep /\ BStep
<1>0. UNCHANGED <<queries_queue, call, exec, main>> /\ Closing' = Closing /\ Closing \in BOOLEAN
  BY BuffKinds DEF Closing
<1>1. CASE buff'.job = buff.job /\ UNCHANGED <<query_buffer, performed>>
  <2>1. QStep /\ BStep
    BY <1>0, <1>1, LinesStay
  <2>2. Once'
    BY <1>0, <1>1 DEF Once, Waiting
  <2>3. QED BY <2>1, <2>2
<1>2. CASE /\ buff.job = None /\ query_buffer # <<>>
           /\ buff'.job = Head(query_buffer) /\ query_buffer' = Tail(query_buffer)
           /\ UNCHANGED performed
  <2>1. Fit(buff'.job, main.job, Batch, query_buffer')
    BY <1>2, FitPop, QueueFacts DEF Once, IInv
  <2>2. /\ Range(query_buffer) = {Head(query_buffer)} \cup Range(query_buffer') /\ Head(query_buffer) \in Batch
        /\ Head(query_buffer) # None
    BY <1>2, RangeOfRest, QueueFacts DEF IInv
  <2>3. Waiting' = Waiting
    BY <1>0, <1>2, <2>2 DEF Waiting
  <2>4. Once'
    BY <1>0, <1>2, <2>1, <2>3 DEF Once
  <2>5. main.job \in Batch => Closing
    BY QueueFacts DEF Once, Closing, IInv
  <2>6. BStep
    <3>1. None \notin Batch /\ query_buffer \in Seq(Batch)
      BY QueueFacts DEF IInv
    <3>2. QueueStep(Batch, BatchLine, BatchLine', performed \cap Batch, performed \cap Batch,
                    Closing, Closing)
      BY <1>0, <1>2, <2>5, <3>1, LineTakes DEF BatchLine
    <3>3. QED BY <1>0, <1>2, <3>2 DEF BStep
  <2>7. QStep
    BY <1>0, <1>2 DEF QStep, QueueStep, QueryLine
  <2>8. QED BY <2>4, <2>6, <2>7
<1>3. CASE /\ buff.job # None /\ buff'.job = None
           /\ performed' = performed \cup {buff.job} /\ UNCHANGED query_buffer
  <2>1. /\ buff.job \in Batch /\ buff.job \notin Query /\ buff.job \in Waiting
        /\ buff.job \notin performed
    BY <1>3, QueueFacts DEF IInv, Once, Waiting
  <2>2. buff.job \notin Waiting'
    BY <1>0, <1>3, <2>1, QueueFacts DEF Once, Fit, Waiting, IInv
  <2>3. Waiting' \subseteq Waiting
    BY <1>0, <1>3 DEF Waiting
  <2>4. Fit(buff'.job, main.job, Batch, query_buffer')
    <3>1. main.job \in Batch => main.job # None
      BY QueueFacts DEF IInv
    <3>2. QED BY <1>3, <3>1 DEF Once, Fit
  <2>5. Once'
    BY <1>0, <1>3, <2>1, <2>2, <2>3, <2>4 DEF Once
  <2>6. BStep
    <3>1. None \notin Batch /\ query_buffer \in Seq(Batch)
      BY QueueFacts DEF IInv
    <3>2. QueueStep(Batch, BatchLine, BatchLine', performed \cap Batch,
                    (performed \cup {buff.job}) \cap Batch, Closing, Closing)
      BY <1>0, <1>3, <2>1, <3>1, LinePerforms DEF BatchLine
    <3>3. QED BY <1>0, <1>3, <3>2 DEF BStep
  <2>7. performed' \cap Query = performed \cap Query
    BY <1>3, <2>1
  <2>8. QStep
    BY <1>0, <1>3, <2>7 DEF QStep, QueueStep, QueryLine
  <2>9. QED BY <2>5, <2>6, <2>8
<1>4. QED BY <1>1, <1>2, <1>3, BuffKinds

\* EndThreads takes a job out of a queue, and puts it back.
LEMMA OnceOutBuffer ==
  ASSUME DatabaseAssumption, IInv, Once, main.job = None, Closing, Closing', query_buffer # <<>>,
         main'.at \in {"pushB", "pushQ"}, main'.job = Head(query_buffer), query_buffer' = Tail(query_buffer),
         UNCHANGED <<queries_queue, call, exec, buff, performed>>
  PROVE  Once' /\ QStep /\ BStep
<1>0. Closing \in BOOLEAN /\ Closing' = Closing
  BY DEF Closing
<1>1. /\ Range(query_buffer) = {Head(query_buffer)} \cup Range(query_buffer') /\ Head(query_buffer) \in Batch
      /\ Head(query_buffer) # None /\ Head(query_buffer) \notin Query
  BY RangeOfRest, QueueFacts DEF IInv
<1>2. Fit(buff.job, main'.job, Batch, query_buffer')
  BY FitPop, QueueFacts DEF Once, IInv
<1>3. Fit(exec.job, main'.job, Query, queries_queue)
  BY <1>1 DEF Once, Fit
<1>4. Waiting' = Waiting
  BY <1>1 DEF Waiting
<1>5. Once'
  <2>1. main'.at # "run"
    OBVIOUS
  <2>2. QED BY <1>2, <1>3, <1>4, <2>1 DEF Once
<1>6. BStep
  BY <1>0, LineGivesOut, QueueFacts DEF IInv, BStep, BatchLine
<1>7. QStep
  <2>1. HeldBy(main.job, Query) = HeldBy(main'.job, Query)
    BY <1>1, QueueFacts DEF HeldBy, IInv
  <2>2. QED BY <1>0, <2>1 DEF QStep, QueueStep, QueryLine, Line
<1>8. QED BY <1>5, <1>6, <1>7

LEMMA OnceBackBuffer ==
  ASSUME DatabaseAssumption, IInv, Once, main.job \in Batch, Closing, Closing',
         main'.job = None, query_buffer' = Append(query_buffer, main.job),
         UNCHANGED <<queries_queue, call, exec, buff, performed>>
  PROVE  Once' /\ QStep /\ BStep
<1>0. Closing \in BOOLEAN /\ Closing' = Closing
  BY DEF Closing
<1>1. Range(query_buffer') = Range(query_buffer) \cup {main.job} /\ main.job # None /\ main.job \notin Query
  BY RangeOfPushed, QueueFacts DEF IInv
<1>2. main.job \notin Range(query_buffer) /\ main.job # buff.job
  BY DEF Once, Fit
<1>3. Fit(buff.job, main'.job, Batch, query_buffer')
  <2>1. Fit(buff.job, None, Batch, query_buffer)
    BY QueueFacts DEF Once, Fit, IInv
  <2>2. QED BY <1>1, <1>2, <2>1, FitPush, QueueFacts DEF IInv
<1>4. Fit(exec.job, main'.job, Query, queries_queue)
  BY QueueFacts DEF Once, Fit, IInv
<1>5. Waiting' = Waiting
  BY <1>1 DEF Waiting
<1>6. Once'
  <2>1. main'.at # "run"
    BY DEF Closing
  <2>2. QED BY <1>3, <1>4, <1>5, <2>1 DEF Once
<1>7. BStep
  BY <1>0, LineTakesBack, QueueFacts DEF IInv, BStep, BatchLine
<1>8. QStep
  <2>1. HeldBy(main.job, Query) = HeldBy(main'.job, Query)
    BY <1>1, QueueFacts DEF HeldBy, IInv
  <2>2. QED BY <1>0, <2>1 DEF QStep, QueueStep, QueryLine, Line
<1>9. QED BY <1>6, <1>7, <1>8

\* EndThreads takes a job out of a queue, and puts it back.
LEMMA OnceOutQuery ==
  ASSUME DatabaseAssumption, IInv, Once, main.job = None, Closing, Closing', queries_queue # <<>>,
         main'.at \in {"pushB", "pushQ"}, main'.job = Head(queries_queue), queries_queue' = Tail(queries_queue),
         UNCHANGED <<query_buffer, call, exec, buff, performed>>
  PROVE  Once' /\ QStep /\ BStep
<1>0. Closing \in BOOLEAN /\ Closing' = Closing
  BY DEF Closing
<1>1. /\ Range(queries_queue) = {Head(queries_queue)} \cup Range(queries_queue') /\ Head(queries_queue) \in Query
      /\ Head(queries_queue) # None /\ Head(queries_queue) \notin Batch
  BY RangeOfRest, QueueFacts DEF IInv
<1>2. Fit(exec.job, main'.job, Query, queries_queue')
  BY FitPop, QueueFacts DEF Once, IInv
<1>3. Fit(buff.job, main'.job, Batch, query_buffer)
  BY <1>1 DEF Once, Fit
<1>4. Waiting' = Waiting
  BY <1>1 DEF Waiting
<1>5. Once'
  <2>1. main'.at # "run"
    OBVIOUS
  <2>2. QED BY <1>2, <1>3, <1>4, <2>1 DEF Once
<1>6. QStep
  BY <1>0, LineGivesOut, QueueFacts DEF IInv, QStep, QueryLine
<1>7. BStep
  <2>1. HeldBy(main.job, Batch) = HeldBy(main'.job, Batch)
    BY <1>1, QueueFacts DEF HeldBy, IInv
  <2>2. QED BY <1>0, <2>1 DEF BStep, QueueStep, BatchLine, Line
<1>8. QED BY <1>5, <1>6, <1>7

LEMMA OnceBackQuery ==
  ASSUME DatabaseAssumption, IInv, Once, main.job \in Query, Closing, Closing',
         main'.job = None, queries_queue' = Append(queries_queue, main.job),
         UNCHANGED <<query_buffer, call, exec, buff, performed>>
  PROVE  Once' /\ QStep /\ BStep
<1>0. Closing \in BOOLEAN /\ Closing' = Closing
  BY DEF Closing
<1>1. Range(queries_queue') = Range(queries_queue) \cup {main.job} /\ main.job # None /\ main.job \notin Batch
  BY RangeOfPushed, QueueFacts DEF IInv
<1>2. main.job \notin Range(queries_queue) /\ main.job # exec.job
  BY DEF Once, Fit
<1>3. Fit(exec.job, main'.job, Query, queries_queue')
  <2>1. Fit(exec.job, None, Query, queries_queue)
    BY QueueFacts DEF Once, Fit, IInv
  <2>2. QED BY <1>1, <1>2, <2>1, FitPush, QueueFacts DEF IInv
<1>4. Fit(buff.job, main'.job, Batch, query_buffer)
  BY QueueFacts DEF Once, Fit, IInv
<1>5. Waiting' = Waiting
  BY <1>1 DEF Waiting
<1>6. Once'
  <2>1. main'.at # "run"
    BY DEF Closing
  <2>2. QED BY <1>3, <1>4, <1>5, <2>1 DEF Once
<1>7. QStep
  BY <1>0, LineTakesBack, QueueFacts DEF IInv, QStep, QueryLine
<1>8. BStep
  <2>1. HeldBy(main.job, Batch) = HeldBy(main'.job, Batch)
    BY <1>1, QueueFacts DEF HeldBy, IInv
  <2>2. QED BY <1>0, <2>1 DEF BStep, QueueStep, BatchLine, Line
<1>9. QED BY <1>6, <1>7, <1>8

\* The other steps of Master::Run leave the queues alone.
LEMMA OnceElse ==
  ASSUME IInv, Once, main'.job = main.job, main.at \notin {"pushB", "pushQ"},
         main'.at \notin {"pushB", "pushQ"}, Closing',
         UNCHANGED <<queries_queue, query_buffer, call, exec, buff, performed>>
  PROVE  Once' /\ QStep /\ BStep
<1>1. Once'
  BY DEF Once, Waiting, Closing
<1>2. (Closing') = TRUE
  BY DEF Closing
<1>3. QStep /\ BStep
  BY <1>2 DEF QStep, BStep, QueueStep, QueryLine, BatchLine
<1>4. QED BY <1>1, <1>3

LEMMA OnceMain ==
  ASSUME DatabaseAssumption, IInv, Once, EndThreads \/ EndStep \/ PoolShutdown \/ StopDB
  PROVE  Once' /\ QStep /\ BStep
<1>0. main \in [at : MainAt, job : Job \cup {None}]
  BY DEF IInv, Typed
<1>1. CASE EndThreads
  BY <1>0, <1>1, OnceElse DEF EndThreads, MainUnchanged, Closing
<1>2. CASE RotateBuffers
  <2>1. main.at = "popB" /\ main.job = None /\ Closing
    BY <1>2 DEF RotateBuffers, Once, Closing
  <2>2. CASE query_buffer = <<>>
    BY <1>2, <2>1, <2>2, OnceElse DEF RotateBuffers, MainUnchanged, Closing, First, Popped
  <2>3. CASE query_buffer # <<>>
    BY <1>2, <2>1, <2>3, OnceOutBuffer DEF RotateBuffers, MainUnchanged, Closing, First, Popped
  <2>4. QED BY <2>2, <2>3
<1>3. CASE ReturnBuffer
  <2>1. main.at = "pushB" /\ main.job \in Batch /\ Closing
    BY <1>3 DEF ReturnBuffer, IInv, Typed, Closing
  <2>2. QED BY <1>3, <2>1, OnceBackBuffer DEF ReturnBuffer, MainUnchanged, Closing
<1>4. CASE RotateQueries
  <2>1. main.at = "popQ" /\ main.job = None /\ Closing
    BY <1>4 DEF RotateQueries, Once, Closing
  <2>2. CASE queries_queue = <<>>
    BY <1>4, <2>1, <2>2, OnceElse DEF RotateQueries, MainUnchanged, Closing, First, Popped
  <2>3. CASE queries_queue # <<>>
    BY <1>4, <2>1, <2>3, OnceOutQuery DEF RotateQueries, MainUnchanged, Closing, First, Popped
  <2>4. QED BY <2>2, <2>3
<1>5. CASE ReturnQuery
  <2>1. main.at = "pushQ" /\ main.job \in Query /\ Closing
    BY <1>5 DEF ReturnQuery, IInv, Typed, Closing
  <2>2. QED BY <1>5, <2>1, OnceBackQuery DEF ReturnQuery, MainUnchanged, Closing
<1>6. CASE SetTerminate
  BY <1>0, <1>6, OnceElse DEF SetTerminate, MainUnchanged, Closing
<1>7. CASE EndReturns
  BY <1>0, <1>7, OnceElse DEF EndReturns, MainUnchanged, Closing
<1>8. CASE PoolShutdown
  BY <1>0, <1>8, OnceElse DEF PoolShutdown, MainUnchanged, Closing
<1>9. CASE StopDB
  BY <1>0, <1>9, OnceElse DEF StopDB, MainUnchanged, Closing
<1>10. QED BY <1>1, <1>2, <1>3, <1>4, <1>5, <1>6, <1>7, <1>8, <1>9 DEF EndStep

LEMMA OnceNext ==
  ASSUME DatabaseAssumption, IInv, Once, [Next]_vars
  PROVE  Once' /\ QStep /\ BStep
<1>1. ASSUME NEW c \in Caller, Execute(c) PROVE Once' /\ QStep /\ BStep
  <2>1. PICK q \in Query : /\ ~Brought(q)
                           /\ Enter(c, IF ThreadRunning THEN "push" ELSE "get", q)
    BY <1>1 DEF Execute
  <2>2. CASE ThreadRunning
    BY <2>1, <2>2, OnceEnter DEF Job
  <2>3. CASE ~ThreadRunning
    <3>1. main.at # "run"
      BY <2>3 DEF IInv, Ended
    <3>2. QED BY <2>1, <2>3, <3>1, OnceEnter DEF Job
  <2>4. QED BY <2>2, <2>3
<1>2. ASSUME NEW c \in Caller, AddQueryBuffer(c) PROVE Once' /\ QStep /\ BStep
  <2>1. PICK b \in Batch : ~Brought(b) /\ Enter(c, IF qt THEN "push" ELSE "get", b)
    BY <1>2 DEF AddQueryBuffer
  <2>2. CASE qt
    BY <2>1, <2>2, OnceEnter DEF Job
  <2>3. CASE ~qt
    <3>1. main.at # "run"
      BY <2>3 DEF IInv, Ended, qt
    <3>2. QED BY <2>1, <2>3, <3>1, OnceEnter DEF Job
  <2>4. QED BY <2>2, <2>3
<1>3. ASSUME NEW c \in Caller, QueryNow(c) PROVE Once' /\ QStep /\ BStep
  BY <1>3, OnceEnter DEF QueryNow
<1>4. ASSUME NEW c \in Caller, CallStep(c) PROVE Once' /\ QStep /\ BStep
  BY <1>4, OnceCall
<1>5. CASE ExecStep \/ BuffStep
  BY <1>5, OnceExec, OnceBuff
<1>6. CASE EndThreads \/ EndStep \/ PoolShutdown \/ StopDB
  BY <1>6, OnceMain
<1>7. CASE UNCHANGED vars
  <2>1. QStep /\ BStep
    BY <1>7, LinesStay DEF vars, Closing
  <2>2. Once'
    BY <1>7 DEF vars, Once, Waiting
  <2>3. QED BY <2>1, <2>2
<1>8. QED BY <1>1, <1>2, <1>3, <1>4, <1>5, <1>6, <1>7 DEF Next

\* The Database implements a JobQueue of statements and one of buffers: no job is performed
\* twice, and before EndThreads each is performed in its turn.
THEOREM DatabaseServesInOrder == Spec => ServesInOrder
<1>1. Init => Once /\ Queries!Init /\ Batches!Init
  BY OnceInit, DatabaseAssumption
<1>2. IInv /\ Once /\ [Next]_vars => Once' /\ [Queries!Next]_Queries!vars /\ [Batches!Next]_Batches!vars
  BY OnceNext, QueueSteps, DatabaseAssumption
<1>3. QED BY <1>1, <1>2, DatabaseInvariant, PTL DEF Spec, ServesInOrder, Queries!Spec, Batches!Spec
=============================================================================
