--------------------------- MODULE DatabaseThreads ---------------------------
(***************************************************************************)
(* The threads of a Database (Database.cpp, Queue.h): callers of Execute,  *)
(* AddQueryBuffer and Query, the execute thread (Database::run), the       *)
(* thread of the query buffers (thread_proc_query), and the thread in      *)
(* Master::Run, which ends them in EndThreads, saves the players, shuts    *)
(* the thread pool down and deletes the Database.                          *)
(*                                                                         *)
(* A step is what lies between two accesses to a queue, to the set of free *)
(* connections, to ThreadRunning, to qt or to the thread state.  Which     *)
(* connection a thread has does not matter, so there is only the set of    *)
(* the threads that have one.  To perform a job is one step here; what it  *)
(* does on its connection is in QueryTransactions.                         *)
(***************************************************************************)
EXTENDS Naturals, Sequences, SequencesExt, FiniteSets

CONSTANTS
  Query,      \* statements for Execute; each is handed over once
  Batch,      \* QueryBuffers; each is handed over once
  Caller,     \* threads that call the Database
  Main,       \* the one of them in Master::Run; the others are of the pool
  Exec, Buff, \* the execute thread and the query-buffer thread
  ConnectionCount,
  None        \* the null pointer

ASSUME DatabaseAssumption ==
  /\ Query \cap Batch = {} /\ None \notin Query \cup Batch
  /\ Main \in Caller /\ {Exec, Buff} \cap Caller = {} /\ Exec # Buff
  /\ ConnectionCount \in Nat

Job    == Query \cup Batch
Thread == Caller \cup {Exec, Buff}

VARIABLES
  queries_queue, query_buffer,   \* the two FQueues
  holding,       \* threads that have acquired a connection
  ThreadRunning,
  terminate,     \* the thread state is THREADSTATE_TERMINATE
  call,          \* [Caller -> [at, job]]: the call a thread is in
  exec, buff,    \* [at, job, last]: where each thread is, the job in its hand,
                 \* and whether it has left its loop
  main,          \* [at, job]: where EndThreads or the shut-down is
  performed,     \* jobs performed
  owed           \* history: jobs not performed yet when the state was set

vars == <<queries_queue, query_buffer, holding, ThreadRunning, terminate, call, exec,
          buff, main, performed, owed>>

CallAt == {"idle", "push", "get", "send"}
LoopAt == {"first", "get", "send", "test", "pop", "drain", "stop", "done"}
MainAt == {"run", "popB", "pushB", "popQ", "pushQ", "set", "wait", "ended", "pooled",
           "deleted"}

TypeOK ==
  /\ queries_queue \in Seq(Query) /\ query_buffer \in Seq(Batch)
  /\ holding \subseteq Thread /\ Cardinality(holding) <= ConnectionCount
  /\ ThreadRunning \in BOOLEAN /\ terminate \in BOOLEAN
  /\ call \in [Caller -> [at : CallAt, job : Job \cup {None}]]
  /\ exec \in [at : LoopAt, job : Query \cup {None}, last : BOOLEAN]
  /\ buff \in [at : LoopAt, job : Batch \cup {None}, last : BOOLEAN]
  /\ main \in [at : MainAt, job : Job \cup {None}]
  /\ performed \subseteq Job /\ owed \subseteq Job

-------------------------------------------------------------------------------
First(s)  == IF s = <<>> THEN None ELSE Head(s)
Popped(s) == IF s = <<>> THEN s ELSE Tail(s)

\* The object of the QueryThread exists: its destructor clears the pointer.
qt == buff.at # "done"

\* GetFreeConnection: it spins until AttemptAcquire succeeds.
Acquire(t) == Cardinality(holding) < ConnectionCount /\ holding' = holding \cup {t}
Release(t) == holding' = holding \ {t}

\* _SendQuery or PerformQueryBuffer, when there is something in hand.
Do(j) == performed' = performed \cup ({j} \ {None})

Init ==
  /\ queries_queue = <<>> /\ query_buffer = <<>> /\ holding = {}
  /\ ThreadRunning = TRUE /\ terminate = FALSE
  /\ call = [c \in Caller |-> [at |-> "idle", job |-> None]]
  /\ exec = [at |-> "first", job |-> None, last |-> FALSE]
  /\ buff = [at |-> "get", job |-> None, last |-> FALSE]
  /\ main = [at |-> "run", job |-> None]
  /\ performed = {} /\ owed = {}

-------------------------------------------------------------------------------
\* Callers.  A thread of the pool calls until ThreadPool.Shutdown has waited for it;
\* Main calls in SaveAllPlayers after EndThreads, and in LogoutPlayers.
MayCall(c) ==
  /\ call[c].at = "idle"
  /\ IF c = Main THEN main.at \in {"ended", "pooled"}
                 ELSE main.at \notin {"pooled", "deleted"}

Brought(j) ==
  \/ j \in performed \cup Range(queries_queue) \cup Range(query_buffer)
  \/ j \in {exec.job, buff.job, main.job} \/ \E c \in Caller : call[c].job = j

Enter(c, a, j) ==
  /\ call' = [call EXCEPT ![c] = [at |-> a, job |-> j]]
  /\ UNCHANGED <<queries_queue, query_buffer, holding, ThreadRunning, terminate, exec,
                 buff, main, performed, owed>>

Execute(c) ==
  \E q \in Query : /\ MayCall(c) /\ ~Brought(q)
                   /\ Enter(c, IF ThreadRunning THEN "push" ELSE "get", q)

AddQueryBuffer(c) ==
  \E b \in Batch : /\ MayCall(c) /\ ~Brought(b)
                   /\ Enter(c, IF qt THEN "push" ELSE "get", b)

\* Query, WaitExecute, EscapeString, AsyncQuery::Perform: the caller does it itself.
QueryNow(c) == MayCall(c) /\ Enter(c, "get", None)

Push(c) ==
  /\ call[c].at = "push"
  /\ call' = [call EXCEPT ![c] = [at |-> "idle", job |-> None]]
  /\ IF call[c].job \in Query
     THEN queries_queue' = Append(queries_queue, call[c].job) /\ UNCHANGED query_buffer
     ELSE query_buffer' = Append(query_buffer, call[c].job) /\ UNCHANGED queries_queue
  /\ UNCHANGED <<holding, ThreadRunning, terminate, exec, buff, main, performed, owed>>

CallGets(c) ==
  /\ call[c].at = "get"
  /\ Acquire(c)
  /\ call' = [call EXCEPT ![c].at = "send"]
  /\ UNCHANGED <<queries_queue, query_buffer, ThreadRunning, terminate, exec, buff, main,
                 performed, owed>>

CallSends(c) ==
  /\ call[c].at = "send"
  /\ Do(call[c].job) /\ Release(c)
  /\ call' = [call EXCEPT ![c] = [at |-> "idle", job |-> None]]
  /\ UNCHANGED <<queries_queue, query_buffer, ThreadRunning, terminate, exec, buff, main,
                 owed>>

-------------------------------------------------------------------------------
\* Database::run.  The first connection is taken even when the queue is empty.
ExecUnchanged == UNCHANGED <<query_buffer, terminate, call, buff, main, owed>>

ExecFirst ==
  /\ exec.at = "first"
  /\ exec' = [exec EXCEPT !.at = "get", !.job = First(queries_queue)]
  /\ queries_queue' = Popped(queries_queue)
  /\ UNCHANGED <<holding, ThreadRunning, performed>> /\ ExecUnchanged

ExecGet ==
  /\ exec.at = "get"
  /\ Acquire(Exec)
  /\ exec' = [exec EXCEPT !.at = "send"]
  /\ UNCHANGED <<queries_queue, ThreadRunning, performed>> /\ ExecUnchanged

ExecSend ==
  /\ exec.at = "send"
  /\ Do(exec.job)
  /\ exec' = [exec EXCEPT !.at = IF exec.last THEN "drain" ELSE "test", !.job = None]
  /\ IF exec.last THEN Release(Exec) ELSE UNCHANGED holding
  /\ UNCHANGED <<queries_queue, ThreadRunning>> /\ ExecUnchanged

ExecTest ==
  /\ exec.at = "test"
  /\ IF terminate
     THEN exec' = [exec EXCEPT !.at = "drain", !.last = TRUE] /\ Release(Exec)
     ELSE exec' = [exec EXCEPT !.at = "pop"] /\ UNCHANGED holding
  /\ UNCHANGED <<queries_queue, ThreadRunning, performed>> /\ ExecUnchanged

\* Mutant: the newest statement first.
PopsNewest ==
  /\ exec.at = "pop" /\ queries_queue # <<>>
  /\ exec' = [exec EXCEPT !.at = IF Exec \in holding THEN "send" ELSE "get",
                          !.job = Last(queries_queue)]
  /\ queries_queue' = Front(queries_queue)
  /\ UNCHANGED <<holding, ThreadRunning, performed>> /\ ExecUnchanged

ExecPop ==
  /\ exec.at = "pop" /\ queries_queue # <<>>
  /\ exec' = [exec EXCEPT !.at = IF Exec \in holding THEN "send" ELSE "get",
                          !.job = Head(queries_queue)]
  /\ queries_queue' = Tail(queries_queue)
  /\ UNCHANGED <<holding, ThreadRunning, performed>> /\ ExecUnchanged

\* The queue is empty: the thread gives its connection back and sleeps.
ExecIdle ==
  /\ exec.at = "pop" /\ queries_queue = <<>>
  /\ exec' = [exec EXCEPT !.at = "test"]
  /\ Release(Exec)
  /\ UNCHANGED <<queries_queue, ThreadRunning, performed>> /\ ExecUnchanged

\* Mutant: what remains in the queue is left there.
LeavesTheRest ==
  /\ exec.at = "drain"
  /\ exec' = [exec EXCEPT !.at = "stop"]
  /\ UNCHANGED <<queries_queue, holding, ThreadRunning, performed>> /\ ExecUnchanged

ExecDrain ==
  /\ exec.at = "drain"
  /\ exec' = [exec EXCEPT !.at = IF queries_queue = <<>> THEN "stop" ELSE "get",
                          !.job = First(queries_queue)]
  /\ queries_queue' = Popped(queries_queue)
  /\ UNCHANGED <<holding, ThreadRunning, performed>> /\ ExecUnchanged

ExecStop ==
  /\ exec.at = "stop"
  /\ ThreadRunning' = FALSE
  /\ exec' = [exec EXCEPT !.at = "done"]
  /\ UNCHANGED <<queries_queue, holding, performed>> /\ ExecUnchanged

-------------------------------------------------------------------------------
\* thread_proc_query.  The thread keeps a connection from its start to the end of its loop.
BuffUnchanged == UNCHANGED <<queries_queue, ThreadRunning, terminate, call, exec, main, owed>>

BuffGet ==
  /\ buff.at = "get"
  /\ Acquire(Buff)
  /\ buff' = [buff EXCEPT !.at = IF buff.last THEN "send" ELSE "pop"]
  /\ UNCHANGED <<query_buffer, performed>> /\ BuffUnchanged

BuffPop ==
  /\ buff.at = "pop" /\ query_buffer # <<>>
  /\ buff' = [buff EXCEPT !.at = "send", !.job = Head(query_buffer)]
  /\ query_buffer' = Tail(query_buffer)
  /\ UNCHANGED <<holding, performed>> /\ BuffUnchanged

BuffIdle ==
  /\ buff.at = "pop" /\ query_buffer = <<>>
  /\ buff' = [buff EXCEPT !.at = "test"]
  /\ UNCHANGED <<query_buffer, holding, performed>> /\ BuffUnchanged

BuffSend ==
  /\ buff.at = "send"
  /\ Do(buff.job)
  /\ buff' = [buff EXCEPT !.at = IF buff.last THEN "drain" ELSE "test", !.job = None]
  /\ IF buff.last THEN Release(Buff) ELSE UNCHANGED holding
  /\ UNCHANGED query_buffer /\ BuffUnchanged

BuffTest ==
  /\ buff.at = "test"
  /\ IF terminate
     THEN buff' = [buff EXCEPT !.at = "drain", !.last = TRUE] /\ Release(Buff)
     ELSE buff' = [buff EXCEPT !.at = "pop"] /\ UNCHANGED holding
  /\ UNCHANGED <<query_buffer, performed>> /\ BuffUnchanged

BuffDrain ==
  /\ buff.at = "drain"
  /\ buff' = [buff EXCEPT !.at = IF query_buffer = <<>> THEN "stop" ELSE "get",
                          !.job = First(query_buffer)]
  /\ query_buffer' = Popped(query_buffer)
  /\ UNCHANGED <<holding, performed>> /\ BuffUnchanged

\* run returns true, so the pool deletes the QueryThread.
BuffStop ==
  /\ buff.at = "stop"
  /\ buff' = [buff EXCEPT !.at = "done"]
  /\ UNCHANGED <<query_buffer, holding, performed>> /\ BuffUnchanged

-------------------------------------------------------------------------------
\* EndThreads: what is in a queue is taken out and put back until nothing is there.
MainUnchanged == UNCHANGED <<holding, ThreadRunning, call, exec, buff, performed>>

EndThreads ==
  /\ main.at = "run"
  /\ main' = [main EXCEPT !.at = "popB"]
  /\ UNCHANGED <<queries_queue, query_buffer, terminate, owed>> /\ MainUnchanged

RotateBuffers ==
  /\ main.at = "popB"
  /\ main' = [at |-> IF query_buffer = <<>> THEN "popQ" ELSE "pushB",
              job |-> First(query_buffer)]
  /\ query_buffer' = Popped(query_buffer)
  /\ UNCHANGED <<queries_queue, terminate, owed>> /\ MainUnchanged

ReturnBuffer ==
  /\ main.at = "pushB"
  /\ main' = [at |-> "popB", job |-> None]
  /\ query_buffer' = Append(query_buffer, main.job)
  /\ UNCHANGED <<queries_queue, terminate, owed>> /\ MainUnchanged

RotateQueries ==
  /\ main.at = "popQ"
  /\ main' = [at |-> IF queries_queue = <<>> THEN "set" ELSE "pushQ",
              job |-> First(queries_queue)]
  /\ queries_queue' = Popped(queries_queue)
  /\ UNCHANGED <<query_buffer, terminate, owed>> /\ MainUnchanged

\* Mutant: EndThreads empties the queue.
DropsQuery ==
  /\ main.at = "pushQ"
  /\ main' = [at |-> "popQ", job |-> None]
  /\ UNCHANGED <<queries_queue, query_buffer, terminate, owed>> /\ MainUnchanged

ReturnQuery ==
  /\ main.at = "pushQ"
  /\ main' = [at |-> "popQ", job |-> None]
  /\ queries_queue' = Append(queries_queue, main.job)
  /\ UNCHANGED <<query_buffer, terminate, owed>> /\ MainUnchanged

Pending == (Range(queries_queue) \cup Range(query_buffer) \cup {exec.job, buff.job}) \ {None}

SetTerminate ==
  /\ main.at = "set"
  /\ terminate' = TRUE
  /\ main' = [main EXCEPT !.at = "wait"]
  /\ owed' = Pending
  /\ UNCHANGED <<queries_queue, query_buffer>> /\ MainUnchanged

\* The loop is left when ThreadRunning is false, whether or not qt is set.
EndReturns ==
  /\ main.at = "wait" /\ ~ThreadRunning
  /\ main' = [main EXCEPT !.at = "ended"]
  /\ UNCHANGED <<queries_queue, query_buffer, terminate, owed>> /\ MainUnchanged

\* Mutant: the Database is deleted as soon as EndThreads has returned.
WaitsForCallers ==
  /\ main.at = "ended"
  /\ \A c \in Caller : call[c].at = "idle"
  /\ main' = [main EXCEPT !.at = "pooled"]
  /\ UNCHANGED <<queries_queue, query_buffer, terminate, owed>> /\ MainUnchanged

\* ThreadPool.Shutdown returns when every thread of the pool is gone.
PoolShutdown ==
  /\ main.at = "ended"
  /\ exec.at = "done" /\ buff.at = "done" /\ \A c \in Caller : call[c].at = "idle"
  /\ main' = [main EXCEPT !.at = "pooled"]
  /\ UNCHANGED <<queries_queue, query_buffer, terminate, owed>> /\ MainUnchanged

\* _StopDB.
StopDB ==
  /\ main.at = "pooled" /\ call[Main].at = "idle"
  /\ main' = [main EXCEPT !.at = "deleted"]
  /\ UNCHANGED <<queries_queue, query_buffer, terminate, owed>> /\ MainUnchanged

-------------------------------------------------------------------------------
CallStep(c) == Push(c) \/ CallGets(c) \/ CallSends(c)

ExecStep == \/ ExecFirst \/ ExecGet \/ ExecSend \/ ExecTest \/ ExecPop \/ ExecIdle
            \/ ExecDrain \/ ExecStop

BuffStep == \/ BuffGet \/ BuffPop \/ BuffIdle \/ BuffSend \/ BuffTest \/ BuffDrain
            \/ BuffStop

EndStep  == \/ RotateBuffers \/ ReturnBuffer \/ RotateQueries \/ ReturnQuery
            \/ SetTerminate \/ EndReturns

Next ==
  \/ \E c \in Caller : Execute(c) \/ AddQueryBuffer(c) \/ QueryNow(c) \/ CallStep(c)
  \/ ExecStep \/ BuffStep
  \/ EndThreads \/ EndStep \/ PoolShutdown \/ StopDB

\* Every thread that can take a step does, and one that spins for a connection finds one
\* at last if some are free again and again.
Fairness ==
  /\ \A c \in Caller : WF_vars(CallStep(c)) /\ SF_vars(CallGets(c))
  /\ WF_vars(ExecStep) /\ WF_vars(BuffStep) /\ WF_vars(EndStep)
  /\ SF_vars(ExecGet) /\ SF_vars(BuffGet)

Spec == Init /\ [][Next]_vars /\ Fairness

-------------------------------------------------------------------------------
Hand(j) == IF j = None THEN <<>> ELSE <<j>>

\* The statements that wait: in the hand of the execute thread, of EndThreads, in the queue.
HeldBy(m, S) == IF m \in S THEN <<m>> ELSE <<>>

Queries == INSTANCE JobQueue WITH
  Job <- Query, performed <- performed \cap Query, closing <- main.at # "run",
  waiting <- Hand(exec.job) \o HeldBy(main.job, Query) \o queries_queue

Batches == INSTANCE JobQueue WITH
  Job <- Batch, performed <- performed \cap Batch, closing <- main.at # "run",
  waiting <- Hand(buff.job) \o HeldBy(main.job, Batch) \o query_buffer

\* Whatever the threads do, no statement and no buffer is performed twice, and until
\* EndThreads is called they are performed in the order in which they were queued: the
\* Database implements JobQueue, once for each of its queues.
ServesInOrder == Queries!Spec /\ Batches!Spec

\* When the Database is deleted no thread is in it: neither a caller, nor the execute
\* thread, nor the query-buffer thread, for which EndThreads does not wait.
NoUseAfterDelete ==
  main.at = "deleted" => /\ \A c \in Caller : call[c].at = "idle"
                         /\ exec.at = "done" /\ buff.at = "done" /\ holding = {}

\* A statement that was not performed when EndThreads set the thread state is performed
\* when EndThreads returns, and such a buffer when the pool is shut down.
OwedIsPerformed ==
  /\ main.at \in {"ended", "pooled", "deleted"} => owed \cap Query \subseteq performed
  /\ main.at \in {"pooled", "deleted"} => owed \subseteq performed

\* The two loops of EndThreads end.  No fairness of the threads makes them: they can take
\* a job out and put it back for ever if the other thread looks at the wrong instants only.
LoopsEnd == []<>(main.at \notin {"popB", "pushB", "popQ", "pushQ"})

\* If its loops end, EndThreads returns: the execute thread leaves its own loop, gets
\* connections for what is left, and clears ThreadRunning.  And what was queued before the
\* thread state was set is performed at last, though EndThreads takes it out of the queue
\* and puts it back.
EndThreadsReturns ==
  LoopsEnd =>
    /\ (main.at = "popB") ~> (main.at = "ended")
    /\ \A j \in Job : (j \in Pending /\ ~terminate) ~> (j \in performed)
===============================================================================
