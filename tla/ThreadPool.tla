------------------------------ MODULE ThreadPool ------------------------------
(***************************************************************************)
(* arcemu-shared/Threading/ThreadPool.cpp: the pool every server thread     *)
(* comes from (POSIX build).  One action is one critical section of         *)
(* CThreadPool::_mutex, or one step of thread_proc between two of them.     *)
(***************************************************************************)
EXTENDS Integers, FiniteSets

CONSTANTS Thread,     \* Thread objects that may ever be created (bound)
          Task,       \* ThreadBase objects handed to ExecuteTask, once each
          Service,    \* tasks whose run() returns only after OnShutdown()
          NoTask,     \* ExecutionTarget = NULL
          Reserve,    \* THREAD_RESERVE
          MaxSem,     \* bound on a semaphore's value
          MaxChecks   \* bound on the number of integrity checks

ASSUME PoolAssumption == /\ IsFiniteSet(Thread)
                         /\ Service \subseteq Task
                         /\ NoTask \notin Task
                         /\ Reserve \in Nat \ {0}
                         /\ MaxSem \in Nat
                         /\ MaxChecks \in Nat

VARIABLES pc,         \* where each thread is in thread_proc
          target,     \* Thread::ExecutionTarget
          job,        \* the task a thread is inside run() of
          doomed,     \* threads with DeleteAfterExit
          sem,        \* ThreadController::sem of each thread
          active,     \* m_activeThreads
          free,       \* m_freeThreads
          toExit,     \* _threadsToExit
          eaten,      \* _threadsEaten
          phase,      \* the main thread: "boot", "up", "first" poll, "poll", "down"
          checks,     \* integrity checks made
          requested,  \* tasks given to ExecuteTask
          started,    \* tasks whose run() was called
          told,       \* tasks whose OnShutdown() was called
          missed      \* history: tasks given to a thread being killed that was awake and
                      \* past its look at ExecutionTarget

vars == <<pc, target, job, doomed, sem, active, free, toExit, eaten, phase,
          checks, requested, started, told, missed>>

Unborn == {t \in Thread : pc[t] = "unborn"}
Live   == {t \in Thread : pc[t] \notin {"unborn", "gone"}}

TypeOK == /\ pc \in [Thread -> {"unborn", "top", "run", "ran", "exit", "suspend", "gone"}]
          /\ target \in [Thread -> Task \cup {NoTask}]
          /\ job \in [Thread -> Task \cup {NoTask}]
          /\ sem \in [Thread -> Nat]
          /\ doomed \subseteq Thread /\ active \subseteq Thread /\ free \subseteq Thread
          /\ toExit \in Nat /\ eaten \in Int /\ checks \in Nat
          /\ phase \in {"boot", "up", "first", "poll", "down"}
          /\ requested \subseteq Task /\ started \subseteq Task /\ told \subseteq Task
          /\ missed \subseteq Task

Init == /\ pc = [t \in Thread |-> "unborn"]
        /\ target = [t \in Thread |-> NoTask]
        /\ job = [t \in Thread |-> NoTask]
        /\ sem = [t \in Thread |-> 0]
        /\ doomed = {} /\ active = {} /\ free = {}
        /\ toExit = 0 /\ eaten = 0 /\ checks = 0
        /\ phase = "boot"
        /\ requested = {} /\ started = {} /\ told = {} /\ missed = {}

-----------------------------------------------------------------------------
\* StartThread, n times: n new Thread objects (names only, so any choice will do)
Unused(n) == {S \in SUBSET Unborn : Cardinality(S) = n}
Fresh(n)  == CHOOSE S \in Unused(n) : TRUE

\* StartThread(NULL): no set of the pool knows these threads yet
StartIdle(n) ==
  /\ Unused(n) # {}
  /\ pc' = [t \in Thread |-> IF t \in Fresh(n) THEN "top" ELSE pc[t]]

\* Mutant: nobody posts the semaphore
ResumeNobody(S) == UNCHANGED sem

\* ThreadController::Resume(): sem_post, for every thread of S
Resume(S) == sem' = [t \in Thread |-> IF t \in S THEN sem[t] + 1 ELSE sem[t]]

Startup ==
  /\ phase = "boot"
  /\ StartIdle(Reserve)
  /\ phase' = "up"
  /\ UNCHANGED <<target, job, doomed, sem, active, free, toExit, eaten, checks,
                 requested, started, told, missed>>

\* ExecuteTask: wake a thread of the free pool, or start one for the task
Dispatch(k, t) ==
  /\ free' = free \ {t}
  /\ target' = [target EXCEPT ![t] = k]
  /\ active' = active \cup {t}

\* KillFreeThreads left t in the pool and has woken it, and it will not look at
\* ExecutionTarget again before ThreadExit
TooLate(t) == t \in doomed /\ pc[t] \notin {"suspend", "top"}

ExecuteTask(k) ==
  /\ phase = "up" /\ k \in Task \ requested
  /\ requested' = requested \cup {k}
  /\ eaten' = eaten - 1
  /\ \/ \E t \in free : /\ Dispatch(k, t)
                        /\ Resume({t})
                        /\ missed' = IF TooLate(t) THEN missed \cup {k} ELSE missed
                        /\ UNCHANGED pc
     \/ /\ free = {}
        /\ StartIdle(1)
        /\ \A t \in Fresh(1) : Dispatch(k, t)
        /\ UNCHANGED <<sem, missed>>
  /\ UNCHANGED <<job, doomed, toExit, phase, checks, started, told>>

\* KillFreeThreads(count): the first count threads of the free pool stay in it,
\* marked to delete themselves, until they come through ThreadExit again
KillFreeThreads(K) ==
  /\ target' = [t \in Thread |-> IF t \in K THEN NoTask ELSE target[t]]
  /\ doomed' = doomed \cup K

\* Shutdown wants one ticket for each thread the pool knows
ShutdownTickets == Cardinality(free) + Cardinality(active)

\* IntegrityCheck; eaten = Reserve is its branch that changes nothing
IntegrityCheck ==
  /\ phase = "up" /\ checks < MaxChecks
  /\ checks' = checks + 1
  /\ \/ /\ eaten < 0
        /\ StartIdle(Reserve - eaten)
        /\ eaten' = 0
        /\ UNCHANGED <<target, doomed, sem, toExit>>
     \/ /\ eaten \in 0 .. Reserve - 1
        /\ StartIdle(Reserve - eaten)
        /\ UNCHANGED <<target, doomed, sem, toExit, eaten>>
     \/ /\ eaten > Reserve
        /\ \E K \in SUBSET free :
             /\ \/ Cardinality(K) = eaten - Reserve
                \/ Cardinality(K) < eaten - Reserve /\ K = free
             /\ KillFreeThreads(K)
             /\ toExit' = toExit + Cardinality(K)
             /\ Resume(K)
        /\ eaten' = Reserve
        /\ UNCHANGED pc
  /\ UNCHANGED <<job, active, free, phase, requested, started, told, missed>>

\* Shutdown, first critical section: kill the free pool, tell the active tasks
ShutdownBegin ==
  /\ phase = "up"
  /\ phase' = "first"
  /\ KillFreeThreads(free)
  /\ toExit' = toExit + ShutdownTickets
  /\ told' = (told \cup {target[t] : t \in active}) \ {NoTask}
  /\ Resume(free \cup {t \in active : target[t] = NoTask})
  /\ UNCHANGED <<pc, job, active, free, eaten, checks, requested, started,
                 missed>>

\* Shutdown, one turn of the waiting loop
ShutdownPoll ==
  /\ phase \in {"first", "poll"}
  /\ IF active \cup free = {}
     THEN phase' = "down" /\ UNCHANGED sem
     ELSE /\ phase' = "poll"
          /\ IF phase = "poll"
             THEN (\A t \in free : sem[t] < MaxSem) /\ Resume(free)
             ELSE UNCHANGED sem
  /\ UNCHANGED <<pc, target, job, doomed, active, free, toExit, eaten, checks,
                 requested, started, told, missed>>

-----------------------------------------------------------------------------
(* thread_proc *)

\* if(t->ExecutionTarget != NULL) t->ExecutionTarget->run() ...
CheckTarget(t) ==
  /\ pc[t] = "top"
  /\ IF target[t] = NoTask
     THEN pc' = [pc EXCEPT ![t] = "exit"] /\ UNCHANGED <<job, started>>
     ELSE /\ pc' = [pc EXCEPT ![t] = "run"]
          /\ job' = [job EXCEPT ![t] = target[t]]
          /\ started' = started \cup {target[t]}
  /\ UNCHANGED <<target, doomed, sem, active, free, toExit, eaten, phase, checks,
                 requested, told, missed>>

RunReturns(t) ==
  /\ pc[t] = "run"
  /\ job[t] \in Service => job[t] \in told
  /\ pc' = [pc EXCEPT ![t] = "ran"]
  /\ job' = [job EXCEPT ![t] = NoTask]
  /\ UNCHANGED <<target, doomed, sem, active, free, toExit, eaten, phase, checks,
                 requested, started, told, missed>>

\* Mutant: the finished task stays in ExecutionTarget
LeaveTarget(t) ==
  /\ pc[t] = "ran"
  /\ pc' = [pc EXCEPT ![t] = "exit"]
  /\ UNCHANGED <<target, job, doomed, sem, active, free, toExit, eaten, phase, checks,
                 requested, started, told, missed>>

ClearTarget(t) ==
  /\ pc[t] = "ran"
  /\ pc' = [pc EXCEPT ![t] = "exit"]
  /\ target' = [target EXCEPT ![t] = NoTask]
  /\ UNCHANGED <<job, doomed, sem, active, free, toExit, eaten, phase, checks,
                 requested, started, told, missed>>

Ticket == toExit > 0

\* Mutant: the deleted thread is left in the free pool
FreeWithDeleted(t) == free

\* m_freeThreads once t has used a ticket
FreeAfterExit(t) == IF t \in doomed THEN free \ {t} ELSE free

\* ThreadExit: use up one ticket and delete the thread, or join the free pool.
\* eaten is read by IntegrityCheck only, so it is not counted once phase has left "up".
ThreadExit(t) ==
  /\ pc[t] = "exit"
  /\ active' = active \ {t}
  /\ IF Ticket
     THEN /\ toExit' = toExit - 1
          /\ free' = FreeAfterExit(t)
          /\ pc' = [pc EXCEPT ![t] = "gone"]
          /\ UNCHANGED eaten
     ELSE /\ eaten' = IF phase = "up" THEN eaten + 1 ELSE eaten
          /\ free' = free \cup {t}
          /\ pc' = [pc EXCEPT ![t] = "suspend"]
          /\ UNCHANGED toExit
  /\ UNCHANGED <<target, job, doomed, sem, phase, checks, requested, started, told, missed>>

\* Suspend(): sem_wait
Wake(t) ==
  /\ pc[t] = "suspend" /\ sem[t] > 0
  /\ sem' = [sem EXCEPT ![t] = @ - 1]
  /\ pc' = [pc EXCEPT ![t] = "top"]
  /\ UNCHANGED <<target, job, doomed, active, free, toExit, eaten, phase, checks,
                 requested, started, told, missed>>

ThreadProc(t) == CheckTarget(t) \/ RunReturns(t) \/ ClearTarget(t) \/ ThreadExit(t) \/ Wake(t)

\* the process is over when Shutdown has returned
Down == phase = "down" /\ UNCHANGED vars

Next == \/ Startup \/ IntegrityCheck \/ ShutdownBegin \/ ShutdownPoll
        \/ \E k \in Task : ExecuteTask(k)
        \/ \E t \in Thread : ThreadProc(t)
        \/ Down

Spec == Init /\ [][Next]_vars

\* Every runnable thread is scheduled and the main thread polls each second
FairSpec == /\ Spec
            /\ WF_vars(ShutdownPoll)
            /\ \A t \in Thread : WF_vars(ThreadProc(t))

-----------------------------------------------------------------------------
\* No set of the pool holds a Thread that ThreadExit has deleted: KillFreeThreads
\* leaves its victims in m_freeThreads while any finishing thread may take the
\* ticket meant for them.
NoDanglingThread == active \cup free \subseteq Live

\* A thread that sleeps in Suspend() with nobody about to wake it is in the free
\* pool, where ExecuteTask and Shutdown find it.
NoThreadForgotten == \A t \in Thread : pc[t] = "suspend" /\ sem[t] = 0 => t \in free

\* run() of a task is called once: a thread's leftover ExecutionTarget is never
\* run again after the thread was resumed for something else.
RunsOnce == [][\A t \in Thread : pc[t] = "top" /\ pc'[t] = "run" => target[t] \notin started]_vars

\* ExecuteTask "grabs/spawns a thread, and tells it to execute a task": every task
\* given to it is eventually run.  The one way to lose one is IntegrityCheck's kill:
\* the thread grabbed was on its way to ThreadExit already, and the task it was
\* handed then goes down with it, or is overwritten or cleared before it looks.
Lost(k)       == k \in missed /\ k \notin {target[t] : t \in Live}
EveryTaskRuns == \A k \in Task : k \in requested ~> k \in started \/ Lost(k)

\* Shutdown() returns if it began with a ticket for every living thread and no task
\* running in the free pool: no thread it told to exit can end up suspended with
\* nobody left to tell it ("All we need to do is to resume it", ThreadPool.cpp:240).
ShutdownReturnsIfCounted ==
  phase = "first" /\ toExit >= Cardinality(Live) /\ (\A t \in free : job[t] = NoTask)
    ~> phase = "down"
=============================================================================
