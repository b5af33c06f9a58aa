---------------------------- MODULE Threads_proofs ----------------------------
(***************************************************************************)
(* Proofs about the threads of the servers: the pool that runs them         *)
(* (ThreadPool), for any number of threads and tasks, any reserve and any    *)
(* bound on the integrity checks; and the session that the world thread and *)
(* the threads of the maps hand to each other (SessionHandover), for any     *)
(* number of maps and any bounds on moves and logins.                       *)
(***************************************************************************)
EXTENDS ThreadPool, SessionHandover, FiniteSetTheorems, TLAPS

-------------------------------------------------------------------------------
(* The thread pool.                                                        *)

Serving == phase \in {"boot", "up"}

\* Until Shutdown begins, only a doomed thread is ever resumed more than once:
\* any other sleeps in the free pool with its semaphore at zero, or has left it
\* with exactly one post waiting for it.
Settled == Serving => \A t \in Thread \ doomed :
                        /\ t \in free => pc[t] = "suspend"
                        /\ sem[t] = IF pc[t] = "suspend" /\ t \notin free THEN 1 ELSE 0

\* Once Shutdown has begun, whoever is in the free pool while tickets remain is
\* doomed, and so leaves the pool when it takes one.
Condemned == ~Serving => toExit = 0 \/ free \subseteq doomed

\* A thread in Suspend() is in the free pool, or already resumed.
Known == \A t \in Thread : pc[t] = "suspend" => t \in free \/ sem[t] > 0

PoolInv == TypeOK /\ NoDanglingThread /\ Settled /\ Condemned /\ Known

\* The threads StartThread creates were not there before, and n = 1 gives one.
LEMMA FreshThreads ==
  ASSUME PoolAssumption, NEW n, Unused(n) # {}
  PROVE  /\ Fresh(n) \subseteq Unborn
         /\ n = 1 => \E t \in Unborn : Fresh(n) = {t}
<1>1. Fresh(n) \in Unused(n)
  BY DEF Fresh
<1>2. Fresh(n) \subseteq Unborn /\ Cardinality(Fresh(n)) = n
  BY <1>1 DEF Unused
<1>3. IsFiniteSet(Fresh(n))
  BY <1>2, FS_Subset DEF Unborn, PoolAssumption
<1>4. QED
  BY <1>2, <1>3, FS_Singleton

LEMMA PoolInit == PoolAssumption /\ Init => PoolInv
BY DEF Init, PoolInv, TypeOK, NoDanglingThread, Live, Settled, Condemned, Known, Serving,
       PoolAssumption

\* The critical sections entered by the main thread and by ExecuteTask's callers.
LEMMA PoolStep ==
  ASSUME PoolAssumption, PoolInv,
         Startup \/ IntegrityCheck \/ ShutdownBegin \/ ShutdownPoll
           \/ \E k \in Task : ExecuteTask(k)
  PROVE  PoolInv'
<1> USE DEF PoolInv, TypeOK, NoDanglingThread, Live, Settled, Condemned, Known, Serving
<1>0. \A S \in SUBSET Thread : Cardinality(S) \in Nat
  BY FS_Subset, FS_CardinalityType DEF PoolAssumption
<1>1. CASE Startup
  <2>1. Fresh(Reserve) \subseteq Unborn
    BY <1>1, FreshThreads DEF Startup, StartIdle
  <2>2. QED BY <1>1, <2>1 DEF Startup, StartIdle, Unborn
<1>2. CASE IntegrityCheck
  <2>1. CASE eaten < Reserve
    <3>1. StartIdle(Reserve - eaten) /\ UNCHANGED <<target, doomed, sem, toExit>> /\ eaten' \in Int
      BY <1>2, <2>1 DEF IntegrityCheck, PoolAssumption
    <3>2. Fresh(Reserve - eaten) \subseteq Unborn
      BY <3>1, FreshThreads DEF StartIdle
    <3>3. QED BY <1>2, <3>1, <3>2 DEF IntegrityCheck, StartIdle, Unborn
  <2>2. CASE eaten >= Reserve
    <3>1. PICK K \in SUBSET free : /\ KillFreeThreads(K)
                                   /\ toExit' = toExit + Cardinality(K)
                                   /\ Resume(K)
                                   /\ eaten' = Reserve /\ UNCHANGED pc
      BY <1>2, <2>2 DEF IntegrityCheck, PoolAssumption
    <3>2. Cardinality(K) \in Nat
      BY <1>0
    <3>3. QED BY <1>2, <3>1, <3>2 DEF IntegrityCheck, KillFreeThreads, Resume, PoolAssumption
  <2>3. QED BY <2>1, <2>2 DEF PoolAssumption
<1>3. CASE ShutdownBegin
  <2>1. ShutdownTickets \in Nat
    BY <1>0 DEF ShutdownTickets
  <2>2. toExit' \in Nat
    BY <1>3, <2>1 DEF ShutdownBegin
  <2>3. QED BY <1>3, <2>2 DEF ShutdownBegin, KillFreeThreads, Resume
<1>4. CASE ShutdownPoll
  BY <1>4 DEF ShutdownPoll, Resume
<1>5. ASSUME NEW k \in Task, ExecuteTask(k) PROVE PoolInv'
  <2>0. missed' \subseteq Task
    BY <1>5 DEF ExecuteTask
  <2>1. CASE \E t \in free : Dispatch(k, t) /\ Resume({t}) /\ UNCHANGED pc
    BY <1>5, <2>0, <2>1 DEF ExecuteTask, Dispatch, Resume
  <2>2. CASE StartIdle(1) /\ (\A t \in Fresh(1) : Dispatch(k, t)) /\ UNCHANGED sem
    <3>1. PICK t \in Unborn : Fresh(1) = {t}
      BY <2>2, FreshThreads DEF StartIdle
    <3>2. QED BY <1>5, <2>0, <2>2, <3>1 DEF ExecuteTask, Dispatch, StartIdle, Unborn
  <2>3. QED BY <1>5, <2>1, <2>2 DEF ExecuteTask
<1>6. QED BY <1>1, <1>2, <1>3, <1>4, <1>5

\* The steps of thread_proc.
LEMMA ThreadStep ==
  ASSUME PoolAssumption, PoolInv, NEW t \in Thread, ThreadProc(t)
  PROVE  PoolInv'
<1> USE DEF PoolInv, TypeOK, NoDanglingThread, Live, Settled, Condemned, Known, Serving
<1>1. CASE CheckTarget(t)
  BY <1>1 DEF CheckTarget
<1>2. CASE RunReturns(t)
  BY <1>2 DEF RunReturns
<1>3. CASE ClearTarget(t)
  BY <1>3 DEF ClearTarget
<1>4. CASE ThreadExit(t)
  <2>1. CASE Ticket
    <3>1. t \in free => t \in doomed
      BY <1>4, <2>1 DEF ThreadExit, Ticket
    <3>2. t \notin free'
      BY <1>4, <2>1, <3>1 DEF ThreadExit, FreeAfterExit
    <3>3. QED BY <1>4, <2>1, <3>2 DEF ThreadExit, Ticket, FreeAfterExit
  <2>2. CASE ~Ticket
    BY <1>4, <2>2 DEF ThreadExit, Ticket
  <2>3. QED BY <2>1, <2>2
<1>5. CASE Wake(t)
  BY <1>5 DEF Wake
<1>6. QED BY <1>1, <1>2, <1>3, <1>4, <1>5 DEF ThreadProc

\* The invariant the theorems below rest on.
THEOREM PoolInvariant == Spec => []PoolInv
<1> USE PoolAssumption
<1>1. Init => PoolInv
  BY PoolInit
<1>2. PoolInv /\ [Next]_vars => PoolInv'
  <2> SUFFICES ASSUME PoolInv, [Next]_vars PROVE PoolInv'
    OBVIOUS
  <2>1. CASE UNCHANGED vars
    BY <2>1 DEF vars, PoolInv, TypeOK, NoDanglingThread, Live, Settled, Condemned, Known, Serving
  <2>2. CASE Next
    BY <2>1, <2>2, PoolStep, ThreadStep DEF Next, Down
  <2>3. QED BY <2>1, <2>2
<1>3. QED BY <1>1, <1>2, PTL DEF Spec

\* Type correctness of the pool (CThreadPool's counters and sets).
THEOREM PoolTypes == Spec => []TypeOK
<1>1. PoolInv => TypeOK BY DEF PoolInv
<1>2. QED BY <1>1, PoolInvariant, PTL

\* m_activeThreads and m_freeThreads never hold a deleted Thread, however kills,
\* tasks and the shutdown interleave.
THEOREM PoolNoDanglingThread == Spec => []NoDanglingThread
<1>1. PoolInv => NoDanglingThread BY DEF PoolInv
<1>2. QED BY <1>1, PoolInvariant, PTL

\* A thread asleep with no post pending is in the free pool.
THEOREM PoolNoThreadForgotten == Spec => []NoThreadForgotten
<1>1. PoolInv => NoThreadForgotten BY DEF PoolInv, TypeOK, Known, NoThreadForgotten
<1>2. QED BY <1>1, PoolInvariant, PTL

\* Each task is on one thread, and is there only until it has been run: what a thread
\* finds when it is resumed was not started before.
Targets ==
  /\ started \subseteq requested
  /\ \A t \in Thread : target[t] # NoTask => target[t] \in requested
  /\ \A t, u \in Thread : target[t] = target[u] /\ target[t] # NoTask => t = u
  /\ \A t \in Thread : pc[t] \notin {"run", "ran"} /\ target[t] # NoTask =>
                         target[t] \notin started

LEMMA TargetStep == PoolAssumption /\ PoolInv /\ Targets /\ [Next]_vars => Targets'
<1> SUFFICES ASSUME PoolAssumption, PoolInv, Targets, [Next]_vars PROVE Targets'
  OBVIOUS
<1> USE DEF PoolInv, TypeOK, Targets
<1>1. ASSUME NEW k \in Task, ExecuteTask(k) PROVE Targets'
  <2>1. PICK t \in Thread : /\ Dispatch(k, t) /\ requested' = requested \cup {k}
                            /\ UNCHANGED started
                            /\ \A u \in Thread \ {t} : pc'[u] = pc[u]
    <3>1. CASE \E t \in free : Dispatch(k, t) /\ UNCHANGED pc
      BY <1>1, <3>1 DEF ExecuteTask
    <3>2. CASE StartIdle(1) /\ \A t \in Fresh(1) : Dispatch(k, t)
      <4>1. PICK t \in Unborn : Fresh(1) = {t}
        BY <3>2, FreshThreads DEF StartIdle
      <4>2. QED BY <1>1, <3>2, <4>1 DEF ExecuteTask, StartIdle, Unborn
    <3>3. QED BY <1>1, <3>1, <3>2 DEF ExecuteTask
  <2>2. k \notin requested
    BY <1>1 DEF ExecuteTask
  <2>3. QED BY <2>1, <2>2 DEF Dispatch
<1>2. ASSUME NEW K, KillFreeThreads(K), UNCHANGED <<pc, requested, started>> PROVE Targets'
  BY <1>2 DEF KillFreeThreads
<1>3. ASSUME NEW n, StartIdle(n), UNCHANGED <<target, requested, started>> PROVE Targets'
  <2>1. Fresh(n) \subseteq Unborn
    BY <1>3, FreshThreads DEF StartIdle
  <2>2. \A t \in Thread : pc'[t] \notin {"run", "ran"} => pc[t] \notin {"run", "ran"}
    BY <1>3, <2>1 DEF StartIdle, Unborn
  <2>3. QED BY <1>3, <2>2
<1>4. CASE Startup \/ IntegrityCheck
  BY <1>2, <1>3, <1>4 DEF Startup, IntegrityCheck
<1>5. CASE ShutdownBegin \/ ShutdownPoll
  BY <1>2, <1>5 DEF ShutdownBegin, ShutdownPoll
<1>6. ASSUME NEW t \in Thread, ThreadProc(t) PROVE Targets'
  <2>1. CASE CheckTarget(t)
    BY <1>6, <2>1 DEF CheckTarget
  <2>2. CASE RunReturns(t) \/ ClearTarget(t)
    BY <1>6, <2>2 DEF RunReturns, ClearTarget
  <2>3. CASE ThreadExit(t) \/ Wake(t)
    BY <1>6, <2>3 DEF ThreadExit, Wake
  <2>4. QED BY <1>6, <2>1, <2>2, <2>3 DEF ThreadProc
<1>7. CASE UNCHANGED vars
  BY <1>7 DEF vars
<1>8. QED BY <1>1, <1>4, <1>5, <1>6, <1>7 DEF Next, Down

\* run() of a task is called once, whichever threads exit, are killed or are resumed twice.
THEOREM PoolRunsOnce == Spec => RunsOnce
<1> USE PoolAssumption
<1>1. Init => Targets
  BY DEF Init, Targets
<1>2. PoolInv /\ Targets /\ [Next]_vars =>
        [\A t \in Thread : pc[t] = "top" /\ pc'[t] = "run" => target[t] \notin started]_vars
  <2> SUFFICES ASSUME PoolInv, Targets, NEW t \in Thread, pc[t] = "top", pc'[t] = "run",
                      [Next]_vars
               PROVE  target[t] \notin started
    OBVIOUS
  <2>1. target[t] # NoTask
    <3>1. CASE CheckTarget(t)
      BY <3>1 DEF CheckTarget, PoolInv, TypeOK
    <3>2. ASSUME NEW n, StartIdle(n) PROVE FALSE
      BY <3>2 DEF StartIdle
    <3>3. ASSUME NEW u \in Thread \ {t}, ThreadProc(u) PROVE FALSE
      BY <3>3 DEF ThreadProc, CheckTarget, RunReturns, ClearTarget, ThreadExit, Wake, PoolInv, TypeOK
    <3>4. CASE RunReturns(t) \/ ClearTarget(t) \/ ThreadExit(t) \/ Wake(t)
      BY <3>4 DEF RunReturns, ClearTarget, ThreadExit, Wake
    <3>5. CASE \/ Startup \/ IntegrityCheck \/ ShutdownBegin \/ ShutdownPoll
               \/ \E k \in Task : ExecuteTask(k)
      BY <3>2, <3>5 DEF Startup, IntegrityCheck, ShutdownBegin, ShutdownPoll, ExecuteTask
    <3>6. CASE UNCHANGED vars
      BY <3>6 DEF vars
    <3>7. QED BY <3>1, <3>3, <3>4, <3>5, <3>6 DEF Next, Down, ThreadProc
  <2>2. QED BY <2>1 DEF Targets
<1>3. QED BY <1>1, <1>2, TargetStep, PoolInvariant, PTL DEF Spec, RunsOnce

-------------------------------------------------------------------------------
(* The session between the world thread and the threads of the maps.       *)

\* Where a thread can be, and what it takes with it there.
Places ==
  [pc : {"idle", "update", "packets", "entered", "packet", "timer", "delete", "pushed",
         "ended"},
   arg : {"idle"}]
  \cup [pc : {"enter"}, arg : Map]
  \cup [pc : {"global"}, arg : {"packet", "player", "idle", "pushed", "ended"}]
  \cup [pc : {"sent"}, arg : {"packet", "idle", "pushed", "ended"}]
  \cup [pc : {"logout", "player", "out"}, arg : {"idle", "delete"}]

Located == at \in [Updater -> Places]

Typed ==
  /\ instance \in Updater /\ timer \in {"off", "on", "due"}
  /\ {socket, bDeleted, loggingOut, player, beingPushed, far, global,
      deleted, left, together, crashed} \subseteq BOOLEAN
  /\ mapMgr \in Map \cup {None}
  /\ sessions \subseteq Map /\ pool \subseteq Map /\ players \subseteq Map /\ up \subseteq Map
  /\ moves \in 0..MaxMoves /\ logins \in 0..MaxLogins

\* A thread on its way to delete the session.
Ending(t) == at[t].pc = "delete" \/ (at[t].pc \in {"logout", "player", "out"} /\ at[t].arg = "delete")

\* bDeleted is set by a thread that will delete the session, and by nobody else.
HasDeleter == ~deleted => (bDeleted <=> \E t \in Updater : Ending(t))

\* A map's thread on its way to the end of the map, after ForceOut.
Closing(m) == at[m].pc = "ended" \/ (at[m].pc \in {"global", "sent"} /\ at[m].arg = "ended")

\* Whatever threads met: a player that is in no map has left the session to the world
\* thread, or to one that will hand it over or delete it; one that is in a map and not
\* in its pool has the session listed there.
HeldByWorld ==
  mapMgr = None => /\ instance = World
                   /\ global \/ bDeleted \/ \E t \in Updater : at[t].pc = "global"
HeldByMap ==
  \A m \in Map : mapMgr = m /\ m \notin pool => m \in sessions \cap players /\ instance = m
NotClosing == \A m \in Map : Closing(m) /\ mapMgr = m => m \in pool

Found ==
  ~(crashed \/ deleted \/ left) => HeldByWorld /\ HeldByMap /\ NotClosing /\ pool \subseteq up

\* Threads that did not meet: one at most is at the session,
Alone == ~together => \A t, u \in Updater : at[t].pc # "idle" /\ at[u].pc # "idle" => t = u

\* and the player is where the session says, but between Object::AddToWorld and the end
\* of Player::AddToWorld.
InPlace ==
  /\ \A m \in players : m \in up /\ player /\ mapMgr = m
  /\ \A m \in pool \cap up : player /\ mapMgr = m /\ beingPushed
  /\ mapMgr = None => instance = World
  /\ ~player => mapMgr = None
  /\ mapMgr # None => instance = mapMgr \/ \E t \in Updater : at[t].pc = "entered"
  /\ \A t \in Updater :
       /\ at[t].pc \in {"enter", "global", "sent", "player", "pushed", "ended"} => mapMgr = None
       /\ at[t].pc = "enter" => player /\ beingPushed
       /\ at[t].pc = "entered" => player
       /\ ~deleted /\ at[t].pc \in {"packets", "logout"} => mapMgr \in {None, t}

Private == ~(crashed \/ together) => InPlace

HandoverInv == Typed /\ Located /\ HasDeleter /\ Found /\ Alone /\ Private

LEMMA LookKeeps ==
  ASSUME HandoverAssumption, HandoverInv, NEW t \in Updater, Look(t)
  PROVE  HandoverInv'
<1> USE DEF HandoverAssumption, HandoverInv, Typed, Located, Updater, At, Look, Erase,
            Goto, Is, Listed, Elsewhere, Busy, session, where, sets, ends, bounds
<1>1. Typed'
  BY ZenonT(30)
<1>2. Located'
  BY DEF Places
<1>3. HasDeleter'
  BY DEF HasDeleter, Ending, Places
<1>4. Found'
  BY DEF Found, HeldByWorld, HeldByMap, NotClosing, Closing
<1>5. Alone'
  <2>1. CASE UNCHANGED at
    BY <2>1 DEF Alone
  <2>2. CASE instance = t /\ at' = [at EXCEPT ![t] = At("update", "idle")]
    <3>1. ~together' => \A u \in Updater \ {t} : at[u].pc = "idle"
      BY <2>2
    <3>2. \A u \in Updater \ {t} : at'[u] = at[u]
      BY <2>2
    <3>3. QED BY <3>1, <3>2 DEF Alone
  <2>3. QED BY <2>1, <2>2
<1>6. Private'
  BY DEF Private, InPlace, Alone
<1>7. QED BY <1>1, <1>2, <1>3, <1>4, <1>5, <1>6

LEMMA UpdateKeeps ==
  ASSUME HandoverAssumption, HandoverInv, NEW t \in Updater, Update(t)
  PROVE  HandoverInv'
<1> USE DEF HandoverAssumption, HandoverInv, Typed, Located, Updater, At, Update, Is,
            Removed, Erase, Goto, session, where, sets, ends, bounds
<1>1. Typed'
  OBVIOUS
<1>2. Located'
  BY DEF Places
<1>3. HasDeleter'
  BY DEF HasDeleter, Ending, Places
<1>4. Found'
  BY DEF Found, HeldByWorld, HeldByMap, NotClosing, Closing
<1>5. Alone'
  BY DEF Alone
<1>6. Private'
  BY DEF Private, InPlace, Alone
<1>7. QED BY <1>1, <1>2, <1>3, <1>4, <1>5, <1>6

LEMMA EnterKeeps ==
  ASSUME HandoverAssumption, HandoverInv, NEW t \in Updater, Enter(t)
  PROVE  HandoverInv'
<1> USE DEF HandoverAssumption, HandoverInv, Typed, Located, Updater, At, Enter, Is, Goto,
            session, where, sets, ends, bounds
<1>1. Typed'
  BY ZenonT(30)
<1>2. Located'
  BY DEF Places
<1>3. HasDeleter'
  BY DEF HasDeleter, Ending, Places
<1>4. Found'
  BY DEF Found, HeldByWorld, HeldByMap, NotClosing, Closing
<1>5. Alone'
  BY DEF Alone
<1>6. Private'
  BY DEF Private, InPlace, Alone
<1>7. QED BY <1>1, <1>2, <1>3, <1>4, <1>5, <1>6

LEMMA EnteredKeeps ==
  ASSUME HandoverAssumption, HandoverInv, NEW t \in Updater, Entered(t)
  PROVE  HandoverInv'
<1> USE DEF HandoverAssumption, HandoverInv, Typed, Located, Updater, At, Entered, Is,
            Goto, session, where, sets, ends, bounds
<1>1. Typed'
  OBVIOUS
<1>2. Located'
  BY DEF Places
<1>3. HasDeleter'
  BY DEF HasDeleter, Ending, Places
<1>4. Found'
  BY DEF Found, HeldByWorld, HeldByMap, NotClosing, Closing
<1>5. Alone'
  BY DEF Alone
<1>6. Private'
  BY DEF Private, InPlace, Alone
<1>7. QED BY <1>1, <1>2, <1>3, <1>4, <1>5, <1>6

LEMMA AddGlobalSessionKeeps ==
  ASSUME HandoverAssumption, HandoverInv, NEW t \in Updater, AddGlobalSession(t)
  PROVE  HandoverInv'
<1> USE DEF HandoverAssumption, HandoverInv, Typed, Located, Updater, At,
            AddGlobalSession, Is, session, where, sets, ends, bounds
<1>1. Typed'
  OBVIOUS
<1>2. Located'
  BY DEF Places
<1>3. HasDeleter'
  BY DEF HasDeleter, Ending, Places
<1>4. Found'
  BY DEF Found, HeldByWorld, HeldByMap, NotClosing, Closing
<1>5. Alone'
  BY DEF Alone
<1>6. Private'
  BY DEF Private, InPlace, Alone
<1>7. QED BY <1>1, <1>2, <1>3, <1>4, <1>5, <1>6

LEMMA NewWorldSentKeeps ==
  ASSUME HandoverAssumption, HandoverInv, NEW t \in Updater, NewWorldSent(t)
  PROVE  HandoverInv'
<1> USE DEF HandoverAssumption, HandoverInv, Typed, Located, Updater, At, NewWorldSent,
            Is, Goto, session, where, sets, ends, bounds
<1>1. Typed'
  OBVIOUS
<1>2. at[t].arg \in {"packet", "idle", "pushed", "ended", "delete"}
  BY DEF Places
<1>3. Located'
  BY DEF Places
<1>4. HasDeleter'
  BY DEF HasDeleter, Ending, Places
<1>5. Found'
  BY <1>2 DEF Found, HeldByWorld, HeldByMap, NotClosing, Closing
<1>6. Alone'
  BY DEF Alone
<1>7. Private'
  BY <1>2 DEF Private, InPlace, Alone
<1>8. QED BY <1>1, <1>3, <1>4, <1>5, <1>6, <1>7

LEMMA PacketDoneKeeps ==
  ASSUME HandoverAssumption, HandoverInv, NEW t \in Updater, PacketDone(t)
  PROVE  HandoverInv'
<1> USE DEF HandoverAssumption, HandoverInv, Typed, Located, Updater, At, PacketDone, Is,
            Removed, Erase, Goto, session, where, sets, ends, bounds
<1>1. Typed'
  OBVIOUS
<1>2. Located'
  BY DEF Places
<1>3. HasDeleter'
  BY DEF HasDeleter, Ending, Places
<1>4. Found'
  BY DEF Found, HeldByWorld, HeldByMap, NotClosing, Closing
<1>5. Alone'
  BY DEF Alone
<1>6. Private'
  BY DEF Private, InPlace, Alone
<1>7. QED BY <1>1, <1>2, <1>3, <1>4, <1>5, <1>6

LEMMA NoPacketKeeps ==
  ASSUME HandoverAssumption, HandoverInv, NEW t \in Updater, NoPacket(t)
  PROVE  HandoverInv'
<1> USE DEF HandoverAssumption, HandoverInv, Typed, Located, Updater, At, NoPacket, Is,
            Goto, session, where, sets, ends, bounds
<1>1. Typed'
  OBVIOUS
<1>2. Located'
  BY DEF Places
<1>3. HasDeleter'
  BY DEF HasDeleter, Ending, Places
<1>4. Found'
  BY DEF Found, HeldByWorld, HeldByMap, NotClosing, Closing
<1>5. Alone'
  BY DEF Alone
<1>6. Private'
  BY DEF Private, InPlace, Alone
<1>7. QED BY <1>1, <1>2, <1>3, <1>4, <1>5, <1>6

LEMMA TimerKeeps ==
  ASSUME HandoverAssumption, HandoverInv, NEW t \in Updater, Timer(t)
  PROVE  HandoverInv'
<1> USE DEF HandoverAssumption, HandoverInv, Typed, Located, Updater, At, Timer, Is,
            Removed, Erase, Goto, session, where, sets, ends, bounds
<1>1. Typed'
  BY ZenonT(30)
<1>2. Located'
  BY DEF Places
<1>3. HasDeleter'
  <2>1. at[t].pc = "timer" /\ \A u \in Updater \ {t} : at'[u] = at[u]
    OBVIOUS
  <2>2. CASE bDeleted' = bDeleted /\ at'[t].pc # "delete" /\ at'[t].arg # "delete"
    BY <2>1, <2>2 DEF HasDeleter, Ending
  <2>3. CASE bDeleted' /\ (at'[t].pc = "delete" \/ at'[t] = At("logout", "delete"))
    BY <2>1, <2>3 DEF HasDeleter, Ending
  <2>4. \/ bDeleted' = bDeleted /\ at'[t].pc # "delete" /\ at'[t].arg # "delete"
        \/ bDeleted' /\ (at'[t].pc = "delete" \/ at'[t] = At("logout", "delete"))
    <3>1. CASE bDeleted' = (bDeleted \/ ~socket)
               /\ at' = [at EXCEPT ![t] = LET then == IF socket THEN "idle" ELSE "delete" IN
                                          IF loggingOut THEN At(then, "idle") ELSE At("logout", then)]
      BY <3>1
    <3>2. CASE bDeleted' = bDeleted /\ at' = [at EXCEPT ![t] = At("idle", "idle")]
      BY <3>2
    <3>3. QED BY <3>1, <3>2
  <2>5. QED BY <2>2, <2>3, <2>4
<1>4. Found'
  BY DEF Found, HeldByWorld, HeldByMap, NotClosing, Closing
<1>5. Alone'
  BY DEF Alone
<1>6. Private'
  BY DEF Private, InPlace, Alone
<1>7. QED BY <1>1, <1>2, <1>3, <1>4, <1>5, <1>6

LEMMA LogoutPlayerKeeps ==
  ASSUME HandoverAssumption, HandoverInv, NEW t \in Updater, LogoutPlayer(t)
  PROVE  HandoverInv'
<1> USE DEF HandoverAssumption, HandoverInv, Typed, Located, Updater, At, LogoutPlayer,
            Is, TakenOut, session, where, sets, ends, bounds
<1>1. Typed'
  OBVIOUS
<1>2. Located'
  BY DEF Places
<1>3. HasDeleter'
  BY DEF HasDeleter, Ending, Places
<1>4. Found'
  BY DEF Found, HeldByWorld, HeldByMap, NotClosing, Closing
<1>5. Alone'
  BY DEF Alone
<1>6. Private'
  BY DEF Private, InPlace, Alone
<1>7. QED BY <1>1, <1>2, <1>3, <1>4, <1>5, <1>6

LEMMA DeletePlayerKeeps ==
  ASSUME HandoverAssumption, HandoverInv, NEW t \in Updater, DeletePlayer(t)
  PROVE  HandoverInv'
<1> USE DEF HandoverAssumption, HandoverInv, Typed, Located, Updater, At, DeletePlayer,
            Is, session, where, sets, ends, bounds
<1>1. Typed'
  OBVIOUS
<1>2. Located'
  BY DEF Places
<1>3. HasDeleter'
  BY DEF HasDeleter, Ending, Places
<1>4. Found'
  BY DEF Found, HeldByWorld, HeldByMap, NotClosing, Closing
<1>5. Alone'
  BY DEF Alone
<1>6. Private'
  BY DEF Private, InPlace, Alone
<1>7. QED BY <1>1, <1>2, <1>3, <1>4, <1>5, <1>6

LEMMA LoggedOutKeeps ==
  ASSUME HandoverAssumption, HandoverInv, NEW t \in Updater, LoggedOut(t)
  PROVE  HandoverInv'
<1> USE DEF HandoverAssumption, HandoverInv, Typed, Located, Updater, At, LoggedOut, Is,
            Goto, session, where, sets, ends, bounds
<1>1. Typed'
  OBVIOUS
<1>2. at[t].arg \in {"idle", "delete"} /\ at' = [at EXCEPT ![t] = At(at[t].arg, "idle")]
  BY DEF Places
<1>3. /\ at[t].pc = "out" /\ at'[t].pc \in {"idle", "delete"} /\ at'[t].arg = "idle"
      /\ \A u \in Updater \ {t} : at'[u] = at[u]
  BY <1>2
<1>4. Located'
  BY DEF Places
<1>5. HasDeleter'
  BY DEF HasDeleter, Ending, Places
<1>6. Found'
  BY <1>3 DEF Found, HeldByWorld, HeldByMap, NotClosing, Closing
<1>7. Alone'
  BY DEF Alone
<1>8. Private'
  BY <1>3 DEF Private, InPlace, Alone
<1>9. QED BY <1>1, <1>4, <1>5, <1>6, <1>7, <1>8

LEMMA DeleteSessionKeeps ==
  ASSUME HandoverAssumption, HandoverInv, NEW t \in Updater, DeleteSession(t)
  PROVE  HandoverInv'
<1> USE DEF HandoverAssumption, HandoverInv, Typed, Located, Updater, At, DeleteSession,
            Is, Removed, Erase, Goto, session, where, sets, ends, bounds
<1>1. Typed'
  OBVIOUS
<1>2. Located'
  BY DEF Places
<1>3. HasDeleter'
  BY DEF HasDeleter, Ending, Places
<1>4. Found'
  BY DEF Found, HeldByWorld, HeldByMap, NotClosing, Closing
<1>5. Alone'
  BY DEF Alone
<1>6. Private'
  BY DEF Private, InPlace, Alone
<1>7. QED BY <1>1, <1>2, <1>3, <1>4, <1>5, <1>6

LEMMA DanglingKeeps ==
  ASSUME HandoverAssumption, HandoverInv, NEW t \in Updater, Dangling(t)
  PROVE  HandoverInv'
<1> USE DEF HandoverAssumption, HandoverInv, Typed, Located, Updater, At, Dangling,
            Listed, session, where, sets, ends, bounds
<1>1. Typed'
  OBVIOUS
<1>2. Located'
  BY DEF Places
<1>3. HasDeleter'
  BY DEF HasDeleter, Ending, Places
<1>4. Found'
  BY DEF Found, HeldByWorld, HeldByMap, NotClosing, Closing
<1>5. Alone'
  BY DEF Alone
<1>6. Private'
  BY DEF Private, InPlace, Alone
<1>7. QED BY <1>1, <1>2, <1>3, <1>4, <1>5, <1>6

LEMMA TeleportKeeps ==
  ASSUME HandoverAssumption, HandoverInv, NEW t \in Updater, Teleport(t)
  PROVE  HandoverInv'
<1> USE DEF HandoverAssumption, HandoverInv, Typed, Located, Updater, At, Teleport, Is,
            Relocate, TakenOut, Busy, session, where, sets, ends, bounds
<1>1. Typed'
  OBVIOUS
<1>2. Located'
  BY DEF Places
<1>3. HasDeleter'
  BY DEF HasDeleter, Ending, Places
<1>4. Found'
  BY DEF Found, HeldByWorld, HeldByMap, NotClosing, Closing
<1>5. Alone'
  BY DEF Alone
<1>6. Private'
  BY DEF Private, InPlace, Alone
<1>7. QED BY <1>1, <1>2, <1>3, <1>4, <1>5, <1>6

LEMMA LogoutRequestKeeps ==
  ASSUME HandoverAssumption, HandoverInv, NEW t \in Updater, LogoutRequest(t)
  PROVE  HandoverInv'
<1> USE DEF HandoverAssumption, HandoverInv, Typed, Located, Updater, At, LogoutRequest,
            Is, Goto, session, where, sets, ends, bounds
<1>1. Typed'
  OBVIOUS
<1>2. Located'
  BY DEF Places
<1>3. HasDeleter'
  BY DEF HasDeleter, Ending, Places
<1>4. Found'
  BY DEF Found, HeldByWorld, HeldByMap, NotClosing, Closing
<1>5. Alone'
  BY DEF Alone
<1>6. Private'
  BY DEF Private, InPlace, Alone
<1>7. QED BY <1>1, <1>2, <1>3, <1>4, <1>5, <1>6

LEMMA LoginKeeps ==
  ASSUME HandoverAssumption, HandoverInv, NEW t \in Updater, NEW m \in Map, Login(t, m)
  PROVE  HandoverInv'
<1> USE DEF HandoverAssumption, HandoverInv, Typed, Located, Updater, At, Login, Is,
            Entering, session, where, sets, ends, bounds
<1>1. Typed'
  OBVIOUS
<1>2. Located'
  BY DEF Places
<1>3. HasDeleter'
  BY DEF HasDeleter, Ending, Places
<1>4. Found'
  BY DEF Found, HeldByWorld, HeldByMap, NotClosing, Closing
<1>5. Alone'
  BY DEF Alone
<1>6. Private'
  BY DEF Private, InPlace, Alone
<1>7. QED BY <1>1, <1>2, <1>3, <1>4, <1>5, <1>6

LEMMA WorldportAckKeeps ==
  ASSUME HandoverAssumption, HandoverInv, NEW t \in Updater, NEW m \in Map, WorldportAck(t, m)
  PROVE  HandoverInv'
<1> USE DEF HandoverAssumption, HandoverInv, Typed, Located, Updater, At, WorldportAck,
            Is, Entering, Goto, session, where, sets, ends, bounds
<1>1. Typed'
  OBVIOUS
<1>2. Located'
  BY DEF Places
<1>3. HasDeleter'
  BY DEF HasDeleter, Ending, Places
<1>4. Found'
  BY DEF Found, HeldByWorld, HeldByMap, NotClosing, Closing
<1>5. Alone'
  BY DEF Alone
<1>6. Private'
  BY DEF Private, InPlace, Alone
<1>7. QED BY <1>1, <1>2, <1>3, <1>4, <1>5, <1>6

LEMMA PushKeeps ==
  ASSUME HandoverAssumption, HandoverInv, NEW m \in Map, Push(m)
  PROVE  HandoverInv'
<1> USE DEF HandoverAssumption, HandoverInv, Typed, Located, Updater, At, Push, session,
            where, sets, ends, bounds
<1>1. Typed'
  OBVIOUS
<1>2. Located'
  BY DEF Places
<1>3. HasDeleter'
  BY DEF HasDeleter, Ending, Places
<1>4. Found'
  BY DEF Found, HeldByWorld, HeldByMap, NotClosing, Closing
<1>5. Alone'
  BY DEF Alone
<1>6. Private'
  BY DEF Private, InPlace, Alone
<1>7. QED BY <1>1, <1>2, <1>3, <1>4, <1>5, <1>6

LEMMA PushHomeKeeps ==
  ASSUME HandoverAssumption, HandoverInv, NEW m \in Map, PushHome(m)
  PROVE  HandoverInv'
<1> USE DEF HandoverAssumption, HandoverInv, Typed, Located, Updater, At, PushHome, Busy, session,
            where, sets, ends, bounds
<1>1. Typed'
  OBVIOUS
<1>2. Located'
  BY DEF Places
<1>3. HasDeleter'
  BY DEF HasDeleter, Ending, Places
<1>4. Found'
  BY DEF Found, HeldByWorld, HeldByMap, NotClosing, Closing
<1>5. Alone'
  BY DEF Alone
<1>6. Private'
  BY DEF Private, InPlace, Alone
<1>7. QED BY <1>1, <1>2, <1>3, <1>4, <1>5, <1>6

LEMMA PushedKeeps ==
  ASSUME HandoverAssumption, HandoverInv, NEW m \in Map, Pushed(m)
  PROVE  HandoverInv'
<1> USE DEF HandoverAssumption, HandoverInv, Typed, Located, Updater, At, Pushed, Is, Goto, session,
            where, sets, ends, bounds
<1>1. Typed'
  OBVIOUS
<1>2. Located'
  BY DEF Places
<1>3. HasDeleter'
  BY DEF HasDeleter, Ending, Places
<1>4. Found'
  BY DEF Found, HeldByWorld, HeldByMap, NotClosing, Closing
<1>5. Alone'
  BY DEF Alone
<1>6. Private'
  BY DEF Private, InPlace, Alone
<1>7. QED BY <1>1, <1>2, <1>3, <1>4, <1>5, <1>6

LEMMA PushRefusedKeeps ==
  ASSUME HandoverAssumption, HandoverInv, NEW m \in Map, PushRefused(m)
  PROVE  HandoverInv'
<1> USE DEF HandoverAssumption, HandoverInv, Typed, Located, Updater, At, PushRefused, session,
            where, sets, ends, bounds
<1>1. Typed'
  OBVIOUS
<1>2. Located'
  BY DEF Places
<1>3. HasDeleter'
  BY DEF HasDeleter, Ending, Places
<1>4. Found'
  BY DEF Found, HeldByWorld, HeldByMap, NotClosing, Closing
<1>5. Alone'
  BY DEF Alone
<1>6. Private'
  BY DEF Private, InPlace, Alone
<1>7. QED BY <1>1, <1>2, <1>3, <1>4, <1>5, <1>6

LEMMA MoveAwayKeeps ==
  ASSUME HandoverAssumption, HandoverInv, NEW m \in Map, MoveAway(m)
  PROVE  HandoverInv'
<1> USE DEF HandoverAssumption, HandoverInv, Typed, Located, Updater, At, MoveAway, Is,
            Relocate, TakenOut, Busy, session, where, sets, ends, bounds
<1>1. Typed'
  OBVIOUS
<1>2. Located'
  BY DEF Places
<1>3. HasDeleter'
  BY DEF HasDeleter, Ending, Places
<1>4. Found'
  BY DEF Found, HeldByWorld, HeldByMap, NotClosing, Closing
<1>5. Alone'
  BY DEF Alone
<1>6. Private'
  BY DEF Private, InPlace, Alone
<1>7. QED BY <1>1, <1>2, <1>3, <1>4, <1>5, <1>6

LEMMA ExpireKeeps ==
  ASSUME HandoverAssumption, HandoverInv, NEW m \in Map, Expire(m)
  PROVE  HandoverInv'
<1> USE DEF HandoverAssumption, HandoverInv, Typed, Located, Updater, At, Expire, Is, End,
            Goto, session, where, sets, ends, bounds
<1>1. Typed'
  OBVIOUS
<1>2. Located'
  BY DEF Places
<1>3. HasDeleter'
  BY DEF HasDeleter, Ending, Places
<1>4. Found'
  BY DEF Found, HeldByWorld, HeldByMap, NotClosing, Closing
<1>5. Alone'
  BY DEF Alone
<1>6. Private'
  BY DEF Private, InPlace, Alone
<1>7. QED BY <1>1, <1>2, <1>3, <1>4, <1>5, <1>6

LEMMA ForceOutKeeps ==
  ASSUME HandoverAssumption, HandoverInv, NEW m \in Map, ForceOut(m)
  PROVE  HandoverInv'
<1> USE DEF HandoverAssumption, HandoverInv, Typed, Located, Updater, At, ForceOut, Is,
            Relocate, TakenOut, Busy, session, where, sets, ends, bounds
<1>1. Typed'
  OBVIOUS
<1>2. Located'
  BY DEF Places
<1>3. HasDeleter'
  BY DEF HasDeleter, Ending, Places
<1>4. Found'
  BY DEF Found, HeldByWorld, HeldByMap, NotClosing, Closing
<1>5. Alone'
  BY DEF Alone
<1>6. Private'
  BY DEF Private, InPlace, Alone
<1>7. QED BY <1>1, <1>2, <1>3, <1>4, <1>5, <1>6

LEMMA EndedKeeps ==
  ASSUME HandoverAssumption, HandoverInv, NEW m \in Map, Ended(m)
  PROVE  HandoverInv'
<1> USE DEF HandoverAssumption, HandoverInv, Typed, Located, Updater, At, Ended, Is, End,
            Goto, session, where, sets, ends, bounds
<1>1. Typed'
  OBVIOUS
<1>2. Located'
  BY DEF Places
<1>3. HasDeleter'
  BY DEF HasDeleter, Ending, Places
<1>4. Found'
  BY DEF Found, HeldByWorld, HeldByMap, NotClosing, Closing
<1>5. Alone'
  BY DEF Alone
<1>6. Private'
  BY DEF Private, InPlace, Alone
<1>7. QED BY <1>1, <1>2, <1>3, <1>4, <1>5, <1>6

LEMMA LeaveKeeps ==
  ASSUME HandoverAssumption, HandoverInv, Leave
  PROVE  HandoverInv'
<1> USE DEF HandoverAssumption, HandoverInv, Typed, Located, Updater, At, Leave, session,
            where, sets, ends, bounds
<1>1. Typed'
  OBVIOUS
<1>2. Located'
  BY DEF Places
<1>3. HasDeleter'
  BY DEF HasDeleter, Ending, Places
<1>4. Found'
  BY DEF Found, HeldByWorld, HeldByMap, NotClosing, Closing
<1>5. Alone'
  BY DEF Alone
<1>6. Private'
  BY DEF Private, InPlace, Alone
<1>7. QED BY <1>1, <1>2, <1>3, <1>4, <1>5, <1>6

LEMMA TickKeeps ==
  ASSUME HandoverAssumption, HandoverInv, Tick
  PROVE  HandoverInv'
<1> USE DEF HandoverAssumption, HandoverInv, Typed, Located, Updater, At, Tick, session,
            where, sets, ends, bounds
<1>1. Typed'
  OBVIOUS
<1>2. Located'
  BY DEF Places
<1>3. HasDeleter'
  BY DEF HasDeleter, Ending, Places
<1>4. Found'
  BY DEF Found, HeldByWorld, HeldByMap, NotClosing, Closing
<1>5. Alone'
  BY DEF Alone
<1>6. Private'
  BY DEF Private, InPlace, Alone
<1>7. QED BY <1>1, <1>2, <1>3, <1>4, <1>5, <1>6

LEMMA HandoverBegins == HandoverAssumption /\ HandoverInit => HandoverInv
<1> SUFFICES ASSUME HandoverAssumption, HandoverInit PROVE HandoverInv
  OBVIOUS
<1> USE DEF HandoverAssumption, HandoverInit, Updater, At
<1>1. Typed
  <2>1. /\ socket \in BOOLEAN /\ bDeleted \in BOOLEAN /\ loggingOut \in BOOLEAN
        /\ player \in BOOLEAN /\ beingPushed \in BOOLEAN /\ far \in BOOLEAN
        /\ global \in BOOLEAN /\ deleted \in BOOLEAN /\ left \in BOOLEAN
        /\ together \in BOOLEAN /\ crashed \in BOOLEAN
    OBVIOUS
  <2>2. moves \in 0..MaxMoves /\ logins \in 0..MaxLogins
    OBVIOUS
  <2>3. QED BY <2>1, <2>2 DEF Typed
<1>2. Located
  BY DEF Located, Places
<1>3. HasDeleter /\ Found /\ Alone /\ Private
  BY DEF HasDeleter, Ending, Found, HeldByWorld, HeldByMap, NotClosing, Closing, Alone, Private, InPlace
<1>4. QED BY <1>1, <1>2, <1>3 DEF HandoverInv

LEMMA HandoverGoesOn ==
  HandoverAssumption /\ HandoverInv /\ [HandoverNext]_handoverVars => HandoverInv'
<1> SUFFICES ASSUME HandoverAssumption, HandoverInv, [HandoverNext]_handoverVars PROVE HandoverInv'
  OBVIOUS
<1>1. ASSUME NEW t \in Updater, Goes(t) PROVE HandoverInv'
  BY <1>1, LookKeeps, UpdateKeeps, EnterKeeps, EnteredKeeps, AddGlobalSessionKeeps,
     NewWorldSentKeeps, PacketDoneKeeps, NoPacketKeeps, TimerKeeps, LogoutPlayerKeeps,
     DeletePlayerKeeps, LoggedOutKeeps, DeleteSessionKeeps, DanglingKeeps DEF Goes
<1>2. ASSUME NEW t \in Updater, Packet(t) PROVE HandoverInv'
  BY <1>2, TeleportKeeps, LogoutRequestKeeps, LoginKeeps, WorldportAckKeeps DEF Packet
<1>3. ASSUME NEW m \in Map,
             Pushes(m) \/ Pushed(m) \/ MoveAway(m) \/ Expire(m) \/ ForceOut(m) \/ Ended(m)
      PROVE  HandoverInv'
  BY <1>3, PushKeeps, PushHomeKeeps, PushedKeeps, PushRefusedKeeps, MoveAwayKeeps, ExpireKeeps,
     ForceOutKeeps, EndedKeeps DEF Pushes
<1>4. CASE UNCHANGED handoverVars
  BY <1>4 DEF handoverVars, session, where, sets, ends, bounds, HandoverInv, Typed, Located,
              HasDeleter, Ending, Found, HeldByWorld, HeldByMap, NotClosing, Closing, Alone, Private,
              InPlace
<1>5. QED BY <1>1, <1>2, <1>3, <1>4, LeaveKeeps, TickKeeps DEF HandoverNext

\* The inductive invariant: where each thread can be with the session, and who has the
\* session and the player, whatever threads met at it.
THEOREM HandoverInvariant == HandoverSpec => []HandoverInv
<1>1. HandoverInit => HandoverInv
  BY HandoverBegins, HandoverAssumption
<1>2. HandoverInv /\ [HandoverNext]_handoverVars => HandoverInv'
  BY HandoverGoesOn, HandoverAssumption
<1>3. QED BY <1>1, <1>2, PTL DEF HandoverSpec

\* Type correctness.
THEOREM HandoverTypes == HandoverSpec => []HandoverTypeOK
<1>1. HandoverInv => HandoverTypeOK
  BY DEF HandoverInv, Typed, Located, Places, Pc, HandoverTypeOK
<1>2. QED BY <1>1, HandoverInvariant, PTL

\* Unless it is being logged out for good, a session is always with somebody: nothing else
\* would ever update it again.
THEOREM HandoverSessionIsFound == HandoverSpec => []SessionIsFound
<1>1. HandoverInv => SessionIsFound
  <2> SUFFICES ASSUME HandoverInv, ~(crashed \/ deleted \/ left),
                      pool = {}, \A t \in Updater : at[t].pc = "idle"
               PROVE  (instance = World /\ global) \/ instance \in sessions
    BY DEF SessionIsFound
  <2>1. ~bDeleted
    BY DEF HandoverInv, HasDeleter, Ending, Typed, Located
  <2>2. QED BY <2>1 DEF HandoverInv, Typed, Found, HeldByWorld, HeldByMap
<1>2. QED BY <1>1, HandoverInvariant, PTL

\* As long as no two threads met at the session, a player is in the pool or the storage of
\* his own map only, and marked as being pushed while he is in a pool.
THEOREM HandoverOnePlace == HandoverSpec => []OnePlace
<1>1. HandoverInv => OnePlace
  BY DEF HandoverInv, Private, InPlace, OnePlace
<1>2. QED BY <1>1, HandoverInvariant, PTL

\* As long as they did not, the thread that handles packets or logs the player out is the
\* one of the player's map.
THEOREM HandoverOwnThread == HandoverSpec => []OwnThread
<1>1. HandoverInv => OwnThread
  BY DEF HandoverInv, Private, InPlace, OwnThread
<1>2. QED BY <1>1, HandoverInvariant, PTL
===============================================================================
