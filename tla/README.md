# A verification of ArcEmu

ArcEmu is a game server: a *logon server* that authenticates players and lists
realms, and *world servers* that run the game. Both are C++ programs built on
one shared library of threads, sockets and database access. This directory has
TLA+ models of the parts of that code where several threads, two processes or a
failing network meet, TLC runs that check them on small instances, and proofs,
checked by TLAPS, that hold for every instance.

All models are of the Linux build. Paths below are relative to
`src/src/`; `PROJECT.json` maps every definition to the lines it models.

## 1. Inventory

| Part | State | Operations | Talks to |
|---|---|---|---|
| Thread pool (`arcemu-shared/Threading/ThreadPool.cpp`) | two sets of threads, a counter of tickets to exit, a semaphore per thread | `Startup`, `ExecuteTask`, `IntegrityCheck`, `KillFreeThreads`, `Shutdown`, `thread_proc` | every component that has a thread |
| Circular buffer (`Network/CircularBuffer.cpp`) | one block of memory, two regions A and B in it | `Write`, `Read`, `Remove`, `GetBuffer`/`IncrementWritten`, `GetSpace` | socket I/O |
| Socket I/O (`Socket.cpp`, `SocketLinux.cpp`, `SocketMgrLinux.cpp`) | two buffers, write mutex, send lock, epoll registration | `Send`, `BurstPush`, `ReadCallback`, `WriteCallback`, the worker's loop | kernel, all protocols |
| Socket life cycle (same files, `Socket.h`, `ListenSocketLinux.h`) | `m_fd`, `m_connected`, `m_deleted`, the fd table, the garbage queue | accept, connect, `Disconnect`, `Delete`, `RemoveSocket`, `CloseAll`, `GC::Update` | kernel, main thread |
| Realm link (`LogonCommHandler/Client` in the world, `LogonCommServer`, `InformationCore` in the logon) | connection in use, registered flag, authentication of both ends, realm list with flags, `mapLock`, `serverSocketLock`, `realmLock` | connect, challenge, register, population, time-outs on both sides, `ConnectionDropped`, `TimeoutSockets` | two processes over a network that fails |
| World login (`WorldSocket`, `LogonCommHandler`, `World`, `WorldSession`) | pending requests, session map, login queue, the pointers between socket and session | `_HandleAuthSession`, `HandleSessionInfo`, `InformationRetreiveCallback`, `Authenticate`, `UpdateQueuedSessions`, `OnDisconnect`, kick, log-out | network, world and map threads |
| Timed events (`EventableObject.cpp`, `EventMgr.h`) | events of an object, event list and insert pool of a holder, reference counts | add, remove, modify, relocate, `Update` | every game object, map threads |
| Database threads (`Database.cpp`) | query queue, buffer queue, connections, thread state | `Execute`, `Query`, `AddQueryBuffer`, `run`, `thread_proc_query`, `EndThreads` | MySQL, everybody |
| Queries on a connection (`MySQLDatabase.cpp`, `Database.cpp`) | open transaction, link to the server | `PerformQueryBuffer`, `_SendQuery`, `_HandleError`, `_Reconnect` | a server that rejects, breaks off, or whose answer is lost |
| Session hand-over (`WorldSession.cpp`, `World.cpp`, `MapMgr.cpp`, `Player.cpp`, `Object.cpp`) | instance number of a session, the sets it is in, its player and its map, log-out timer | `Update`, `LogoutPlayer`, `AddToWorld`, `RemoveFromWorld`, `_Relocate`, `Do` | world thread, map threads, client |
| Auction house (`AuctionHouse.cpp`, `AuctionMgr.cpp`) | auctions, deletion queue, a row per auction | sell, bid, buy out, cancel, `UpdateDeletionQueue`, `UpdateAuctions`, `LoadAuctions` | map threads, world thread, database, mail |
| Accounts and bans (`AccountCache.cpp`), `AuthSocket` | account map, ban list; challenge and proof of a client | reload, add, update; challenge, proof, reconnect, realm list | logon database, clients |
| Start and stop (`Master.cpp`, `Main.cpp`) | stop flags | start order, main loop, shutdown order | all of the above |
| Trade, mail, groups and loot, guilds, channels, battlegrounds | one lock or one map thread each | the opcode handlers | player, database |
| Combat, spells, AI, scripts | data of a map | rules | one map thread |

What is hard here, and what the properties are about:

* **Threads against a set they are in.** The pool kills threads that are still in
  its own sets; a session is deleted by one thread while two others hold it.
* **Lock-free hand-overs.** The send lock, the edge-triggered epoll registration
  and the write buffer are changed by senders and the worker under different locks.
* **Reuse.** A file descriptor is reused as soon as it is closed, while an event
  for its former owner waits; a realm is registered again while its old connection
  lives.
* **A network that fails in the middle.** Registration, session requests and
  time-outs of both ends race with late answers.
* **Moving between threads.** An object changes the map, and with it the thread and
  the holder that run its events, while events are added and executed; a session goes
  from the world thread to a map's and back while both look through their sets.
* **Stopping.** `EndThreads` takes queries out and puts them back while two threads
  pop them and others still push; the database is deleted afterwards.
* **Failure in the middle of a job.** A statement is rejected, its connection breaks,
  its answer is lost, and it is sent again.
* **Money without a lock.** Bids of several maps and the world thread's settlement
  read and write one auction in several steps.
* **Waiting.** `Shutdown` waits for threads, the watcher waits for answers while it
  holds `mapLock`, players wait in a queue for room.

The hazards, each at its line and with the properties that watch it, are in
`PROJECT.json`. Known hazards in parts that are not modelled: `WorldSocket::OutPacket`
sends at once when the write buffer has room although `UpdateQueuedPackets` has older
packets waiting, and `while ((pck == _queue.Pop()) != 0)` (`WorldSocket.cpp:229`)
compares where it means to assign; `AccountCache.cpp:85` deletes the `Account` of a
purged account while an `AuthSocket` may still hold it.

## 2. The models

Every module describes what one critical section, or one step between two reads
of shared state, does to the state: a lock that is taken and released within one
step is not a variable. Counters that would be unbounded have a bound among the
constants (named in each module).

### ThreadPool

`ThreadPool.tla` is `CThreadPool` and `thread_proc`. `pc[t]` is where a thread is
in `thread_proc`; `sem` the value of its semaphore, so that a `Resume` may come
before the `Suspend` it is meant for; `active`, `free` and `toExit` are
`m_activeThreads`, `m_freeThreads` and `_threadsToExit`. `phase` is the main
thread in `Startup`, the server's life and the loop of `Shutdown`. Tasks are the
objects given to `ExecuteTask`; a *service* is one whose `run` ends only after
`OnShutdown`, as the servers' own threads do. `IntegrityCheck` may run at any
time, at most `MaxChecks` times.

* `NoDanglingThread`, `NoThreadForgotten`: the two sets list living threads only,
  and a sleeping thread nobody is about to wake is where `ExecuteTask` finds it.
* `RunsOnce`, `EveryTaskRuns`: a task is run once, and is run. The comment at
  `ExecuteTask` (`ThreadPool.h:192`) says "grabs/spawns a thread, and tells it to execute
  a task", and one thread it may grab does not listen: `KillFreeThreads` leaves its
  victims in the pool, and one that is awake and past its look at `ExecutionTarget` goes
  on to `ThreadExit`. `missed` records the tasks handed to such a thread, at the moment
  `ExecuteTask` does it; only these may go down with it, be overwritten or cleared
  (`Lost`). A task handed to any other thread, a victim that has still to look included,
  must run.
* `ShutdownReturnsIfCounted`: `Shutdown` returns if it began with a ticket for
  every living thread and with no task running on a thread of the free pool.
  Without that it may poll for ever: a thread started with no target takes the
  ticket counted for another, and a task on a free-pool thread is never told to
  stop.

### Buffer

`BufferRegions.tla` has the arithmetic of the two regions as operators;
`CircularBuffer.tla` adds the memory and the operations; `ByteStream.tla` is the
abstract specification: a first-in first-out stream. Bytes are numbered by their
position in the stream, so a byte overwritten, lost or out of place is seen.
`CircularBuffer` implements `ByteStream` (`IsByteStream`). `HalfUsable` is what
`ReadCallback` relies on when it takes a receive of nothing for a closed
connection: contents and free space are together at least half the buffer.

### SocketIO

`SocketIO.tla` uses `BufferRegions` for the two buffers of one connection. Senders
call `Send`; the worker handles the events of the fd; the kernel has a send and a
receive buffer, and the fd is ready on edges only. What a protocol handler sends
from `OnRead` is one more `Send`.

* `PendingIsPosted`: waiting bytes always have the fd registered for writing,
  although the worker decides about it without the write mutex. (`LockIsBinary`, that
  the unsigned send lock never goes below zero, is proved only.)
* `SentUnlessWrapped`, `ReadUnlessBurst`: what is accepted goes out and what has
  arrived is read, under conditions the code needs: the write buffer never wraps,
  since one `send` per edge does not reach region B, and one `recv` per edge does
  not take more than the room of region A or B. When it does wrap, `send` empties
  region A without filling the kernel, so no further edge comes; the send lock stays
  taken, so the next `Send` does not post either; and with the fd registered for
  writing only, reading stalls too.

### SocketLifecycle

`SocketLifecycle.tla` has three threads (worker, game, main) inside `Disconnect`,
`Delete`, `RemoveSocket`, `AddSocket` and `CloseAll`, each call a small stack of
program counters, and a kernel that reuses descriptors at once. The garbage
collector's 15 seconds are taken as what they are meant to be: a socket is deleted
when no thread is inside a call on it. Known inside `CloseAll`: it reads `fds[i]`
twice without a lock, so that `RemoveSocket` in between makes it call through a
null pointer; and a stale writable event on a fresh connection takes its send lock
below zero. Neither has a property here.

* `CloseOwnFd`, `TableIsLive`, `NoUseAfterFree`: a descriptor is closed once and by its
  owner, the table never holds a dead socket, and nobody has a deleted one.
* `DeadIsCollected`: a connection that is broken or closed by its peer is collected. The
  two are different to the worker. `EPOLLHUP` and `EPOLLERR` are reported for a broken
  connection whatever is posted. `EPOLLRDHUP` is not asked for, so a peer's close (FIN) is
  an `EPOLLIN` like any other, which `ReadCallback` notices when `recv` returns 0. It
  calls `recv` once per edge: with data in front of the FIN it gets the data, and the
  close stays unseen until the server sends something and `PostEvent` has it reported
  anew (`unseen`). The property exempts just that, from the `recv` that spent the edge
  to the next `PostEvent`, and a connection that always has something to send. The model also reaches states in
  which a healthy connection is disconnected because of an event fetched for the one
  that had its descriptor before; no document of the code says otherwise.

### TimedEvents

`TimedEvents.tla` has one object with its events, and the holders that execute them:
one per map, and `World` for the holder of `WORLD_INSTANCE`. Every holder is updated by
one thread, which may also add and remove events, in a callback or between two
updates; only the thread of a map puts the object into the map and takes it out, also
when it still waits there to be added.
`at[h]` is where that thread is in `Update`; while it is there other threads find the
holder's `m_lock` taken and use the insert pool. `event_AddEvent` is two steps
(`AddEvent`, `AddToHolder`), because it uses the holder after `m_lock` is released.
Whether an event is due is left open. `crashed` is set where a null holder, a freed
event or a destroyed object would be used: an `event_AddEvent` that a
`RemoveFromWorld` or a removal overtakes does that, and so does the destructor, which
takes no lock. The safety properties speak of runs without it. Also seen: an object
taken out of its map and put back before the holder's next `Update` has its events
twice in the list, so that a repeating event runs at double speed; and events that
have expired stay in `m_events` (`AddObject` says "shouldn't be any in here,
actually"). `Object::event_GetInstanceID` says it returns -1 for an object that is in
no world; it returns 0 (`MapMgr.h:40`), for which there is no holder.

* `RefsExact`, `RemovedIsFreed`: an event's count is the number of references to it,
  and reaches zero after its removal. `HeldIsListed`, `EventIsReached`: no relocation
  loses an event of the object's holder, also when the holder is being updated, and
  the holder's `Update` comes to it. `FlaggedNotInWorld`: `WorldRunnable` does not
  execute events flagged not to run there.
* Run `events_lost`: events are lost that wait for their object to come back to a
  world. An event added between `AddToWorld` and `PushToWorld` sets `m_holder` to the
  holder of the new map, so that `event_Relocate` sees no change and leaves the older
  events where they are, in no holder.

### RealmLink

`RealmLink.tla` is one world server and one logon server with one realm. The
threads are the world's watcher (`UpdateSockets`, `Connect`), the two network
threads, and the logon's main thread in `TimeoutSockets`. Packets travel in order;
a connection can be reset, held up for a while or for good, `MaxFaults` times.
Clocks are left out: a time-out may fire when the packet it waits for is late and
must when it never comes. Pings only keep clocks fresh and are the guards of the
time-outs. A wrong password is a fault (`RefuseAuthChallenge`). Character counts
and the list of allowed addresses are left out.

* `StaleNeverHides`: the end of an old connection does not hide the realm of the
  new one. `OfflineWithConnection`: a realm listed online has a connection, except
  that a packet held up by the network and handled while `TimeoutSockets` runs may
  put it online again.
* `Recovers`: once the network stops failing the realm is online again and stays
  so, unless a registration of an abandoned connection is still under way. Such a late
  registration takes the realm over, since `HandleRegister` replaces whatever is listed
  under the name, and the end of its connection hides the realm although its server is
  connected, against the comment at `LogonCommServer.cpp:184` ("socket timout will DC
  old id after a while, make sure it's not the one we restarted").

### WorldLogin

`WorldLogin.tla` follows a player's connection to a session: request to the logon
server, answer, eviction of another session of the account, the limit, the queue
and the session map. `net` is the network thread, `adm` the thread in
`UpdateQueuedSessions`, `upd` the world and map threads. All connections are there from
the start, and `MCWorldLogin.tla` gives each its account. A pointer that is read several
times is read in several steps. `crashed` is set where the code would use a null pointer
(`UpdateQueuedSessions` reads `GetSession()` three times), a deleted session
(`FindSession` releases its lock before the session is used) or a freed socket: all are
reachable, and the properties speak of runs without them. Also seen: the limit can be
passed by one, and by no more (`LoginLimit`, section 4), since two threads compare and
count without a common lock; and a session whose client leaves the queue is never freed.

A login packet is a `Request`, known by the id that `ClientConnected` gives it; a client
may send several (`From`), since `OnRead` handles every `CMSG_AUTH_SESSION`.
`pending_logons` (`pending`) has all of them, the socket remembers one, `mRequestID`
(`current`). When a second packet overwrites it, the answer to the first is dropped
without a word (`requestid != mRequestID`) and the one to the second is not looked at
(`Authed` is set by then), so the player waits for ever; and `OnDisconnect` takes one
entry off the list and leaves the other, with a pointer to a socket that is freed soon
after (`AnswerFreed`). The same happens when a kick runs `OnDisconnect` between
`ClientConnected` and the assignment of `mRequestID`. `stale` records the requests left
behind in these two ways. `filled` says that `realm_classes` and `realm_races` have rows:
without, `SendAuthResponse` returns before it sends anything, and a player who is let in
or queued is not told so.

* `ClosedIsForgotten`: no request, session or queue entry keeps a pointer to a socket
  that is closed, but for the requests in `stale`. `ListedIsLive`: a session in the map is
  not deleted. `LoginIsAnswered`: a player is answered or disconnected, unless the link to
  the logon server is lost, he logs off, his request is one a second packet has
  overwritten, or the tables are empty. `QueueMoves`: the queue moves when there is room.
  Seen without a property: a session that waits in the queue is not found by the check
  for a second login, and its account is in the game twice.

### JobQueue, DatabaseThreads

`JobQueue.tla` is what a database queue promises: a job is performed once, and in the
order of arrival until the queue is closing. `DatabaseThreads.tla` is `Database` with
its two queues, the execute thread (`exec`), the query-buffer thread (`buff`), callers
that come from any thread, and the main thread in `EndThreads`, the pool's `Shutdown`
and the deletion of the database (`main`). `FQueue::pop` returns at once, with nothing
when the queue is empty. A connection is taken by spinning (`GetFreeConnection`).

* `ServesInOrder`: the database implements `JobQueue`, once for each queue.
  `OwedIsPerformed`: what was queued when the thread state was set is performed before
  `EndThreads` returns or, a buffer, before the pool has shut down.
  `NoUseAfterDelete`: nobody is inside the database when it is deleted, although
  `EndThreads` does not wait for the query-buffer thread. `EndThreadsReturns`: it
  returns, and what was queued is performed.
* Seen without a property: the two loops of `EndThreads` take a job out and put it back
  until they meet an empty queue, which no fairness promises (`LoopsEnd` is the
  hypothesis of `EndThreadsReturns`), and they change the order; the comment at
  `Database.cpp:209` ("Wait till the other queries are done, then execute") describes a
  wait `WaitExecute` does not make; a query that `Execute` pushes after the execute
  thread's last look is lost, although `Master.cpp:496` stops the thread first "so we
  don't lose any queries/data"; with `ConnectionCount` 1 nobody but the query-buffer
  thread ever gets the connection; and the logon server (`Main.cpp:509`) deletes its
  database before it shuts the pool down, the order in which `NoUseAfterDelete` fails.

### QueryTransactions

`QueryTransactions.tla` is the way a job takes on its connection, against a server that
answers, rejects a statement, or breaks the connection before or after it had its
effect. `Buffer` are the jobs that are transactions, `Size` the statements of a job;
`tx` is what the server has open on a connection, `stored` what has its effect.
`Untransacted` are the statements on tables without transactions: `SaveToDB`'s buffer
writes `playerskills`, `playerspells`, `playerdeletedspells` and `playerreputations`
(`Player.cpp:2712-2716`), which `character_structure.sql:771,886,899,909` creates as
MyISAM. Such a row is stored when it is sent, inside a transaction too, and stays when the
transaction is rolled back; every other statement waits for the `COMMIT` (`Defers`). A
failed reconnect is a choice (`mPort` is never assigned, so that `_Reconnect` may fail
though the server is there), and so is a reconnect that the client library makes by
itself.

* `FreeIsClean`: no transaction stays open on a free connection.
  `WholeUnlessTroubled`: a buffer is all or nothing unless a statement failed or its
  connection broke; its rows in tables without transactions are there before the rest,
  and are all there, once each, in the end. `TwiceOnlyIfUnanswered`: a statement has its effect twice only if
  its answer was lost, and never three times.

### SessionHandover

`SessionHandover.tla` follows one session and its player. `World` stands for the world
thread and for instance 0, a map for its thread, its number and its `MapMgr`. Whoever
finds the session in his set and his own number in it updates it; `at[t]` is where a
thread is in that. Time is one action: a log-out timer runs out while no thread is at
work on the session. A ping time-out is a client that leaves. `together` records that
two threads were at work on the session at once, `crashed` that a freed session, player
or `MapMgr` was used, `left` that a map ended with the player in its pool or dropped him.
A push has three outcomes: the player is in the map; his position is out of its bounds
and he is sent home to another map (`PushHome`), from within the loop over the pool that
`RemoveObject` takes him out of, so that going on with that loop is a choice between a
crash and nothing; or he cannot be sent home (`PushRefused`) and is in no list of the map.

* `SessionIsFound`: a session is always with somebody, also after two threads met at
  it. `OnePlace`, `OwnThread`: as long as they did not, the player is in one place and
  his packets are handled by the thread of his map. `GoneEnds`: a client that is gone is
  logged out and its session deleted, or its player is `Stuck`.
* Seen without a property: `RemoveFromWorld` hands the session to the world thread in
  the middle of its work, so that two threads do meet; `m_beingPushed` is not cleared
  when a player is taken out of a pool, so that a client that is gone then keeps its
  session and player for ever (`Stuck`); the comment at `WorldSession.cpp:116` ("We
  can't delete him if we are") is true between `AddToWorld` and `OnPushToWorld` only; a
  `MapMgr` that ends teleports the players of its storage ("Teleport any left-over
  players out.", `MapMgr.cpp:1331`), not those of its pool.

### AuctionHouse

`AuctionHouse.tla` has the threads of several maps, each with a player, and the world
thread in `AuctionMgr::Update`. The map of auctions and `removalLock` are locks held
within a step, but for `UpdateDeletionQueue`, which holds the latter throughout
(`world`). A bid is a look-up with its checks, the refund of the former bidder, the
entry of the new one, and for a buy-out the three steps of `QueueDeletion` and the
notification, all with the pointer that was looked up. What is past its time at a sweep
is a choice. Anybody may cancel an auction and anybody but the owner may bid, also
nothing (`Price` starts at 0): `HandleCancelAuction` has no test of the owner, and a bid
of 0 on an auction without a buy-out price equals that price, so that it is accepted over
a higher bid and takes the branch of the buy-out. `NoPrice` stands where no bid is being
made. A restart loads any of the rows; a row whose item is not found is deleted. `row` is
what the queued queries will make of an auction's row, `unsaved` the auctions whose INSERT
still waits; the DELETE does not wait. `held` is an account of each player's money in an
auction, `got` the mails that carried the item.

The code has no lock on an auction, and the properties say exactly which situations
break what; `spoiled` records them, and without any one of them the property fails:

* `overlap`: two bids pay the same bidder back. `expired`: a bid is taken after the
  sweep found the auction unsold, and is kept by nobody; no race is needed, since the
  deletion queue is served some seconds later. `served`: an auction is settled while a
  handler has it in hand. `again`: it is queued twice, since `QueueDeletion` tests
  `Deleted` before it takes the lock and `UpdateAuctions` does not test it. `restart`: a
  buy-out, which is not written to the row, is pending at a restart. `ghost`: the DELETE
  overtakes the INSERT, and the row comes back. `dropped`: a restart did not find the item.
* `MoneyIsReturned`: when an auction has ended every bidder has been paid back, or has
  paid for the item, but for six of these. `ItemOnce`: an auction ends with its item sent,
  but for `dropped`, and to one player only, also over a restart, but for `ghost`.
  `UsedAfterDelete`: a freed auction is used only after `again` or `served`.

## 3. Runs

| Run | Instance | Shows |
|---|---|---|
| `pool` | 3 threads, 2 tasks of which one is a service, reserve 1, 2 integrity checks | all pool properties; three threads are enough for one to be killed while another takes its ticket and a third is resumed |
| `buffer` | 5 bytes, 12 written | `HalfUsable` and the refinement of `ByteStream`; the buffer wraps several times and has every shape |
| `io` | 2 senders, write buffer 4, read buffer 3, kernel 2 and 3 | registration and delivery; two senders and the worker are all who meet at the send lock |
| `life` | 2 sockets, 1 descriptor, with shutdown | descriptor and table properties; one descriptor forces reuse |
| `events` | 1 map, 2 events of which one is flagged and one deletes its object, each run once or (the flagged one) for ever, 2 moves | all event properties; the second move brings an object back to a map whose list still has its events. Three events with one move were checked for safety once |
| `events_lost` | the same | **violated**: "let's just wait till something will add us again to world" - the events stay behind |
| `realm` | 2 connections, 2 faults | all link properties; three connections with two faults were checked for safety once |
| `login` | 3 connections, 2 of one account, 1 of a GM, room for 1; the client of the first sends its login packet twice | all login properties; two packets are what it takes to overwrite a request |
| `db` | 2 statements, 1 buffer, 2 callers of which one is the main thread, 2 connections | all properties of the queues; two statements show an order, and two connections are the least with which anyone but the query-buffer thread gets one |
| `tx` | a buffer of 3 statements, the second on a table without transactions, a single statement, 2 threads, 2 connections | all properties of transactions; a connection may break at every point, and the other job may take it next |
| `session` | 2 maps of which one is an instance that may end, 2 moves, 1 login | all hand-over properties; two moves bring the player there and back |
| `auction` | 3 players, 1 item, prices 0 to 2, buy-out 0 to 2, 3 requests, 1 restart | all auction properties; three bids are the least for two to replace a third |

The type invariants (`TypeOK` of each module; `HandoverTypeOK`, `LinkTypeOK` and
`BufferTypeOK` where a proof module extends two of them) were checked with the same
instances, and are proved.

`CHECK_DEADLOCK FALSE` is set where a model may stop: the work is bounded by a
constant, the peers and players owe nothing, or the server has shut down.

**Fairness.** Threads are scheduled (weak fairness of each thread's steps) and a
thread inside a call goes on with it. Nobody has to call, to connect, to send or to
leave. The peer of a socket takes what is sent to it. `RealmLink` needs strong
fairness once, for `ConnectionDropped`: it waits for `mapLock`, which the watcher
takes and releases again and again. Time-outs must fire only where the answer never
comes. In `WorldLogin` the logon server answers while the link holds: its answer is a
step of the network thread that handles it. In `DatabaseThreads` a thread in `GetFreeConnection` tries one connection after
the other and finds one that is free again and again (strong fairness); in
`SessionHandover` the world thread releases `SessionsMutex` between its rounds, so that
a map's thread that waits for it gets it at last (strong fairness), and the time of a
log-out comes. `QueryTransactions` and `AuctionHouse` are checked for safety only.

## 4. Proofs

The proofs hold for every value of the constants that the named assumptions allow.

* **`Threads_proofs`**, the pool - any number of threads and tasks. `NoDanglingThread` is
  not inductive: a thread that `IntegrityCheck` marks stays in the free pool until it
  passes `ThreadExit`, and what must be excluded is a second `Resume` that lets a
  thread go past `Suspend` while it is still listed. The invariant `PoolInv` adds
  `Settled` (until `Shutdown` begins only a doomed thread is resumed more than once;
  any other sleeps in the free pool with its semaphore at zero, or has left it with
  exactly one post waiting), `Condemned` (after that, while tickets remain, everyone
  in the free pool is doomed) and `Known` (a thread in `Suspend` is in the free pool
  or resumed already). Proved: `PoolTypes`, `PoolNoDanglingThread`,
  `PoolNoThreadForgotten`; and `PoolRunsOnce`, an action property, from the invariant
  that a task is the target of one thread at most.
* **`Threads_proofs`**, the session - any number of maps and any bounds on moves and
  logins. `Found` says where the session is although threads met at it: a player in no
  map has left it to the world thread or to a thread on its way to hand it over or to
  delete it (`HeldByWorld`), one that is in a map and out of its pool has it listed there
  (`HeldByMap`), and a map that ends has nobody but in its pool (`NotClosing`).
  `HasDeleter` ties `bDeleted` to the thread that set it. What holds only while no two
  threads met is apart: `Alone` (one thread at most is at the session) and `InPlace` (the
  player is where the session says, but between the two halves of `AddToWorld`).
  `HandoverSessionIsFound`, `HandoverOnePlace`, `HandoverOwnThread` and `HandoverTypes`
  follow.
* **`SocketBuffers_proofs`** - any capacities, senders and stream. The lemmas say what
  storing and dropping do to the two regions of the buffer; the invariant `BufferInv` says
  that regions are apart and hold the bytes `taken ..`, in order. From it follow
  `BufferTypes`, `BufferNoOverlap`, `BufferInOrder`, `BufferHalfUsable`, and
  `BufferIsByteStream`: every step is a step of the abstract stream or a stutter. For
  `SocketIO`, `IOInv` ties the send lock to the registration of the fd, to the owner of the
  write mutex and to the worker's place in its loop; `IOLockIsBinary` and
  `IOPendingIsPosted` follow.
* **`SocketLifecycle_proofs`** - any sockets and descriptors. What must be excluded is
  that two threads close one socket's descriptor, or one closes a descriptor that is
  somebody else's by now. The invariant: `Files` (an open socket's number is its own in
  the kernel), `Held` (a thread inside a call holds a socket that is not deleted),
  `Closer` (one thread at most is between the test of `m_connected` or `m_deleted` and
  the close), `Adding` and `Leaving` (the table while a socket enters and leaves it), and
  `TableIsLive` itself. It gives `LifecycleCloseOwnFd`, `LifecycleTableIsLive`,
  `LifecycleNoUseAfterFree` and `LifecycleTypes`.
* **`DatabaseThreads_proofs`** - any jobs, callers and connections. `Held` says who has
  which connection, `Ended` how far each thread is when `EndThreads` and the pool have
  returned, `Owed` where a job is that is owed. `DatabaseNoUseAfterDelete`,
  `DatabaseOwedIsPerformed` and `DatabaseTypes` follow. `DatabaseServesInOrder` is the
  refinement of `JobQueue` by both queues: it needs `Once`, that a job is in one place
  only (a thread's hand, `EndThreads`' hand, a queue, or performed), since a job put back
  by `EndThreads` must not be one that is queued already.
* **`QueryTransactions_proofs`** - any jobs, sizes, threads and connections. `Own` gives
  a connection to one thread, `Clean`, `Opened` and `Effects` tie what the server has
  open and stored to the place of each thread in its job, and `Whole` is
  `WholeUnlessTroubled` with the jobs under way, of which the rows without transactions
  are stored as far as the job has come. `TransactionFreeIsClean`,
  `TransactionWhole`, `TransactionTwice` and `TransactionTypes` follow.
* **`TimedEvents_proofs`** - any events, flags, maps and moves. `Counted` says that an
  event's count is the number of its entries in all lists, of its entries in all insert
  pools, and of its marks (the object's table, a callback that holds it). A sum over
  sequences cannot be proved about by recursion, so the entries are sets of triples
  (holder, list or pool, position), and each operation maps the set before to the set
  after by an injection, one more or one less. `Slots` says that the list still has the
  entry an `Update` is at, which is why it may erase it. `Held` and `Unheld` say that an
  event of the object's holder is listed, pooled, or in the hands of a thread between the
  two halves of `event_AddEvent`. `FlaggedNotInWorld` needs that no flagged event is ever
  assigned to `WORLD_INSTANCE` (`NotAssigned`): the flag is looked at only when an event is
  added, and a relocation never goes to the world's holder. `EventsRefsExact`,
  `EventsHeldIsListed`, `EventsFlaggedNotInWorld` and `EventsTypes` follow.
* **`LogonLink_proofs`**, the realm - any number of connections and faults. Two threads
  close a connection at the logon, in several steps, and two packets set the realm's flags.
  `Shown` says what holds of a realm listed online: its connection is open, listed, not
  being timed out, and has its id or is about to get it, or is just being closed by the
  network thread. It needs `Working` (a packet that sets flags is handled only for a
  connection that is open and not being timed out, or was slow), and that `Timing` (one
  that is being timed out has nothing but its challenge to be handled, or was slow), and
  that `Asking`: a connection the world closed while the network was fine was never
  registered, since the world closes one by itself only before it registers it, or when it
  cannot be heard. `OneUp` says that the world has one connection open, and what a
  `ConnectionDropped` that waits for `mapLock` can still mean. `LinkStaleNeverHides`,
  `LinkOfflineWithConnection` follow, and, from the number of packets that can be under
  way (`Light`), `LinkTypes`.
* **`LogonLink_proofs`**, the login - any connections, login packets, accounts and limit. `Asked`
  says who has had his answer, and that a request on the list is the one its socket's
  `mRequestID` names, or is about to name, or is `stale`; `Entering` in whose hands a session is until it is listed (one thread's,
  or the queue's), `Listing` what World's map may name and what the thread that evicts
  holds, `Closing` is `ClosedIsForgotten` with the pointers between socket and session.
  The lemmas say what the queue holds after it is changed. `LoginClosedIsForgotten`,
  `LoginListedIsLive` and `LoginTypes` follow. `LoginLimit` says how far the limit on
  players can be passed: `LimitInv` counts the ordinary players listed and those a thread
  has found room for, one in the hands of each of the two threads at most, and never
  comes to more than the limit and one.
* **`AuctionHouse_proofs`** - any players, items, prices, requests and restarts. `Places`
  and `Marked` say where an auction can be and that it is marked before it is queued,
  `QueuedOnce` that it is queued once unless `again`, `Served` and `Sent` tie the item to
  the one settlement; `Kept` says that an auction leaves the list only by it, and that it
  has a row meanwhile, which a restart needs. For the money, `Share` is what a player should have in an auction,
  his bid and the bid his thread has paid for but not entered, and `held` equals it unless
  `spoiled` says otherwise. `AuctionMoneyIsReturned`, `AuctionItemOnce`,
  `AuctionUsedAfterDelete` and `AuctionTypes` follow.

The assumptions (`PoolAssumption`, `HandoverAssumption` and so on, one per module) name
what the constants are: sizes and bounds are numbers, a thread pool has finitely many
threads, `None` and the names of threads are not among the things they stand beside, and
every connection belongs to an account.

Every invariant, action property and refinement a run checks is a theorem. Only
model-checked: the liveness properties (`EveryTaskRuns`, `ShutdownReturnsIfCounted`,
`SentUnlessWrapped`, `ReadUnlessBurst`, `DeadIsCollected`, `Recovers`, `LoginIsAnswered`,
`QueueMoves`, `EventIsReached`, `RemovedIsFreed`, `EndThreadsReturns`, `GoneEnds`), since
fairness and ENABLED are beyond the prover, and the violation. TLC also checked `LinkInv`
once with three connections and three faults, and `LimitPassedByOne` with three accounts
and room for one, where the limit itself is passed.

## 5. Not modelled

`PROJECT.json` lists every part with its reason. The greater part of the source is game
rules (combat, spells, AI, quests, scripts): large tables and long functions that one
map thread runs to the end without meeting another; a small instance would say nothing
of them, and that is why the models cover a small share of the lines. SRP6, RC4 and
SHA-1 are arithmetic on large numbers. Trade, groups, guilds, channels and battlegrounds
keep lists behind one lock or in one map. Housekeeping threads only wait and call; the
pool model has them as services. Start and stop are the sequence in which one thread
calls what is modelled here.

Within the parts that are modelled: in `RealmLink` account mapping, console log-in and
the list of allowed addresses; in `SessionHandover` the immediate log-out of a GM and
the shutdown of the server; in `AuctionHouse` the deposit, the cut, `UpdateOwner`, and a
crash, which would need the saving of players too.

## 6. What remains

1. The outgoing packet queue of `WorldSocket` above `SocketIO`; abstract specification:
   packets leave in the order they were sent.
2. The reload of `AccountMgr` against an `AuthSocket` that holds an account.
3. The shut-down order of `Master` as a composition of `DatabaseThreads`, `ThreadPool`
   and `SocketLifecycle`.
4. Theorems about two components together (what a step of both keeps), once item 3 is
   there; and that a session in the login's map is one the hand-over begins with.
