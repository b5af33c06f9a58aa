--------------------------- MODULE SocketLifecycle ---------------------------
(***************************************************************************)
(* Sockets and file descriptors of arcemu-shared/Network on Linux: accept,  *)
(* ConnectTCPSocket, Disconnect, Delete, the garbage collector, CloseAll,   *)
(* and the kernel's reuse of an fd as soon as it is closed.  Of reading and  *)
(* writing only what concerns the fd is left: SocketIO has the buffers and   *)
(* the send lock, so whether bytes remain is a free choice here.            *)
(*                                                                          *)
(* Three threads: the SocketWorkerThread, a "game" thread that sends to,    *)
(* kicks and connects sockets, and the main thread, which collects the      *)
(* garbage until it calls CloseAll.                                         *)
(***************************************************************************)
EXTENDS Integers

CONSTANTS Sock,     \* Socket objects, each used for one connection
          NFd,      \* fds are 1 .. NFd
          None

Fd     == 1 .. NFd

ASSUME LifecycleAssumption == /\ NFd \in Nat \ {0} /\ None \notin Sock \cup Fd

Thread == {"worker", "game", "main"}
Listen == [fd |-> 0, ev |-> "in"]    \* an event of the listening socket
Event  == [fd : Fd, ev : {"in", "out", "hup"}] \cup {Listen}

VARIABLES fd,         \* m_fd
          connected,  \* m_connected: the sockets for which it is true
          deleted,    \* m_deleted
          fds,        \* SocketMgr::fds
          trash,      \* SocketGarbageCollector::deletionQueue
          freed,      \* sockets it has deleted
          file,       \* kernel: the connection behind each fd
          reg,        \* kernel: what epoll watches each fd for
          ready,      \* kernel: epoll's ready list
          input,      \* kernel: connections with unread bytes
          gone,       \* kernel: connections whose peer has closed its side (FIN)
          broken,     \* kernel: connections that were reset or given up
          unseen,     \* history: connections whose edge for the FIN was spent on the data
                      \* before it, and not posted again or broken since
          batch,      \* the events epoll_wait returned and not yet handled
          at,         \* what each thread is doing
          index       \* i of CloseAll

socket == <<fd, connected, deleted>>
kernel == <<file, reg, ready, input, gone, broken, unseen>>
vars   == <<socket, fds, trash, freed, kernel, batch, at, index>>

Home(t) == CASE t = "worker" -> "loop" [] t = "game" -> "idle" [] t = "main" -> "run"

\* t executes pc on socket s; when Disconnect or Delete returns it goes on at ret.
\* closing: the Disconnect was called by Delete
Frame(pc, s, ret, closing) == [pc |-> pc, sock |-> s, ret |-> ret, closing |-> closing]
Resting(t)        == Frame(Home(t), None, Home(t), FALSE)
Goto(t, f)        == at' = [at EXCEPT ![t] = f]
Do(t, pc, s, ret) == Goto(t, Frame(pc, s, ret, FALSE))
Rest(t)           == Goto(t, Resting(t))
Step(t, pc)       == Goto(t, [at[t] EXCEPT !.pc = pc])
AtHome(t)         == at[t].pc = Home(t)
In(t, pc)         == at[t].pc = pc

\* return from Disconnect or Delete
Return(t) == IF at[t].closing THEN Step(t, "close")
             ELSE IF at[t].ret = Home(t) THEN Rest(t) ELSE Step(t, at[t].ret)

TypeOK == /\ fd \in [Sock -> Fd \cup {None}] /\ fds \in [Fd -> Sock \cup {None}]
          /\ connected \cup deleted \cup trash \cup freed \subseteq Sock
          /\ input \cup gone \cup broken \cup unseen \subseteq Sock
          /\ file \in [Fd -> Sock \cup {None}] /\ reg \in [Fd -> {"none", "in", "out"}]
          /\ ready \subseteq Fd /\ batch \subseteq Event
          /\ \A t \in Thread : at[t].sock \in Sock \cup {None}
          /\ index \in 1 .. NFd + 1

Init == /\ fd = [s \in Sock |-> None] /\ connected = {} /\ deleted = {}
        /\ fds = [f \in Fd |-> None] /\ trash = {} /\ freed = {}
        /\ file = [f \in Fd |-> None] /\ reg = [f \in Fd |-> "none"]
        /\ ready = {} /\ input = {} /\ gone = {} /\ broken = {} /\ unseen = {}
        /\ batch = {} /\ index = 1
        /\ at = [t \in Thread |-> Resting(t)]

-----------------------------------------------------------------------------
(* The kernel *)

\* A connection has something to report under the watch w.  EPOLLRDHUP is not asked
\* for, so the end of what the peer sends is EPOLLIN; a hang-up is always reported.
Fires(s, w) == s \in broken \/ w = "out" \/ (w = "in" /\ s \in input \cup gone)

\* EPOLL_CTL_ADD or MOD of fd f: what there is to report is reported anew
Watch(f, w) == /\ reg' = [reg EXCEPT ![f] = w]
               /\ ready' = IF Fires(file[f], w) THEN ready \cup {f} ELSE ready \ {f}
               /\ unseen' = unseen \ {file[f]}

\* PostEvent: EPOLL_CTL_MOD of whatever m_fd names now; fails if nothing is watched
PostEvent(s, w) == IF reg[fd[s]] = "none" THEN UNCHANGED <<reg, ready, unseen>>
                                          ELSE Watch(fd[s], w)

PeerSends(s) == /\ \E f \in Fd : /\ file[f] = s
                                 /\ ready' = IF reg[f] = "in" THEN ready \cup {f} ELSE ready
                /\ s \notin gone \cup broken /\ input' = input \cup {s}
                /\ UNCHANGED <<socket, fds, trash, freed, file, reg, gone, broken, unseen,
                               batch, at, index>>

\* Both wake whoever watches the fd
PeerCloses(s) == /\ \E f \in Fd : /\ file[f] = s
                                  /\ ready' = IF reg[f] # "none" THEN ready \cup {f} ELSE ready
                 /\ s \notin gone \cup broken /\ gone' = gone \cup {s}
                 /\ UNCHANGED <<socket, fds, trash, freed, file, reg, input, broken, unseen,
                                batch, at, index>>

PeerResets(s) == /\ \E f \in Fd : /\ file[f] = s
                                  /\ ready' = IF reg[f] # "none" THEN ready \cup {f} ELSE ready
                 /\ s \notin broken /\ broken' = broken \cup {s}
                 /\ unseen' = unseen \ {s}
                 /\ UNCHANGED <<socket, fds, trash, freed, file, reg, input, gone, batch,
                                at, index>>

-----------------------------------------------------------------------------
(* Opening: by the worker (OnAccept) or by a game thread (ConnectTCPSocket) *)

Unborn(s) == fd[s] = None
FreeFd(f) == file[f] = None

\* a new Socket object gets the fd; the connection is made
Born(s, f) == /\ Unborn(s) /\ FreeFd(f)
              /\ fd' = [fd EXCEPT ![s] = f]
              /\ file' = [file EXCEPT ![f] = s]

\* accept; _OnConnect sets m_connected.  The main thread closes the listener
\* before it calls CloseAll.
Accept(s, f) ==
  /\ AtHome("worker") /\ AtHome("main") /\ Listen \in batch
  /\ batch' = batch \ {Listen}
  /\ Born(s, f)
  /\ connected' = connected \cup {s}
  /\ Do("worker", "add", s, "loop")
  /\ UNCHANGED <<deleted, fds, trash, freed, reg, ready, input, gone, broken, unseen,
                 index>>

\* OnAccept returns at once: no connection or no fd left
AcceptNothing ==
  /\ AtHome("worker") /\ Listen \in batch
  /\ batch' = batch \ {Listen}
  /\ UNCHANGED <<socket, fds, trash, freed, kernel, at, index>>

Connect(s, f) ==
  /\ AtHome("game") /\ AtHome("main")
  /\ Born(s, f)
  /\ \/ connected' = connected \cup {s} /\ Do("game", "add", s, "idle")
     \/ UNCHANGED connected /\ Do("game", "delete", s, "idle")
  /\ UNCHANGED <<deleted, fds, trash, freed, reg, ready, input, gone, broken, unseen,
                 batch, index>>

\* AddSocket (writeBuffer is still empty), and OnConnect; a socket that finds its
\* slot taken is deleted
AddSocket(t) ==
  LET s == at[t].sock IN
  /\ In(t, "add")
  /\ IF fds[fd[s]] # None
     THEN Step(t, "delete") /\ UNCHANGED <<fds, reg, ready, unseen>>
     ELSE /\ fds' = [fds EXCEPT ![fd[s]] = s]
          /\ IF file[fd[s]] = s THEN Watch(fd[s], "in")
                                ELSE UNCHANGED <<reg, ready, unseen>>
          /\ Rest(t)
  /\ UNCHANGED <<socket, trash, freed, file, input, gone, broken, batch, index>>

-----------------------------------------------------------------------------
(* Disconnect and Delete, executed by any thread *)

\* m_connected.SetVal(false)
Cleared(s) == connected \ {s}

Disconnect(t) ==
  LET s == at[t].sock IN
  /\ In(t, "disconnect")
  /\ connected' = Cleared(s)
  /\ IF s \in connected THEN Step(t, "remove") ELSE Return(t)
  /\ UNCHANGED <<fd, deleted, fds, trash, freed, kernel, batch, index>>

\* Mutant: the slot is not emptied
Slot(s) == fds

\* fds[fd] = NULL
Emptied(s) == [fds EXCEPT ![fd[s]] = None]

RemoveSocket(t) ==
  LET s == at[t].sock IN
  /\ In(t, "remove") /\ Step(t, "callback")
  /\ IF fds[fd[s]] = s
     THEN /\ fds' = Emptied(s)
          /\ reg' = [reg EXCEPT ![fd[s]] = "none"]
          /\ ready' = ready \ {fd[s]}
     ELSE UNCHANGED <<fds, reg, ready>>
  /\ UNCHANGED <<socket, trash, freed, file, input, gone, broken, unseen, batch, index>>

\* if(!IsDeleted()) Delete()
NeedsDelete(s) == s \notin deleted

OnDisconnect(t) ==
  LET s == at[t].sock IN
  /\ In(t, "callback")
  /\ IF NeedsDelete(s) THEN Step(t, "delete") ELSE Return(t)
  /\ UNCHANGED <<socket, fds, trash, freed, kernel, batch, index>>

\* Mutant: Delete only tests m_deleted
NotMarked(s) == deleted

\* m_deleted.SetVal(true)
Marked(s) == deleted \cup {s}

\* from Disconnect, AddSocket, ConnectTCPSocket or CloseAll
Delete(t) ==
  LET s == at[t].sock IN
  /\ In(t, "delete")
  /\ deleted' = Marked(s)
  /\ IF s \in deleted THEN Return(t)
     ELSE Goto(t, [at[t] EXCEPT !.closing = TRUE,
                                !.pc = IF s \in connected THEN "disconnect" ELSE "close"])
  /\ UNCHANGED <<fd, connected, fds, trash, freed, kernel, batch, index>>

\* CloseSocket(m_fd), whatever it names now; QueueSocket.  A closed fd leaves
\* epoll's set, and the kernel forgets its connection.
CloseSocket(t) ==
  LET s == at[t].sock
      f == fd[s]
  IN /\ In(t, "close")
     /\ file' = [file EXCEPT ![f] = None]
     /\ reg' = [reg EXCEPT ![f] = "none"]
     /\ ready' = ready \ {f}
     /\ input' = input \ {file[f]} /\ gone' = gone \ {file[f]}
     /\ broken' = broken \ {file[f]} /\ unseen' = unseen \ {file[f]}
     /\ trash' = trash \cup {s}
     /\ IF at[t].ret = Home(t) THEN Rest(t)
        ELSE Goto(t, [at[t] EXCEPT !.pc = at[t].ret, !.closing = FALSE])
     /\ UNCHANGED <<socket, fds, freed, batch, index>>

-----------------------------------------------------------------------------
(* SocketWorkerThread::run *)

\* EPOLLHUP and EPOLLERR are looked at first
EventOf(f) == [fd |-> f, ev |-> IF file[f] \in broken THEN "hup" ELSE reg[f]]

EpollWait ==
  /\ AtHome("worker") /\ batch = {}
  /\ \E l \in SUBSET {Listen} :
       batch' = l \cup {EventOf(f) : f \in {g \in ready : Fires(file[g], reg[g])}}
  /\ batch' # {}
  /\ ready' = {}
  /\ UNCHANGED <<socket, fds, trash, freed, file, reg, input, gone, broken, unseen, at, index>>

\* one event: the Socket is looked up by fd number, now
Handle(e) ==
  /\ AtHome("worker") /\ e \in batch \ {Listen}
  /\ batch' = batch \ {e}
  /\ LET s == fds[e.fd] IN
     IF s = None THEN UNCHANGED at
     ELSE CASE e.ev = "hup" -> Do("worker", "disconnect", s, "loop")
            [] e.ev = "in"  -> Do("worker", "read", s, "loop")
            [] e.ev = "out" -> Do("worker", "write", s, "loop")
  /\ UNCHANGED <<socket, fds, trash, freed, kernel, index>>

\* IsDeleted() || !IsConnected()
Dead(s) == s \in deleted \/ s \notin connected

\* Mutant: recv's 0 is taken for bytes
OnlyErrors(c) == c \in broken

\* bytes <= 0
NoBytes(c) == c \notin input

\* One recv.  It gives the bytes there are; without any it gives 0 at the end of the
\* stream, an error, or EAGAIN, all of which disconnect.
ReadCallback ==
  LET s == at["worker"].sock
      c == file[fd[s]]
  IN /\ In("worker", "read")
     /\ IF Dead(s) THEN Step("worker", "posted") /\ UNCHANGED <<input, unseen>>
        ELSE IF ~NoBytes(c)
        THEN /\ Step("worker", "posted") /\ input' = input \ {c}
             /\ unseen' = IF c \in input \cap gone /\ fd[s] \notin ready THEN unseen \cup {c} ELSE unseen
        ELSE Do("worker", "disconnect", s, "posted") /\ UNCHANGED <<input, unseen>>
     /\ UNCHANGED <<socket, fds, trash, freed, file, reg, ready, gone, broken, batch, index>>

\* "changing to written state?"
AfterRead ==
  LET s == at["worker"].sock IN
  /\ In("worker", "posted") /\ Rest("worker")
  /\ \/ s \in connected /\ PostEvent(s, "out")
     \/ UNCHANGED <<reg, ready, unseen>>
  /\ UNCHANGED <<socket, fds, trash, freed, file, input, gone, broken, batch, index>>

\* WriteCallback: send fails on a broken connection only, since the peer may still read
\* what it gets after its FIN
WriteCallback ==
  LET s == at["worker"].sock IN
  /\ In("worker", "write")
  /\ \/ Step("worker", "drained")
     \/ ~Dead(s) /\ s \in broken /\ Do("worker", "disconnect", s, "drained")
  /\ UNCHANGED <<socket, fds, trash, freed, kernel, batch, index>>

\* PostEvent(EPOLLIN) when nothing is left to send
AfterWrite ==
  LET s == at["worker"].sock IN
  /\ In("worker", "drained") /\ Rest("worker")
  /\ PostEvent(s, "in") \/ UNCHANGED <<reg, ready, unseen>>
  /\ UNCHANGED <<socket, fds, trash, freed, file, input, gone, broken, batch, index>>

-----------------------------------------------------------------------------
(* The game thread: _OutPacket tests IsConnected(), and sends *)

Known(s) == s \in connected /\ \E f \in Fd : fds[f] = s

SendBegin(s) ==
  /\ AtHome("game") /\ Known(s)
  /\ Do("game", "post", s, "idle")
  /\ UNCHANGED <<socket, fds, trash, freed, kernel, batch, index>>

BurstPush ==
  /\ In("game", "post") /\ Rest("game")
  /\ PostEvent(at["game"].sock, "out")
  /\ UNCHANGED <<socket, fds, trash, freed, file, input, gone, broken, batch, index>>

Kick(s) ==
  /\ AtHome("game") /\ Known(s)
  /\ Do("game", "disconnect", s, "idle")
  /\ UNCHANGED <<socket, fds, trash, freed, kernel, batch, index>>

-----------------------------------------------------------------------------
(* The main thread *)

\* SocketGarbageCollector::Update, SOCKET_GC_TIMEOUT after QueueSocket: no call
\* on the socket is still running then
Collect(s) ==
  /\ AtHome("main") /\ s \in trash
  /\ \A t \in Thread : at[t].sock # s
  /\ trash' = trash \ {s} /\ freed' = freed \cup {s}
  /\ UNCHANGED <<socket, fds, kernel, batch, at, index>>

NextSlot == index + 1

\* CloseAll: fds[i] is tested, then fds[i]->Delete() is called
CloseAll ==
  /\ (AtHome("main") \/ In("main", "next"))
  /\ IF index > NFd THEN Step("main", "closed") /\ UNCHANGED index
     ELSE LET s == fds[index] IN
          /\ index' = NextSlot
          /\ IF s = None THEN Step("main", "next")
             ELSE Do("main", "delete", s, "next")
  /\ UNCHANGED <<socket, fds, trash, freed, kernel, batch>>

-----------------------------------------------------------------------------
Calls(t) == \/ AddSocket(t) \/ Disconnect(t) \/ RemoveSocket(t)
            \/ OnDisconnect(t) \/ Delete(t) \/ CloseSocket(t)

Worker == \/ EpollWait \/ AcceptNothing \/ \E e \in Event : Handle(e)
          \/ ReadCallback \/ AfterRead \/ WriteCallback \/ AfterWrite

Next == \/ \E t \in Thread : Calls(t)
        \/ Worker
        \/ BurstPush \/ CloseAll
        \/ \E s \in Sock : \/ PeerSends(s) \/ PeerCloses(s) \/ PeerResets(s)
                           \/ SendBegin(s) \/ Kick(s) \/ Collect(s)
                           \/ \E f \in Fd : Accept(s, f) \/ Connect(s, f)

Spec == Init /\ [][Next]_vars

\* A thread inside a call goes on with it and the worker serves its events; the
\* peers, the callers and the main thread owe nothing.  Each of these steps changes at
\* or batch.
FairSpec == /\ Spec
            /\ WF_<<at, batch>>(Calls("worker") \/ Worker)
            /\ WF_<<at, batch>>(Calls("game") \/ BurstPush)
            /\ WF_<<at, batch>>(Calls("main"))

-----------------------------------------------------------------------------
Running == AtHome("main")

\* However many threads disconnect and delete a socket at once, close() is called
\* for its own connection: never twice, and never for one that took its number.
CloseOwnFd == \A t \in Thread : In(t, "close") => file[fd[at[t].sock]] = at[t].sock

\* While the server runs, each slot of fds holds the Socket whose connection is
\* behind that fd, so an event reaches the connection its fd has now.
TableIsLive == Running => \A f \in Fd : fds[f] # None => fd[fds[f]] = f /\ file[f] = fds[f]

\* No slot of fds and no thread has a Socket the garbage collector deleted.
NoUseAfterFree == /\ \A f \in Fd : fds[f] \notin freed
                  /\ \A t \in Thread : at[t].sock \notin freed

\* A connection that is broken, or whose peer has closed it, is taken out of the table,
\* closed and given to the garbage collector by whichever thread comes first.  A close is
\* not noticed as long as there is always something to send, and never where the one
\* recv of its event gave data (SocketLinux.cpp:35), until something more is posted.
Writing(s)      == s \notin broken /\ \E f \in Fd : file[f] = s /\ reg[f] = "out"
DeadIsCollected ==
  \A s \in Sock : s \in gone \cup broken ~>
                    s \in trash \cup freed \/ []<>Writing(s) \/ [](s \in unseen)
=============================================================================
