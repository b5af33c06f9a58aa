------------------------------- MODULE SocketIO ------------------------------
(***************************************************************************)
(* One connected Socket of arcemu-shared/Network on Linux: the threads that *)
(* call Send, the SocketWorkerThread that serves its epoll events, and the  *)
(* kernel's two socket buffers.  The fd is registered edge-triggered, for   *)
(* either reading or writing, and m_writeLock is meant to hold exactly when  *)
(* it is registered for writing.                                            *)
(***************************************************************************)
EXTENDS BufferRegions, FiniteSets

CONSTANTS Sender,    \* threads that call Socket::Send
          None,      \* nobody holds m_writeMutex
          RCap,      \* size of readBuffer
          KOut,      \* size of the kernel's send buffer
          KIn,       \* size of the kernel's receive buffer
          LockMod,   \* m_writeLock is unsigned: it counts modulo LockMod
          Lengths,   \* lengths of the messages sent either way
          MaxSends,  \* bound on the calls of Send
          MaxRecvs   \* bound on the peer's messages

ASSUME SocketAssumption == /\ RCap \in Nat \ {0} /\ KOut \in Nat \ {0} /\ KIn \in Nat \ {0}
                           /\ LockMod \in Nat \ {0, 1}
                           /\ Lengths \subseteq Nat \ {0}
                           /\ MaxSends \in Nat /\ MaxRecvs \in Nat
                           /\ None \notin Sender

VARIABLES wbuf,      \* writeBuffer
          wlock,     \* m_writeLock
          owner,     \* who holds m_writeMutex
          spc,       \* where each sender is in Send
          wpc,       \* where the worker is in SocketWorkerThread::run
          rbuf,      \* readBuffer
          connected, \* m_connected
          mask,      \* what the fd is registered for: "in" or "out"
          ready,     \* the fd is in epoll's ready list
          kout, kin, \* bytes in the kernel's send and receive buffers
          sends, recvs

vars  == <<wbuf, wlock, owner, spc, wpc, rbuf, connected, mask, ready, kout, kin, sends, recvs>>
epoll == <<mask, ready>>

R == INSTANCE BufferRegions WITH Cap <- RCap

TypeOK == /\ wbuf \in Regions /\ rbuf \in R!Regions
          /\ wlock \in 0 .. LockMod - 1
          /\ owner \in Sender \cup {None}
          /\ spc \in [Sender -> {"idle", "written", "post"}]
          /\ wpc \in {"wait", "size", "lock", "post"}
          /\ connected \in BOOLEAN
          /\ mask \in {"in", "out"} /\ ready \in BOOLEAN
          /\ kout \in 0 .. KOut /\ kin \in 0 .. KIn
          /\ sends \in Nat /\ recvs \in Nat

Init == /\ wbuf = Fresh /\ rbuf = R!Fresh
        /\ wlock = 0 /\ owner = None
        /\ spc = [s \in Sender |-> "idle"]
        /\ wpc = "wait"
        /\ connected = TRUE
        /\ mask = "in" /\ ready = FALSE
        /\ kout = 0 /\ kin = 0
        /\ sends = 0 /\ recvs = 0

\* PostEvent: EPOLL_CTL_MOD puts the fd on the ready list if it is ready already
PostOut == mask' = "out" /\ ready' = (kout < KOut)

-----------------------------------------------------------------------------
(* Socket::Send: BurstBegin, BurstSend, BurstPush, BurstEnd *)

BurstSend(s, n) ==
  /\ spc[s] = "idle" /\ owner = None /\ connected
  /\ sends < MaxSends
  /\ sends' = sends + 1
  /\ IF Space(wbuf) < n
     THEN wbuf' = Open(wbuf) /\ UNCHANGED <<owner, spc>>
     ELSE /\ wbuf' = Commit(Open(wbuf), n)
          /\ owner' = s
          /\ spc' = [spc EXCEPT ![s] = "written"]
  /\ UNCHANGED <<wlock, wpc, rbuf, connected, epoll, kout, kin, recvs>>

\* Mutant: a sender that finds the lock free forgets to post the event
NeverFirst == FALSE

\* AcquireSendLock(): m_writeLock.SetVal(1) returned 0
LockWasFree == wlock = 0

PushLock(s) ==
  /\ spc[s] = "written"
  /\ wlock' = 1
  /\ IF LockWasFree
     THEN spc' = [spc EXCEPT ![s] = "post"] /\ UNCHANGED owner
     ELSE spc' = [spc EXCEPT ![s] = "idle"] /\ owner' = None
  /\ UNCHANGED <<wbuf, wpc, rbuf, connected, epoll, kout, kin, sends, recvs>>

PushPost(s) ==
  /\ spc[s] = "post"
  /\ PostOut
  /\ spc' = [spc EXCEPT ![s] = "idle"]
  /\ owner' = None
  /\ UNCHANGED <<wbuf, wlock, wpc, rbuf, connected, kout, kin, sends, recvs>>

-----------------------------------------------------------------------------
(* SocketWorkerThread::run *)

\* Mutant: the fd is never registered for reading again
NeverDrained(left) == FALSE

\* the worker gives the lock back and listens for input once all has gone out
Drained(left) == Size(left) = 0

\* m_writeLock is an unsigned long
DecSendLock == IF wlock = 0 THEN LockMod - 1 ELSE wlock - 1

\* EPOLLOUT: BurstBegin, WriteCallback, DecSendLock and PostEvent(EPOLLIN) when
\* the buffer is empty, BurstEnd.  send() takes what fits of the contiguous bytes.
OnWritable ==
  /\ connected /\ wpc = "wait" /\ ready /\ mask = "out" /\ kout < KOut
  /\ owner = None
  /\ LET n    == Lesser(Contiguous(wbuf), KOut - kout)
         left == Drop(wbuf, n)
     IN /\ wbuf' = left
        /\ kout' = kout + n
        /\ IF Drained(left)
           THEN /\ wlock' = DecSendLock
                /\ mask' = "in"
                /\ ready' = (kin > 0)
           ELSE /\ ready' = FALSE
                /\ UNCHANGED <<wlock, mask>>
  /\ UNCHANGED <<owner, spc, wpc, rbuf, connected, kin, sends, recvs>>

\* EPOLLIN: ReadCallback.  recv stores what fits in GetSpace(), OnRead takes the
\* complete packets out again; a recv of 0 bytes is taken for a closed connection.
OnReadable ==
  /\ connected /\ wpc = "wait" /\ ready /\ mask = "in" /\ kin > 0
  /\ ready' = FALSE
  /\ LET n == Lesser(kin, R!Space(rbuf)) IN
     IF n = 0
     THEN connected' = FALSE /\ UNCHANGED <<rbuf, kin, wpc>>
     ELSE /\ kin' = kin - n
          /\ \E k \in 0 .. Size(rbuf) + n : rbuf' = R!Drop(R!Commit(R!Open(rbuf), n), k)
          /\ wpc' = "size"
          /\ UNCHANGED connected
  /\ UNCHANGED <<wbuf, wlock, owner, spc, mask, kout, sends, recvs>>

\* "changing to written state?": writeBuffer.GetSize(), HasSendLock() and
\* IsConnected(), read without m_writeMutex
CheckSize ==
  /\ wpc = "size"
  /\ wpc' = IF Size(wbuf) > 0 THEN "lock" ELSE "wait"
  /\ UNCHANGED <<wbuf, wlock, owner, spc, rbuf, connected, epoll, kout, kin, sends, recvs>>

CheckLock ==
  /\ wpc = "lock"
  /\ wpc' = IF wlock = 0 /\ connected THEN "post" ELSE "wait"
  /\ UNCHANGED <<wbuf, wlock, owner, spc, rbuf, connected, epoll, kout, kin, sends, recvs>>

PostFromRead ==
  /\ wpc = "post"
  /\ PostOut
  /\ wpc' = "wait"
  /\ UNCHANGED <<wbuf, wlock, owner, spc, rbuf, connected, kout, kin, sends, recvs>>

Worker == OnWritable \/ OnReadable \/ CheckSize \/ CheckLock \/ PostFromRead

-----------------------------------------------------------------------------
(* The peer and the kernel.  An edge-triggered fd becomes ready when bytes    *)
(* arrive, or when a full send buffer has room again.                         *)

PeerSends(n) ==
  /\ connected /\ recvs < MaxRecvs /\ kin + n <= KIn
  /\ recvs' = recvs + 1
  /\ kin' = kin + n
  /\ ready' = (ready \/ mask = "in")
  /\ UNCHANGED <<wbuf, wlock, owner, spc, wpc, rbuf, connected, mask, kout, sends>>

PeerAcks ==
  /\ kout > 0
  /\ kout' = kout - 1
  /\ ready' = (ready \/ (mask = "out" /\ kout = KOut))
  /\ UNCHANGED <<wbuf, wlock, owner, spc, wpc, rbuf, connected, mask, kin, sends, recvs>>

Next == \/ \E s \in Sender : (\E n \in Lengths : BurstSend(s, n)) \/ PushLock(s) \/ PushPost(s)
        \/ Worker
        \/ \E n \in Lengths : PeerSends(n)
        \/ PeerAcks

Spec == Init /\ [][Next]_vars

\* Threads inside a call of Send and the worker keep running, and the peer takes
\* what is sent to it; nobody has to call Send or to write.
FairSpec == /\ Spec
            /\ \A s \in Sender : WF_vars(PushLock(s) \/ PushPost(s))
            /\ WF_vars(Worker)
            /\ WF_vars(PeerAcks)

-----------------------------------------------------------------------------
\* m_writeLock is 0 or 1: DecSendLock never takes the unsigned counter below
\* zero, although the worker registers for writing without taking the lock.
LockIsBinary == wlock \in {0, 1}

\* Whenever nobody is inside Send, bytes waiting in writeBuffer have the fd
\* registered for writing: no interleaving of a Send with the worker's return to
\* reading loses the EPOLLOUT.
PendingIsPosted == connected /\ owner = None /\ Size(wbuf) > 0 => mask = "out" /\ wlock = 1

\* "we don't have to do anything here. no more oneshots" (SocketMgrLinux.cpp:168):
\* what Send has accepted goes out while the connection lasts.
SentEventually == Size(wbuf) > 0 ~> Size(wbuf) = 0 \/ ~connected

\* ... as it does if the buffer never wraps: one send() then reaches all of it.
SentUnlessWrapped == []~HasB(wbuf) => SentEventually

\* Edge-triggered reading with a single recv: what the peer has sent is read while
\* the connection lasts, if it never exceeds the room in readBuffer and the write
\* buffer never wraps: a connection left waiting to write does not read either.
ReadUnlessBurst ==
  []~HasB(wbuf) /\ [](kin <= R!Space(rbuf)) => (kin > 0 ~> kin = 0 \/ ~connected)
=============================================================================
