------------------------------ MODULE WorldLogin ------------------------------
(***************************************************************************)
(* How a player's connection becomes a session of the world server         *)
(* (WorldSocket, LogonCommHandler, World, WorldSession): the request for   *)
(* the session key, the answer of the logon server, the login queue, the   *)
(* session map, kicks and log-outs.                                        *)
(*                                                                         *)
(* Three threads of the world server: the network thread, which on Linux   *)
(* serves the players and the link to the logon server alike (net), the    *)
(* thread in UpdateQueuedSessions (adm), and the world and map threads     *)
(* that update, kick and delete sessions (upd).  Each step is what lies    *)
(* between two reads of a pointer, or two locks, that another thread can   *)
(* change.  A socket makes at most one session, which is known by the name *)
(* of the socket; a login packet is known by the id its request gets.      *)
(***************************************************************************)
EXTENDS Naturals, FiniteSets, SequencesExt

CONSTANTS
  Sock,       \* connections of players; each is used once
  Request,    \* login packets, in the order of next_request
  From,       \* [Request -> Sock]: the connection a packet comes on
  Account,
  AccountOf,  \* [Sock -> Account]: the account a connection logs in to
  GM,         \* accounts that pass by the queue
  Limit,      \* m_playerLimit
  NoSock      \* the null pointer

ASSUME LoginAssumption ==
  /\ Request \subseteq Nat \ {0} /\ From \in [Request -> Sock]
  /\ AccountOf \in [Sock -> Account] /\ GM \subseteq Account
  /\ Limit \in Nat \ {0} /\ NoSock \notin Sock

VARIABLES
  conn,      \* [Sock -> {"open", "left", "closed"}]: "left" after CMSG_LOG_DISCONNECT
  req,       \* [Request -> ReqState]: whether the logon server is asked, or was
  linkUp,    \* logons[server] holds a connection
  pending,   \* pending_logons: requests, each with its socket
  current,   \* [Sock -> Request \cup {0}]: mRequestID
  authed,    \* sockets with Authed
  stale,     \* history: requests that OnDisconnect does not know of
  mSession,  \* sockets whose mSession is set
  sockOf,    \* sessions whose _socket is set
  sess,      \* [Sock -> SessState]
  listed,    \* m_sessions: [Account -> session], or NoSock
  queue,     \* mQueuedSessions
  mQueued,   \* sockets with mQueued
  told,      \* sockets that were sent an SMSG_AUTH_RESPONSE
  filled,    \* realm_classes and realm_races have rows; nothing writes them
  net, adm, upd,   \* what each thread has in hand: job, socket, session or request found
  crashed    \* the process used a null or a freed pointer

asking  == <<req, linkUp, pending, current, authed, stale>>
answers == <<told, filled>>

vars == <<conn, asking, mSession, sockOf, sess, listed, queue, mQueued, answers,
          net, adm, upd, crashed>>

ReqState  == {"none", "asked", "done"}
SessState == {"none", "made", "open", "erasable", "deleted"}
Idle      == [job |-> "idle", s |-> NoSock, found |-> NoSock]
Job(j, x) == [job |-> j, s |-> x, found |-> NoSock]

TypeOK ==
  /\ conn \in [Sock -> {"open", "left", "closed"}]
  /\ req \in [Request -> ReqState] /\ linkUp \in BOOLEAN /\ pending \subseteq Request
  /\ current \in [Sock -> Request \cup {0}] /\ authed \subseteq Sock
  /\ stale \subseteq Request
  /\ mSession \subseteq Sock /\ sockOf \subseteq Sock /\ mQueued \subseteq Sock
  /\ sess \in [Sock -> SessState] /\ listed \in [Account -> Sock \cup {NoSock}]
  /\ queue \in Seq(Sock) /\ IsInjective(queue)
  /\ told \subseteq Sock /\ filled \in BOOLEAN /\ crashed \in BOOLEAN
  /\ net.job \in {"idle", "request", "evict", "check", "admit", "enqueue", "unqueue", "dead"}
  /\ adm.job \in {"idle", "loop", "lock", "auth", "add", "global", "unlock", "dead"}
  /\ upd.job \in {"idle", "erase", "dead"}
  /\ {net.s, adm.s, upd.s} \subseteq Sock \cup {NoSock}
  /\ net.found \in Sock \cup Request \cup {NoSock}
  /\ adm.s # NoSock => adm.s \notin Range(queue)

Init ==
  /\ conn = [s \in Sock |-> "open"] /\ req = [r \in Request |-> "none"]
  /\ linkUp = TRUE /\ pending = {} /\ current = [s \in Sock |-> 0]
  /\ authed = {} /\ stale = {} /\ mSession = {} /\ sockOf = {} /\ mQueued = {}
  /\ sess = [s \in Sock |-> "none"] /\ listed = [a \in Account |-> NoSock]
  /\ queue = <<>> /\ told = {} /\ filled \in BOOLEAN
  /\ net = Idle /\ adm = Idle /\ upd = Idle /\ crashed = FALSE

\* Use of a null or a freed pointer: the process ends, with all its threads.
Dead == Job("dead", NoSock)

Crash ==
  /\ crashed' = TRUE /\ net' = Dead /\ adm' = Dead /\ upd' = Dead
  /\ UNCHANGED <<conn, asking, mSession, sockOf, sess, listed, queue, mQueued, answers>>

-----------------------------------------------------------------------------
(* The network thread.                                                     *)

\* The link to the logon server is lost for good, with what was on its way.
LinkLost ==
  /\ linkUp /\ linkUp' = FALSE
  /\ req' = [r \in Request |-> IF req[r] = "asked" THEN "done" ELSE req[r]]
  /\ UNCHANGED <<conn, pending, current, authed, stale, mSession, sockOf, sess, listed,
                 queue, mQueued, answers, net, adm, upd, crashed>>

\* OnDisconnect, or CMSG_LOG_DISCONNECT: the socket and its session forget each other.
Detach(s) == sockOf' = sockOf \ {s} /\ mSession' = mSession \ {s}

\* Mutant: mRequestID is reset, and the request stays in pending_logons.
RequestKept(s) == current' = [current EXCEPT ![s] = 0] /\ UNCHANGED pending

\* UnauthedSocketClose of what mRequestID names.
UnauthedSocketClose(s) ==
  /\ pending' = pending \ {current[s]}
  /\ current' = [current EXCEPT ![s] = 0]

\* The end of both.
Unqueue(s) == net' = IF s \in mQueued THEN Job("unqueue", s) ELSE Idle

\* The request that mRequestID names stays in pending_logons when it is overwritten.
Overwritten(s) == stale \cup ({current[s]} \cap pending)

IsConnected(s) == conn[s] # "closed"

\* The packets of a socket, and the answers to its requests, keep their order.
First(r, state) == \A q \in Request : From[q] = From[r] /\ q < r => req[q] # state

\* The logon server is asked, if there is one.
ClientConnected(r) ==
  /\ linkUp
  /\ req' = [req EXCEPT ![r] = "asked"] /\ pending' = pending \cup {r}

\* _HandleAuthSession with ClientConnected, as often as a client sends the packet:
\* neither looks at Authed, mSession or mRequestID.  When the link is down mRequestID
\* is set to -1, which names nothing, and the socket closed.
AuthSession(r) ==
  LET s == From[r] IN
  /\ net = Idle /\ IsConnected(s) /\ req[r] = "none" /\ First(r, "none")
  /\ \/ /\ ClientConnected(r)
        /\ net' = [Job("request", s) EXCEPT !.found = r]
        /\ UNCHANGED <<conn, current, stale, mSession, sockOf>>
     \/ /\ ~linkUp
        /\ req' = [req EXCEPT ![r] = "done"] /\ conn' = [conn EXCEPT ![s] = "closed"]
        /\ stale' = Overwritten(s) /\ current' = [current EXCEPT ![s] = 0]
        /\ Detach(s) /\ Unqueue(s)
        /\ UNCHANGED pending
  /\ UNCHANGED <<linkUp, authed, sess, listed, queue, mQueued, answers, adm, upd,
                 crashed>>

\* mRequestID is assigned; OnDisconnect may have run since the request was listed.
AssignRequest ==
  /\ net.job = "request"
  /\ current' = [current EXCEPT ![net.s] = net.found]
  /\ stale' = Overwritten(net.s) \cup (IF conn[net.s] = "closed" THEN {net.found} ELSE {})
  /\ net' = Idle
  /\ UNCHANGED <<conn, req, linkUp, pending, authed, mSession, sockOf, sess, listed,
                 queue, mQueued, answers, adm, upd, crashed>>

\* SMSG_AUTH_RESPONSE, if there are classes and races to tell; else nothing.
SendAuthResponse(s) ==
  told' = (IF filled THEN told \cup {s} ELSE told) /\ UNCHANGED filled

\* Mutant: the login is refused without a word.
RefuseSilently(s) == UNCHANGED answers

\* It needs no query.
SendAuthResponseError(s) == told' = told \cup {s} /\ UNCHANGED filled

\* The answer reaches HandleSessionInfo; the link holds.
Answered(r) == net = Idle /\ req[r] = "asked" /\ First(r, "asked")

\* The socket waits for this answer.
Awaited(r) == r \in pending /\ From[r] \notin authed /\ IsConnected(From[r])

\* An answer to a request that is not listed, or to a socket that has had one or
\* is closed; the request is not taken off the list.
AnswerExpired(r) ==
  /\ Answered(r) /\ ~Awaited(r)
  /\ req' = [req EXCEPT ![r] = "done"]
  /\ UNCHANGED <<conn, linkUp, pending, current, authed, stale, mSession, sockOf, sess,
                 listed, queue, mQueued, answers, net, adm, upd, crashed>>

\* The closed socket of a request that is still listed has been freed.
AnswerFreed(r) == Answered(r) /\ r \in pending /\ conn[From[r]] = "closed" /\ Crash

\* HandleSessionInfo up to FindSession in InformationRetreiveCallback: the request
\* is not the last of its socket, the logon server has no session key for the account,
\* a session of it is found, the digest does not match, or a session is made, whose
\* deleteMutex the thread holds until the login is done.
SessionInfo(r) ==
  LET s == From[r]
      other == listed[AccountOf[s]] IN
  /\ Answered(r) /\ Awaited(r)
  /\ req' = [req EXCEPT ![r] = "done"]
  /\ pending' = pending \ {r} /\ authed' = authed \cup {s}
  /\ \/ /\ r # current[s]
        /\ UNCHANGED <<current, answers, net, mSession, sockOf, sess>>
     \/ /\ r = current[s] /\ SendAuthResponseError(s)
        /\ UNCHANGED <<current, net, mSession, sockOf, sess>>
     \/ /\ r = current[s] /\ current' = [current EXCEPT ![s] = 0]
        /\ \/ /\ other # NoSock
              /\ net' = [Job("evict", s) EXCEPT !.found = other]
              /\ UNCHANGED <<answers, mSession, sockOf, sess>>
           \/ /\ other = NoSock /\ SendAuthResponseError(s)
              /\ UNCHANGED <<net, mSession, sockOf, sess>>
           \/ /\ other = NoSock
              /\ net' = Job("check", s)
              /\ mSession' = mSession \cup {s} /\ sockOf' = sockOf \cup {s}
              /\ sess' = [sess EXCEPT ![s] = "made"]
              /\ UNCHANGED answers
  /\ UNCHANGED <<conn, linkUp, stale, listed, queue, mQueued, adm, upd, crashed>>

\* Disconnect of an established session's socket, with OnDisconnect; it is in no queue.
Disconnect(x) ==
  /\ conn' = [conn EXCEPT ![x] = "closed"]
  /\ Detach(x) /\ UnauthedSocketClose(x)

\* The session that FindSession returned is disconnected, the player told to try
\* again.
Evict ==
  /\ net.job = "evict" /\ sess[net.found] # "deleted"
  /\ IF net.found \in sockOf THEN Disconnect(net.found)
                             ELSE UNCHANGED <<conn, pending, current, mSession, sockOf>>
  /\ SendAuthResponseError(net.s) /\ net' = Idle
  /\ UNCHANGED <<req, linkUp, authed, stale, sess, listed, queue, mQueued, adm, upd,
                 crashed>>

\* FindSession has released its lock, and upd has deleted the session since.
EvictDeleted == net.job = "evict" /\ sess[net.found] = "deleted" /\ Crash

\* GetSessionCount() < GetPlayerLimit()
Room == Cardinality({a \in Account : listed[a] # NoSock}) < Limit

CheckLimit ==
  /\ net.job = "check"
  /\ net' = Job(IF Room \/ AccountOf[net.s] \in GM THEN "admit" ELSE "enqueue", net.s)
  /\ UNCHANGED <<conn, asking, mSession, sockOf, sess, listed, queue, mQueued, answers,
                 adm, upd, crashed>>

\* Authenticate, called by the network thread.
Admit ==
  /\ net.job = "admit"
  /\ listed' = [listed EXCEPT ![AccountOf[net.s]] = net.s]
  /\ sess' = [sess EXCEPT ![net.s] = "open"]
  /\ SendAuthResponse(net.s) /\ net' = Idle
  /\ UNCHANGED <<conn, asking, mSession, sockOf, queue, mQueued, adm, upd, crashed>>

\* UpdateQueuedSessions holds queueMutex all through.
Enqueue ==
  /\ net.job = "enqueue" /\ adm = Idle
  /\ queue' = Append(queue, net.s) /\ mQueued' = mQueued \cup {net.s}
  /\ SendAuthResponse(net.s) /\ net' = Idle
  /\ UNCHANGED <<conn, asking, mSession, sockOf, sess, listed, adm, upd, crashed>>

\* CMSG_LOG_DISCONNECT: the socket stays, without what it had.
LogDisconnect(s) ==
  /\ net = Idle /\ conn[s] = "open"
  /\ s \in mSession \/ current[s] # 0 \/ s \in mQueued
  /\ conn' = [conn EXCEPT ![s] = "left"]
  /\ Detach(s) /\ UnauthedSocketClose(s) /\ Unqueue(s)
  /\ UNCHANGED <<req, linkUp, authed, stale, sess, listed, queue, mQueued, answers, adm,
                 upd, crashed>>

\* The player closes the connection, or it breaks.
SocketClosed(s) ==
  /\ net = Idle /\ IsConnected(s)
  /\ conn' = [conn EXCEPT ![s] = "closed"]
  /\ Detach(s) /\ UnauthedSocketClose(s) /\ Unqueue(s)
  /\ UNCHANGED <<req, linkUp, authed, stale, sess, listed, queue, mQueued, answers, adm,
                 upd, crashed>>

\* The queue is searched from its front; no socket is in it twice.
RemoveQueuedSocket ==
  /\ net.job = "unqueue" /\ adm = Idle
  /\ \/ net.s \notin Range(queue) /\ UNCHANGED queue
     \/ \E i \in DOMAIN queue : queue[i] = net.s /\ queue' = RemoveAt(queue, i)
  /\ mQueued' = mQueued \ {net.s} /\ net' = Idle
  /\ UNCHANGED <<conn, asking, mSession, sockOf, sess, listed, answers, adm, upd,
                 crashed>>

-----------------------------------------------------------------------------
(* UpdateQueuedSessions.  A pass that admits nobody only repeats the        *)
(* positions, and is left out.                                             *)

\* What Authenticate and its caller leave alone.
AdmFrame ==
  UNCHANGED <<conn, asking, mSession, sockOf, net, upd, crashed>>

BeginAdmit ==
  /\ adm = Idle /\ Room /\ queue # <<>>
  /\ adm' = Job("loop", NoSock)
  /\ AdmFrame /\ UNCHANGED <<sess, listed, queue, mQueued, answers>>

\* mQueuedSessions.erase(iter)
Popped == Tail(queue)

\* The first of the queue is taken out, and passed over if it has no session.
PopQueued ==
  /\ adm.job = "loop" /\ Room /\ queue # <<>>
  /\ queue' = Popped
  /\ adm' = IF Head(queue) \in mSession THEN Job("lock", Head(queue)) ELSE adm
  /\ AdmFrame /\ UNCHANGED <<sess, listed, mQueued, answers>>

EndAdmit ==
  /\ adm.job = "loop" /\ ~(Room /\ queue # <<>>)
  /\ adm' = Idle
  /\ AdmFrame /\ UNCHANGED <<sess, listed, queue, mQueued, answers>>

\* Mutant: InformationRetreiveCallback returns without releasing deleteMutex.
NetKeeps(s) == sess[s] = "made"

\* The network thread holds the deleteMutex of the session it logs in.
NetHolds(s) == net.s = s /\ net.job \in {"check", "admit", "enqueue"}

\* The caller takes the deleteMutex of GetSession().
LockSession ==
  /\ adm.job = "lock" /\ adm.s \in mSession /\ ~NetHolds(adm.s)
  /\ adm' = Job("auth", adm.s)
  /\ AdmFrame /\ UNCHANGED <<sess, listed, queue, mQueued, answers>>

\* Authenticate up to its check of mSession.
AuthenticateQueued ==
  /\ adm.job = "auth"
  /\ mQueued' = mQueued \ {adm.s}
  /\ IF adm.s \in mSession
     THEN SendAuthResponse(adm.s) /\ adm' = Job("add", adm.s)
     ELSE UNCHANGED answers /\ adm' = Job("unlock", adm.s)
  /\ AdmFrame /\ UNCHANGED <<sess, listed, queue>>

\* AddSession, which overwrites what the account has.
AddSession ==
  /\ adm.job = "add" /\ adm.s \in mSession
  /\ listed' = [listed EXCEPT ![AccountOf[adm.s]] = adm.s]
  /\ adm' = Job("global", adm.s)
  /\ AdmFrame /\ UNCHANGED <<sess, queue, mQueued, answers>>

AddGlobalSession ==
  /\ adm.job = "global" /\ adm.s \in mSession
  /\ sess' = [sess EXCEPT ![adm.s] = "open"]
  /\ adm' = Job("unlock", adm.s)
  /\ AdmFrame /\ UNCHANGED <<listed, queue, mQueued, answers>>

UnlockSession ==
  /\ adm.job = "unlock" /\ adm.s \in mSession
  /\ adm' = Job("loop", NoSock)
  /\ AdmFrame /\ UNCHANGED <<sess, listed, queue, mQueued, answers>>

\* Each of the four reads GetSession() or mSession anew, and it is null: the
\* player has left since the last check.
NullSession ==
  /\ adm.job \in {"lock", "add", "global", "unlock"} /\ adm.s \notin mSession
  /\ Crash

-----------------------------------------------------------------------------
(* The threads that update sessions.                                       *)

\* A kick, or no ping for 120 seconds.
Kick(s) ==
  /\ upd = Idle /\ sess[s] = "open" /\ s \in sockOf
  /\ Disconnect(s)
  /\ UNCHANGED <<req, linkUp, authed, stale, sess, listed, queue, mQueued, answers, net,
                 adm, upd, crashed>>

\* Update of a session without a socket, after PLAYER_LOGOUT_DELAY, or at once
\* when Evict set the timer: it leaves Sessions, with its player logged out.
Expire(s) ==
  /\ upd = Idle /\ sess[s] = "open" /\ s \notin sockOf
  /\ sess' = [sess EXCEPT ![s] = "erasable"]
  /\ upd' = Job("erase", s)
  /\ UNCHANGED <<conn, asking, mSession, sockOf, listed, queue, mQueued, answers, net,
                 adm, crashed>>

\* Mutant: the session is deleted and stays listed.
KeptListed(s) == listed

\* m_sessions.erase(account): whichever session of the account is listed.
Unlisted(s) == [listed EXCEPT ![AccountOf[s]] = NoSock]

\* DeleteSessions; the destructor takes deleteMutex.
DeleteSession ==
  /\ upd.job = "erase" /\ ~(adm.s = upd.s /\ adm.job = "unlock")
  /\ listed' = Unlisted(upd.s)
  /\ sess' = [sess EXCEPT ![upd.s] = "deleted"]
  /\ upd' = Idle
  /\ UNCHANGED <<conn, asking, mSession, sockOf, queue, mQueued, answers, net, adm,
                 crashed>>

-----------------------------------------------------------------------------
Net ==
  \/ \E r \in Request : AnswerExpired(r) \/ AnswerFreed(r) \/ SessionInfo(r)
  \/ AssignRequest \/ Evict \/ EvictDeleted \/ CheckLimit \/ Admit \/ Enqueue
  \/ RemoveQueuedSocket

Adm ==
  \/ BeginAdmit \/ PopQueued \/ EndAdmit \/ LockSession \/ AuthenticateQueued
  \/ AddSession \/ AddGlobalSession \/ UnlockSession
  \/ NullSession

Upd == (\E s \in Sock : Expire(s)) \/ DeleteSession

Players ==
  \/ \E r \in Request : AuthSession(r)
  \/ \E s \in Sock : LogDisconnect(s) \/ SocketClosed(s) \/ Kick(s)

Next == Net \/ Adm \/ Upd \/ Players \/ LinkLost

Spec == Init /\ [][Next]_vars

\* The threads run, and the logon server answers while the link holds.
\* Each of their steps changes one of these variables.
progress == <<req, queue, net, adm, upd>>
FairSpec == Spec /\ WF_progress(Net) /\ WF_progress(Adm) /\ WF_progress(Upd)

-----------------------------------------------------------------------------
(* Properties.                                                             *)

\* What is in the hands of the network thread.
Detaching(s) == net = Job("unqueue", s)

Queued(s) == s \in Range(queue)

\* Once a socket is closed, by whichever thread, nothing refers to it: no request
\* to the logon, no place in the queue, no session.  The garbage collector frees
\* it soon after.  Excepted are the requests OnDisconnect cannot know, for mRequestID
\* is one number: those a second login packet has overwritten, and one that is
\* assigned after OnDisconnect.
ClosedIsForgotten ==
  ~crashed => \A s \in Sock : conn[s] = "closed" =>
    /\ \A r \in pending \ stale : From[r] = s => net.job = "request" /\ net.found = r
    /\ s \notin sockOf
    /\ Queued(s) => Detaching(s)

\* m_sessions never lists a deleted session, also when two sessions of one
\* account have taken turns in it.
ListedIsLive ==
  \A a \in Account : listed[a] # NoSock => sess[listed[a]] \notin {"none", "deleted"}

\* A player whose session key was asked for is answered or disconnected, unless the
\* link to the logon server goes, the process ends, he logs off, sends a second login
\* packet before the first is answered, or the database has no classes or races to
\* tell a player.
LoginIsAnswered ==
  [](linkUp /\ ~crashed /\ filled) => \A r \in Request :
    req[r] = "asked" ~> \/ From[r] \in told \/ conn[From[r]] \in {"left", "closed"}
                        \/ \E q \in stale : From[q] = From[r]

\* A player in the queue gets out of it, once there is room to stay: no lock of
\* the login waits on itself.
QueueMoves ==
  ([]~crashed /\ <>[]Room) => \A s \in Sock : Queued(s) ~> ~Queued(s)
=============================================================================
