---------------------------- MODULE LogonLink_proofs ----------------------------
(***************************************************************************)
(* Proofs about what a world server does over its link to the logon server: *)
(* the login of players (WorldLogin), for any number of connections and     *)
(* accounts, any assignment of one to the other and any limit, and the      *)
(* registration of the realm (RealmLink), for any number of connections and *)
(* of faults.                                                               *)
(***************************************************************************)
EXTENDS WorldLogin, RealmLink, FiniteSetTheorems, TLAPS

-----------------------------------------------------------------------------
(* The login of players.                                                   *)

Distinct(q) == \A i, j \in 1..Len(q) : q[i] = q[j] => i = j

Hands(jobs) == [job : jobs, s : Sock \cup {NoSock}, found : Sock \cup Request \cup {NoSock}]
NetJobs == {"idle", "request", "evict", "check", "admit", "enqueue", "unqueue", "dead"}
AdmJobs == {"idle", "loop", "lock", "auth", "add", "global", "unlock", "dead"}

SocketsTyped  == /\ conn \in [Sock -> {"open", "left", "closed"}]
                 /\ told \subseteq Sock /\ filled \in BOOLEAN /\ crashed \in BOOLEAN
AskingTyped   == /\ req \in [Request -> ReqState] /\ linkUp \in BOOLEAN
                 /\ pending \subseteq Request /\ stale \subseteq Request /\ authed \subseteq Sock
                 /\ current \in [Sock -> Request \cup {0}]
SessionsTyped == /\ mSession \subseteq Sock /\ sockOf \subseteq Sock
                 /\ sess \in [Sock -> SessState] /\ listed \in [Account -> Sock \cup {NoSock}]
QueueTyped    == /\ queue \in Seq(Sock) /\ mQueued \subseteq Sock
                 /\ Distinct(queue)
ThreadsTyped  == /\ net \in Hands(NetJobs) /\ adm \in Hands(AdmJobs) /\ upd \in Hands({"idle", "erase", "dead"})
                 /\ net.s \in Sock <=> net.job \notin {"idle", "dead"}
                 /\ net.job = "evict" => net.found \in Sock
                 /\ net.job = "request" => net.found \in Request /\ From[net.found] = net.s
                 /\ adm.s \in Sock <=> adm.job \notin {"idle", "loop", "dead"}
                 /\ upd.job = "erase" => upd.s \in Sock
                 /\ crashed => net.job = "dead" /\ adm.job = "dead" /\ upd.job = "dead"

Typed == SocketsTyped /\ AskingTyped /\ SessionsTyped /\ QueueTyped /\ ThreadsTyped

\* The request that is about to be assigned to mRequestID.
Assigning(r) == net.job = "request" /\ net.found = r

\* Whoever has a session has had his answer from the logon server.  A request that is listed
\* is what mRequestID names or is about to name, unless it is one of the stale.
Asked ==
  /\ \A s \in Sock : sess[s] # "none" => s \in authed
  /\ ~crashed => \A r \in pending \ stale : current[From[r]] = r \/ Assigning(r)

\* A session on its way in is in the hands of one thread, or queued and marked so.
Entering ==
  /\ \A s \in Sock : Queued(s) => sess[s] = "made" /\ s \in mQueued
  /\ adm.job \in {"lock", "auth", "add", "global"} => sess[adm.s] = "made"
  /\ adm.s \in Sock => sess[adm.s] # "none" /\ ~Queued(adm.s)
  /\ net.job \in {"check", "admit", "enqueue"} =>
       sess[net.s] = "made" /\ ~Queued(net.s) /\ adm.s # net.s /\ conn[net.s] # "closed"

\* One that is listed is past that, or UpdateQueuedSessions is about to finish it.
In(s) == sess[s] \in {"open", "erasable"} \/ (sess[s] = "made" /\ adm.job = "global" /\ adm.s = s)

Listing ==
  /\ upd.job = "erase" => sess[upd.s] = "erasable"
  /\ net.job = "evict" => In(net.found) \/ sess[net.found] = "deleted"
  /\ \A a \in Account : listed[a] # NoSock =>
       /\ AccountOf[listed[a]] = a
       /\ sess[listed[a]] \notin {"none", "deleted"}
       /\ ~crashed => In(listed[a])

Closing ==
  /\ \A s \in sockOf : sess[s] # "none"
  /\ ClosedIsForgotten

LoginInv == Typed /\ Asked /\ Entering /\ Listing /\ Closing

-----------------------------------------------------------------------------
LEMMA RangeIs ==
  ASSUME NEW q \in Seq(Sock), NEW x
  PROVE  x \in Range(q) <=> \E i \in 1..Len(q) : q[i] = x
BY DEF Range

\* What the queue holds after a socket is put at its end, taken from its front, or taken out.
LEMMA QueueAppend ==
  ASSUME NEW q \in Seq(Sock), Distinct(q), NEW s \in Sock, s \notin Range(q)
  PROVE  /\ Append(q, s) \in Seq(Sock) /\ Distinct(Append(q, s))
         /\ Range(Append(q, s)) = Range(q) \cup {s}
<1>1. \A i \in 1..Len(q) : q[i] \in Sock /\ q[i] # s
  BY DEF Range
<1>2. /\ Append(q, s) \in Seq(Sock) /\ Len(Append(q, s)) = Len(q) + 1
      /\ Append(q, s)[Len(q) + 1] = s
      /\ \A i \in 1..Len(q) : Append(q, s)[i] = q[i]
  OBVIOUS
<1>3. Distinct(Append(q, s))
  BY <1>1, <1>2 DEF Distinct
<1>4. Range(Append(q, s)) = Range(q) \cup {s}
  BY <1>2 DEF Range
<1>5. QED BY <1>2, <1>3, <1>4

LEMMA QueueTail ==
  ASSUME NEW q \in Seq(Sock), Distinct(q), q # <<>>
  PROVE  /\ Tail(q) \in Seq(Sock) /\ Distinct(Tail(q))
         /\ Head(q) \in Sock /\ Head(q) \in Range(q)
         /\ Range(Tail(q)) = Range(q) \ {Head(q)}
<1> DEFINE r == Tail(q)
<1>1. /\ Len(q) \in Nat \ {0} /\ r \in Seq(Sock) /\ Len(r) = Len(q) - 1
      /\ Head(q) = q[1] /\ \A i \in 1..Len(q) : q[i] \in Sock
      /\ \A i \in 1..Len(q) - 1 : r[i] = q[i + 1]
  OBVIOUS
<1> HIDE DEF r
<1>2. Distinct(r)
  BY <1>1 DEF Distinct
<1>3. Head(q) \in Range(q)
  BY <1>1, RangeIs
<1>4. \A x \in Range(r) : x \in Range(q) /\ x # Head(q)
  <2> SUFFICES ASSUME NEW i \in 1..Len(r)
               PROVE  r[i] \in Range(q) /\ r[i] # q[1]
    BY <1>1, RangeIs
  <2>1. i + 1 \in 1..Len(q) /\ 1 \in 1..Len(q) /\ i + 1 # 1 /\ r[i] = q[i + 1]
    BY <1>1
  <2>2. QED BY <2>1, RangeIs DEF Distinct
<1>5. \A x \in Range(q) : x # Head(q) => x \in Range(r)
  <2> SUFFICES ASSUME NEW i \in 1..Len(q), q[i] # q[1]
               PROVE  q[i] \in Range(r)
    BY <1>1, RangeIs
  <2>1. i - 1 \in 1..Len(r) /\ r[i - 1] = q[i]
    BY <1>1
  <2>2. QED BY <1>1, <2>1, RangeIs
<1>6. QED BY <1>1, <1>2, <1>3, <1>4, <1>5 DEF r

LEMMA QueueConcat ==
  ASSUME NEW u \in Seq(Sock), NEW v \in Seq(Sock)
  PROVE  /\ u \o v \in Seq(Sock) /\ Len(u \o v) = Len(u) + Len(v)
         /\ \A i \in 1..Len(u) : (u \o v)[i] = u[i]
         /\ \A i \in 1..Len(v) : (u \o v)[Len(u) + i] = v[i]
OBVIOUS

LEMMA QueueRemove ==
  ASSUME NEW q \in Seq(Sock), Distinct(q), NEW k \in 1..Len(q)
  PROVE  /\ RemoveAt(q, k) \in Seq(Sock) /\ Distinct(RemoveAt(q, k))
         /\ Range(RemoveAt(q, k)) = Range(q) \ {q[k]}
<1> DEFINE r == RemoveAt(q, k)
           u == SubSeq(q, 1, k - 1)
           v == SubSeq(q, k + 1, Len(q))
<1>1. /\ Len(q) \in Nat /\ k \in Nat \ {0} /\ k \leq Len(q)
      /\ u \in Seq(Sock) /\ Len(u) = k - 1 /\ \A i \in 1..k - 1 : u[i] = q[i]
      /\ v \in Seq(Sock) /\ Len(v) = Len(q) - k /\ \A i \in 1..Len(q) - k : v[i] = q[i + k]
  OBVIOUS
<1>2. r = u \o v
  BY DEF RemoveAt
<1> HIDE DEF r, u, v
<1>3. /\ r \in Seq(Sock) /\ Len(r) = Len(u) + Len(v)
      /\ \A i \in 1..Len(u) : r[i] = u[i]
      /\ \A i \in 1..Len(v) : r[Len(u) + i] = v[i]
  BY <1>1, <1>2, QueueConcat, ZenonT(30)
<1>4. /\ Len(r) = Len(q) - 1
      /\ \A i \in 1..k - 1 : r[i] = q[i]
      /\ \A i \in k..Len(r) : r[i] = q[i + 1]
  <2>1. Len(r) = Len(q) - 1 /\ \A i \in 1..k - 1 : r[i] = q[i]
    BY <1>1, <1>3
  <2>2. ASSUME NEW i \in k..Len(r) PROVE r[i] = q[i + 1]
    <3>1. i - (k - 1) \in 1..Len(v) /\ Len(u) + (i - (k - 1)) = i /\ (i - (k - 1)) + k = i + 1
      BY <1>1, <2>1
    <3>2. r[i] = v[i - (k - 1)]
      BY <1>3, <3>1
    <3>3. v[i - (k - 1)] = q[(i - (k - 1)) + k]
      BY <1>1, <3>1
    <3>4. QED BY <3>1, <3>2, <3>3
  <2>3. QED BY <2>1, <2>2
<1>5. \A i \in 1..Len(r) : \E j \in 1..Len(q) :
       j # k /\ r[i] = q[j] /\ j = IF i < k THEN i ELSE i + 1
  <2> SUFFICES ASSUME NEW i \in 1..Len(r)
               PROVE  LET j == IF i < k THEN i ELSE i + 1
                      IN  j \in 1..Len(q) /\ j # k /\ r[i] = q[j]
    OBVIOUS
  <2>1. QED BY <1>1, <1>4
<1>6. Distinct(r)
  BY <1>1, <1>4, <1>5 DEF Distinct
<1>7. \A x \in Range(r) : x \in Range(q) /\ x # q[k]
  <2> SUFFICES ASSUME NEW i \in 1..Len(r)
               PROVE  r[i] \in Range(q) /\ r[i] # q[k]
    BY <1>3, RangeIs
  <2>1. PICK j \in 1..Len(q) : j # k /\ r[i] = q[j]
    BY <1>5
  <2>2. q[j] # q[k]
    BY <1>1, <2>1 DEF Distinct
  <2>3. QED
    BY <1>1, <2>1, <2>2, RangeIs
<1>8. \A x \in Range(q) : x # q[k] => x \in Range(r)
  <2> SUFFICES ASSUME NEW i \in 1..Len(q), q[i] # q[k]
               PROVE  q[i] \in Range(r)
    BY RangeIs
  <2>1. CASE i < k
    <3>1. i \in 1..Len(r) /\ r[i] = q[i]
      BY <1>1, <1>4, <2>1
    <3>2. QED BY <1>3, <3>1, RangeIs
  <2>2. CASE i > k
    <3>1. i - 1 \in 1..Len(r) /\ r[i - 1] = q[(i - 1) + 1] /\ (i - 1) + 1 = i
      BY <1>1, <1>4, <2>2
    <3>2. QED BY <1>3, <3>1, RangeIs
  <2>3. QED BY <1>1, <2>1, <2>2
<1>9. QED BY <1>3, <1>6, <1>7, <1>8 DEF r

LEMMA LoginInit == LoginAssumption /\ Init => LoginInv
<1> SUFFICES ASSUME LoginAssumption, Init PROVE LoginInv
  OBVIOUS
<1> USE DEF LoginAssumption, Init, Idle
<1>1. \A s \in Sock : ~Queued(s)
  BY DEF Queued, Range
<1>2. Typed
  <2>1. SocketsTyped /\ AskingTyped /\ SessionsTyped
    BY DEF SocketsTyped, AskingTyped, SessionsTyped, ReqState, SessState
  <2>2. QueueTyped
    BY DEF QueueTyped, Distinct
  <2>3. ThreadsTyped
    BY DEF ThreadsTyped, Hands, NetJobs, AdmJobs
  <2>4. QED BY <2>1, <2>2, <2>3 DEF Typed
<1>3. Asked /\ Entering
  BY <1>1 DEF Asked, Entering
<1>4. Listing /\ Closing
  BY <1>1 DEF Listing, Closing, ClosedIsForgotten
<1>5. QED BY <1>2, <1>3, <1>4 DEF LoginInv

LEMMA LinkLostKeeps ==
  ASSUME LoginAssumption, LoginInv, LinkLost
  PROVE  LoginInv'
<1> USE DEF LoginAssumption, LoginInv, LinkLost, asking, answers
<1>1. Typed'
  <2>1. SocketsTyped'
    BY DEF Typed, SocketsTyped
  <2>1a. AskingTyped'
    BY DEF Typed, AskingTyped, ReqState
  <2>2. SessionsTyped'
    BY DEF Typed, SessionsTyped
  <2>3. QueueTyped'
    BY DEF Typed, QueueTyped
  <2>4. ThreadsTyped'
    BY DEF Typed, ThreadsTyped, AdmJobs
  <2>5. QED BY <2>1, <2>1a, <2>2, <2>3, <2>4 DEF Typed
<1>2. Asked'
  BY DEF Asked, Assigning
<1>3. Entering'
  BY DEF Entering, Queued
<1>4. Listing'
  BY DEF Listing, In
<1>5. Closing'
  BY DEF Listing, In, Closing, ClosedIsForgotten, Detaching, Queued
<1>6. QED BY <1>1, <1>2, <1>3, <1>4, <1>5

LEMMA AuthSessionKeeps ==
  ASSUME LoginAssumption, LoginInv, NEW r \in Request, AuthSession(r)
  PROVE  LoginInv'
<1> USE DEF LoginAssumption, LoginInv, AuthSession, Idle, Job, asking, answers, IsConnected, Detach, Unqueue, Overwritten
<1>a. From[r] \in Sock /\ net.job = "idle" /\ ~crashed
  BY DEF Typed, ThreadsTyped
<1>1. Typed'
  <2>1. SocketsTyped'
    BY DEF Typed, SocketsTyped
  <2>1a. AskingTyped'
    BY DEF Typed, AskingTyped, ReqState, ClientConnected
  <2>2. SessionsTyped'
    BY DEF Typed, SessionsTyped
  <2>3. QueueTyped'
    BY DEF Typed, QueueTyped
  <2>4. ThreadsTyped'
    BY DEF Typed, ThreadsTyped, Hands, NetJobs, AdmJobs
  <2>5. QED BY <2>1, <2>1a, <2>2, <2>3, <2>4 DEF Typed
<1>2. Asked'
  BY <1>a DEF Typed, AskingTyped, Asked, Assigning, ClientConnected
<1>3. Entering'
  BY <1>a DEF Entering, Queued
<1>4. Listing'
  BY DEF Listing, In
<1>5. Closing'
  <2>1. CASE linkUp
    BY <1>a, <2>1 DEF Typed, SocketsTyped, Closing, ClosedIsForgotten, Detaching, Queued, ClientConnected
  <2>2. CASE ~linkUp
    <3>1. \A q \in pending \ stale' : From[q] # From[r]
      BY <1>a, <2>2 DEF Asked, Assigning, ClientConnected
    <3>2. Queued(From[r]) => net' = Job("unqueue", From[r])
      BY <2>2 DEF Entering, ClientConnected
    <3>3. QED
      BY <1>a, <2>2, <3>1, <3>2 DEF Typed, SocketsTyped, Closing, ClosedIsForgotten, Detaching, Queued, ClientConnected
  <2>3. QED BY <2>1, <2>2
<1>6. QED BY <1>1, <1>2, <1>3, <1>4, <1>5

LEMMA AssignRequestKeeps ==
  ASSUME LoginAssumption, LoginInv, AssignRequest
  PROVE  LoginInv'
<1> USE DEF LoginAssumption, LoginInv, AssignRequest, Idle, Job, asking, answers
<1>a. net.s \in Sock /\ net.found \in Request /\ From[net.found] = net.s
  BY DEF Typed, ThreadsTyped
<1>1. Typed'
  <2>1. SocketsTyped'
    BY DEF Typed, SocketsTyped
  <2>1a. AskingTyped'
    BY <1>a DEF Typed, AskingTyped, Overwritten
  <2>2. SessionsTyped'
    BY DEF Typed, SessionsTyped
  <2>3. QueueTyped'
    BY DEF Typed, QueueTyped
  <2>4. ThreadsTyped'
    BY DEF Typed, ThreadsTyped, Hands, NetJobs, AdmJobs
  <2>5. QED BY <2>1, <2>1a, <2>2, <2>3, <2>4 DEF Typed
<1>2. Asked'
  BY <1>a DEF Typed, AskingTyped, Asked, Assigning, Overwritten
<1>3. Entering'
  BY DEF Entering, Queued
<1>4. Listing'
  BY DEF Listing, In
<1>5. Closing'
  BY <1>a DEF Typed, ThreadsTyped, Closing, ClosedIsForgotten, Detaching, Queued, Overwritten
<1>6. QED BY <1>1, <1>2, <1>3, <1>4, <1>5

LEMMA AnswerExpiredKeeps ==
  ASSUME LoginAssumption, LoginInv, NEW r \in Request, AnswerExpired(r)
  PROVE  LoginInv'
<1> USE DEF LoginAssumption, LoginInv, AnswerExpired, Idle, Job, asking, answers, Answered, Awaited
<1>1. Typed'
  <2>1. SocketsTyped'
    BY DEF Typed, SocketsTyped
  <2>1a. AskingTyped'
    BY DEF Typed, AskingTyped, ReqState
  <2>2. SessionsTyped'
    BY DEF Typed, SessionsTyped
  <2>3. QueueTyped'
    BY DEF Typed, QueueTyped
  <2>4. ThreadsTyped'
    BY DEF Typed, ThreadsTyped, Hands, NetJobs, AdmJobs
  <2>5. QED BY <2>1, <2>1a, <2>2, <2>3, <2>4 DEF Typed
<1>2. Asked'
  BY DEF Asked, Assigning
<1>3. Entering'
  BY DEF Entering, Queued
<1>4. Listing'
  BY DEF Listing, In
<1>5. Closing'
  BY DEF Listing, In, Closing, ClosedIsForgotten, Detaching, Queued
<1>6. QED BY <1>1, <1>2, <1>3, <1>4, <1>5

LEMMA SessionInfoKeeps ==
  ASSUME LoginAssumption, LoginInv, NEW r \in Request, SessionInfo(r)
  PROVE  LoginInv'
<1> USE DEF LoginAssumption, LoginInv, SessionInfo, Idle, Job, asking, answers, Answered, Awaited, IsConnected, SendAuthResponseError
<1>a. /\ From[r] \in Sock /\ From[r] # NoSock /\ net.job = "idle" /\ ~crashed /\ conn[From[r]] # "closed"
      /\ sess[From[r]] = "none" /\ ~Queued(From[r]) /\ adm.s # From[r]
  BY DEF Typed, ThreadsTyped, Asked, Entering
<1>1. Typed'
  <2>1. SocketsTyped'
    BY DEF Typed, SocketsTyped
  <2>1a. AskingTyped'
    BY DEF Typed, AskingTyped, ReqState
  <2>2. SessionsTyped'
    BY DEF Typed, SessionsTyped, SessState
  <2>3. QueueTyped'
    BY DEF Typed, QueueTyped
  <2>4. ThreadsTyped'
    BY DEF Typed, ThreadsTyped, SessionsTyped, Hands, NetJobs, AdmJobs
  <2>5. QED BY <2>1, <2>1a, <2>2, <2>3, <2>4 DEF Typed
<1>2. Asked'
  BY <1>a DEF Typed, AskingTyped, SessionsTyped, Asked, Assigning
<1>3. Entering'
  BY <1>a DEF Typed, SessionsTyped, ThreadsTyped, Entering, Queued
<1>4. Listing'
  BY <1>a DEF Typed, SessionsTyped, ThreadsTyped, Listing, In
<1>5. Closing'
  <2>1. \A x \in sockOf' : sess'[x] # "none"
    BY <1>a DEF Typed, SessionsTyped, Closing
  <2>2. ClosedIsForgotten'
    BY <1>a DEF Closing, ClosedIsForgotten, Detaching, Queued
  <2>3. QED BY <2>1, <2>2 DEF Closing
<1>6. QED BY <1>1, <1>2, <1>3, <1>4, <1>5

LEMMA EvictKeeps ==
  ASSUME LoginAssumption, LoginInv, Evict
  PROVE  LoginInv'
<1> USE DEF LoginAssumption, LoginInv, Evict, Idle, Job, asking, answers, SendAuthResponseError, Disconnect, Detach, UnauthedSocketClose
<1>a. net.job = "evict" /\ net.found \in Sock /\ net.s \in Sock /\ In(net.found) /\ ~crashed
  BY DEF Typed, ThreadsTyped, Listing
<1>b. ~Queued(net.found)
  BY <1>a DEF In, Entering
<1>1. Typed'
  <2>1. SocketsTyped'
    BY DEF Typed, SocketsTyped, ThreadsTyped
  <2>1a. AskingTyped'
    BY DEF Typed, AskingTyped
  <2>2. SessionsTyped'
    BY DEF Typed, SessionsTyped
  <2>3. QueueTyped'
    BY DEF Typed, QueueTyped
  <2>4. ThreadsTyped'
    BY DEF Typed, ThreadsTyped, Hands, NetJobs, AdmJobs
  <2>5. QED BY <2>1, <2>1a, <2>2, <2>3, <2>4 DEF Typed
<1>2. Asked'
  <2>1. CASE net.found \in sockOf
    <3>1. \A x \in Sock : sess'[x] # "none" => x \in authed'
      BY DEF Asked
    <3>2. \A r \in pending' \ stale' : From[r] \in Sock /\ From[r] # net.found /\ current[From[r]] = r
      <4>1. TAKE r \in pending' \ stale'
      <4>2. r \in pending \ stale /\ r # current[net.found] /\ r \in Request
        BY <2>1 DEF Typed, AskingTyped
      <4>3. current[From[r]] = r
        BY <1>a, <4>2 DEF Asked, Assigning
      <4>4. QED BY <4>2, <4>3
    <3>3. \A x \in Sock \ {net.found} : current'[x] = current[x]
      BY <2>1 DEF Typed, AskingTyped
    <3>4. QED BY <3>1, <3>2, <3>3 DEF Asked
  <2>2. CASE net.found \notin sockOf
    BY <1>a, <2>2 DEF Typed, AskingTyped, Asked, Assigning
  <2>3. QED BY <2>1, <2>2
<1>3. Entering'
  BY <1>a, <1>b DEF Entering, Queued
<1>4. Listing'
  BY DEF Listing, In
<1>5. Closing'
  <2>1. CASE net.found \in sockOf
    <3>1. \A r \in pending' \ stale : From[r] # net.found
      BY <1>a, <2>1 DEF Asked, Assigning
    <3>2. QED
      BY <1>a, <1>b, <2>1, <3>1 DEF Typed, SocketsTyped, Closing, ClosedIsForgotten, Detaching, Queued
  <2>2. CASE net.found \notin sockOf
    BY <1>a, <2>2 DEF Closing, ClosedIsForgotten, Detaching, Queued
  <2>3. QED BY <2>1, <2>2
<1>6. QED BY <1>1, <1>2, <1>3, <1>4, <1>5

LEMMA CrashKeeps ==
  ASSUME LoginAssumption, LoginInv, Crash
  PROVE  LoginInv'
<1> USE DEF LoginAssumption, LoginInv, Crash, Dead, Job, asking, answers
<1>1. Typed'
  <2>1. SocketsTyped'
    BY DEF Typed, SocketsTyped
  <2>1a. AskingTyped'
    BY DEF Typed, AskingTyped
  <2>2. SessionsTyped'
    BY DEF Typed, SessionsTyped
  <2>3. QueueTyped'
    BY DEF Typed, QueueTyped
  <2>4. ThreadsTyped'
    BY DEF ThreadsTyped, Hands, NetJobs, AdmJobs
  <2>5. QED BY <2>1, <2>1a, <2>2, <2>3, <2>4 DEF Typed
<1>2. Asked'
  BY DEF Asked, Assigning
<1>3. Entering'
  BY DEF Entering, Queued
<1>4. Listing'
  BY DEF Listing, In
<1>5. Closing'
  BY DEF Listing, In, Closing, ClosedIsForgotten, Detaching, Queued
<1>6. QED BY <1>1, <1>2, <1>3, <1>4, <1>5

LEMMA CheckLimitKeeps ==
  ASSUME LoginAssumption, LoginInv, CheckLimit
  PROVE  LoginInv'
<1> USE DEF LoginAssumption, LoginInv, CheckLimit, Job, asking, answers
<1>1. Typed'
  <2>1. SocketsTyped'
    BY DEF Typed, SocketsTyped
  <2>1a. AskingTyped'
    BY DEF Typed, AskingTyped
  <2>2. SessionsTyped'
    BY DEF Typed, SessionsTyped
  <2>3. QueueTyped'
    BY DEF Typed, QueueTyped
  <2>4. ThreadsTyped'
    BY DEF Typed, ThreadsTyped, Hands, NetJobs, AdmJobs
  <2>5. QED BY <2>1, <2>1a, <2>2, <2>3, <2>4 DEF Typed
<1>2. Asked'
  BY DEF Asked, Assigning
<1>3. Entering'
  BY DEF Entering, Queued
<1>4. Listing'
  BY DEF Listing, In
<1>5. Closing'
  BY DEF Listing, In, Closing, ClosedIsForgotten, Detaching, Queued
<1>6. QED BY <1>1, <1>2, <1>3, <1>4, <1>5

LEMMA AdmitKeeps ==
  ASSUME LoginAssumption, LoginInv, Admit
  PROVE  LoginInv'
<1> USE DEF LoginAssumption, LoginInv, Admit, Idle, Job, asking, answers, SendAuthResponse
<1>1. Typed'
  <2>1. SocketsTyped'
    BY DEF Typed, SocketsTyped, ThreadsTyped
  <2>1a. AskingTyped'
    BY DEF Typed, AskingTyped
  <2>2. SessionsTyped'
    BY DEF Typed, SessionsTyped, ThreadsTyped, SessState
  <2>3. QueueTyped'
    BY DEF Typed, QueueTyped
  <2>4. ThreadsTyped'
    BY DEF Typed, ThreadsTyped, Hands, NetJobs, AdmJobs
  <2>5. QED BY <2>1, <2>1a, <2>2, <2>3, <2>4 DEF Typed
<1>2. Asked'
  BY DEF Asked, Entering, Assigning
<1>3. Entering'
  BY DEF Entering, Queued
<1>4. Listing'
  BY DEF Typed, SessionsTyped, ThreadsTyped, Entering, Listing, In
<1>5. Closing'
  BY DEF Listing, In, Closing, ClosedIsForgotten, Detaching, Queued
<1>6. QED BY <1>1, <1>2, <1>3, <1>4, <1>5

LEMMA EnqueueKeeps ==
  ASSUME LoginAssumption, LoginInv, Enqueue
  PROVE  LoginInv'
<1> USE DEF LoginAssumption, LoginInv, Enqueue, Idle, Job, asking, answers, SendAuthResponse
<1>a. net.job = "enqueue" /\ net.s \in Sock /\ ~Queued(net.s)
  BY DEF Typed, ThreadsTyped, Entering
<1>b. queue' \in Seq(Sock) /\ Distinct(queue') /\ Range(queue') = Range(queue) \cup {net.s}
  BY <1>a, QueueAppend DEF Typed, QueueTyped, Queued
<1>1. Typed'
  <2>1. SocketsTyped'
    BY DEF Typed, SocketsTyped, ThreadsTyped
  <2>1a. AskingTyped'
    BY DEF Typed, AskingTyped
  <2>2. SessionsTyped'
    BY DEF Typed, SessionsTyped
  <2>3. QueueTyped'
    BY <1>a, <1>b DEF Typed, QueueTyped
  <2>4. ThreadsTyped'
    BY <1>a, <1>b DEF Typed, ThreadsTyped, Hands, NetJobs, AdmJobs
  <2>5. QED BY <2>1, <2>1a, <2>2, <2>3, <2>4 DEF Typed
<1>2. Asked'
  BY <1>a, <1>b DEF Asked, Assigning
<1>3. Entering'
  BY <1>a, <1>b DEF Entering, Queued
<1>4. Listing'
  BY <1>a, <1>b DEF Listing, In
<1>5. Closing'
  BY <1>a, <1>b DEF Entering, Listing, In, Closing, ClosedIsForgotten, Detaching, Queued
<1>6. QED BY <1>1, <1>2, <1>3, <1>4, <1>5

LEMMA LogDisconnectKeeps ==
  ASSUME LoginAssumption, LoginInv, NEW s \in Sock, LogDisconnect(s)
  PROVE  LoginInv'
<1> USE DEF LoginAssumption, LoginInv, LogDisconnect, Idle, Job, asking, answers, Detach, UnauthedSocketClose, Unqueue, IsConnected
<1>a. net.job = "idle" /\ ~crashed
  BY DEF Typed, ThreadsTyped
<1>b. \A r \in pending' \ stale : From[r] # s
  BY <1>a DEF Asked, Assigning
<1>c. Queued(s) => net' = Job("unqueue", s)
  BY DEF Entering
<1>1. Typed'
  <2>1. SocketsTyped'
    BY DEF Typed, SocketsTyped
  <2>1a. AskingTyped'
    BY DEF Typed, AskingTyped
  <2>2. SessionsTyped'
    BY DEF Typed, SessionsTyped
  <2>3. QueueTyped'
    BY DEF Typed, QueueTyped
  <2>4. ThreadsTyped'
    BY DEF Typed, ThreadsTyped, Hands, NetJobs, AdmJobs
  <2>5. QED BY <2>1, <2>1a, <2>2, <2>3, <2>4 DEF Typed
<1>2. Asked'
  BY <1>a DEF Typed, AskingTyped, Asked, Assigning
<1>3. Entering'
  BY <1>a DEF Entering, Queued
<1>4. Listing'
  BY DEF Listing, In
<1>5. Closing'
  BY <1>a, <1>b, <1>c DEF Typed, SocketsTyped, Closing, ClosedIsForgotten, Detaching, Queued
<1>6. QED BY <1>1, <1>2, <1>3, <1>4, <1>5

LEMMA SocketClosedKeeps ==
  ASSUME LoginAssumption, LoginInv, NEW s \in Sock, SocketClosed(s)
  PROVE  LoginInv'
<1> USE DEF LoginAssumption, LoginInv, SocketClosed, Idle, Job, asking, answers, Detach, UnauthedSocketClose, Unqueue, IsConnected
<1>a. net.job = "idle" /\ ~crashed
  BY DEF Typed, ThreadsTyped
<1>b. \A r \in pending' \ stale : From[r] # s
  BY <1>a DEF Asked, Assigning
<1>c. Queued(s) => net' = Job("unqueue", s)
  BY DEF Entering
<1>1. Typed'
  <2>1. SocketsTyped'
    BY DEF Typed, SocketsTyped
  <2>1a. AskingTyped'
    BY DEF Typed, AskingTyped
  <2>2. SessionsTyped'
    BY DEF Typed, SessionsTyped
  <2>3. QueueTyped'
    BY DEF Typed, QueueTyped
  <2>4. ThreadsTyped'
    BY DEF Typed, ThreadsTyped, Hands, NetJobs, AdmJobs
  <2>5. QED BY <2>1, <2>1a, <2>2, <2>3, <2>4 DEF Typed
<1>2. Asked'
  BY <1>a DEF Typed, AskingTyped, Asked, Assigning
<1>3. Entering'
  BY <1>a DEF Entering, Queued
<1>4. Listing'
  BY DEF Listing, In
<1>5. Closing'
  BY <1>a, <1>b, <1>c DEF Typed, SocketsTyped, Closing, ClosedIsForgotten, Detaching, Queued
<1>6. QED BY <1>1, <1>2, <1>3, <1>4, <1>5

LEMMA RemoveQueuedSocketKeeps ==
  ASSUME LoginAssumption, LoginInv, RemoveQueuedSocket
  PROVE  LoginInv'
<1> USE DEF LoginAssumption, LoginInv, RemoveQueuedSocket, Idle, Job, asking, answers
<1>a. net.job = "unqueue" /\ net.s \in Sock
  BY DEF Typed, ThreadsTyped
<1>b. queue' \in Seq(Sock) /\ Distinct(queue') /\ Range(queue') = Range(queue) \ {net.s}
  BY QueueRemove DEF Typed, QueueTyped
<1>1. Typed'
  <2>1. SocketsTyped'
    BY DEF Typed, SocketsTyped
  <2>1a. AskingTyped'
    BY DEF Typed, AskingTyped
  <2>2. SessionsTyped'
    BY DEF Typed, SessionsTyped
  <2>3. QueueTyped'
    BY <1>a, <1>b DEF Typed, QueueTyped
  <2>4. ThreadsTyped'
    BY <1>a, <1>b DEF Typed, ThreadsTyped, Hands, NetJobs, AdmJobs
  <2>5. QED BY <2>1, <2>1a, <2>2, <2>3, <2>4 DEF Typed
<1>2. Asked'
  BY <1>a, <1>b DEF Asked, Assigning
<1>3. Entering'
  BY <1>a, <1>b DEF Entering, Queued
<1>4. Listing'
  BY <1>a, <1>b DEF Listing, In
<1>5. Closing'
  BY <1>a, <1>b DEF Listing, In, Closing, ClosedIsForgotten, Detaching, Queued
<1>6. QED BY <1>1, <1>2, <1>3, <1>4, <1>5

LEMMA BeginAdmitKeeps ==
  ASSUME LoginAssumption, LoginInv, BeginAdmit
  PROVE  LoginInv'
<1> USE DEF LoginAssumption, LoginInv, BeginAdmit, Idle, Job, asking, answers, AdmFrame
<1>1. Typed'
  <2>1. SocketsTyped'
    BY DEF Typed, SocketsTyped
  <2>1a. AskingTyped'
    BY DEF Typed, AskingTyped
  <2>2. SessionsTyped'
    BY DEF Typed, SessionsTyped
  <2>3. QueueTyped'
    BY DEF Typed, QueueTyped
  <2>4. ThreadsTyped'
    BY DEF Typed, ThreadsTyped, Hands, AdmJobs
  <2>5. QED BY <2>1, <2>1a, <2>2, <2>3, <2>4 DEF Typed
<1>2. Asked'
  BY DEF Asked, Assigning
<1>3. Entering'
  BY DEF Entering, Queued
<1>4. Listing'
  BY DEF Listing, In
<1>5. Closing'
  BY DEF Listing, In, Closing, ClosedIsForgotten, Detaching, Queued
<1>6. QED BY <1>1, <1>2, <1>3, <1>4, <1>5

LEMMA PopQueuedKeeps ==
  ASSUME LoginAssumption, LoginInv, PopQueued
  PROVE  LoginInv'
<1> USE DEF LoginAssumption, LoginInv, PopQueued, Idle, Job, asking, answers, AdmFrame, Popped
<1>a. adm.job = "loop" /\ Head(queue) \in Sock /\ Queued(Head(queue))
  BY QueueTail DEF Typed, QueueTyped, Queued
<1>b. queue' \in Seq(Sock) /\ Distinct(queue') /\ Range(queue') = Range(queue) \ {Head(queue)}
  BY QueueTail DEF Typed, QueueTyped
<1>1. Typed'
  <2>1. SocketsTyped'
    BY DEF Typed, SocketsTyped
  <2>1a. AskingTyped'
    BY DEF Typed, AskingTyped
  <2>2. SessionsTyped'
    BY DEF Typed, SessionsTyped
  <2>3. QueueTyped'
    BY <1>a, <1>b DEF Typed, QueueTyped
  <2>4. ThreadsTyped'
    BY <1>a, <1>b DEF Typed, ThreadsTyped, Hands, AdmJobs
  <2>5. QED BY <2>1, <2>1a, <2>2, <2>3, <2>4 DEF Typed
<1>2. Asked'
  BY <1>a, <1>b DEF Asked, Assigning
<1>3. Entering'
  BY <1>a, <1>b DEF Entering, Queued
<1>4. Listing'
  BY <1>a, <1>b DEF Listing, In
<1>5. Closing'
  BY <1>a, <1>b DEF Listing, In, Closing, ClosedIsForgotten, Detaching, Queued
<1>6. QED BY <1>1, <1>2, <1>3, <1>4, <1>5

LEMMA EndAdmitKeeps ==
  ASSUME LoginAssumption, LoginInv, EndAdmit
  PROVE  LoginInv'
<1> USE DEF LoginAssumption, LoginInv, EndAdmit, Idle, Job, asking, answers, AdmFrame
<1>1. Typed'
  <2>1. SocketsTyped'
    BY DEF Typed, SocketsTyped
  <2>1a. AskingTyped'
    BY DEF Typed, AskingTyped
  <2>2. SessionsTyped'
    BY DEF Typed, SessionsTyped
  <2>3. QueueTyped'
    BY DEF Typed, QueueTyped
  <2>4. ThreadsTyped'
    BY DEF Typed, ThreadsTyped, Hands, AdmJobs
  <2>5. QED BY <2>1, <2>1a, <2>2, <2>3, <2>4 DEF Typed
<1>2. Asked'
  BY DEF Asked, Assigning
<1>3. Entering'
  BY DEF Typed, ThreadsTyped, Entering, Queued
<1>4. Listing'
  BY DEF Listing, In
<1>5. Closing'
  BY DEF Listing, In, Closing, ClosedIsForgotten, Detaching, Queued
<1>6. QED BY <1>1, <1>2, <1>3, <1>4, <1>5

LEMMA LockSessionKeeps ==
  ASSUME LoginAssumption, LoginInv, LockSession
  PROVE  LoginInv'
<1> USE DEF LoginAssumption, LoginInv, LockSession, Idle, Job, asking, answers, AdmFrame
<1>1. Typed'
  <2>1. SocketsTyped'
    BY DEF Typed, SocketsTyped
  <2>1a. AskingTyped'
    BY DEF Typed, AskingTyped
  <2>2. SessionsTyped'
    BY DEF Typed, SessionsTyped
  <2>3. QueueTyped'
    BY DEF Typed, QueueTyped
  <2>4. ThreadsTyped'
    BY DEF Typed, ThreadsTyped, Hands, AdmJobs
  <2>5. QED BY <2>1, <2>1a, <2>2, <2>3, <2>4 DEF Typed
<1>2. Asked'
  BY DEF Asked, Assigning
<1>3. Entering'
  BY DEF Entering, Queued
<1>4. Listing'
  BY DEF Listing, In
<1>5. Closing'
  BY DEF Listing, In, Closing, ClosedIsForgotten, Detaching, Queued
<1>6. QED BY <1>1, <1>2, <1>3, <1>4, <1>5

LEMMA AuthenticateQueuedKeeps ==
  ASSUME LoginAssumption, LoginInv, AuthenticateQueued
  PROVE  LoginInv'
<1> USE DEF LoginAssumption, LoginInv, AuthenticateQueued, Idle, Job, asking, answers, AdmFrame, SendAuthResponse
<1>1. Typed'
  <2>1. SocketsTyped'
    BY DEF Typed, SocketsTyped, ThreadsTyped
  <2>1a. AskingTyped'
    BY DEF Typed, AskingTyped
  <2>2. SessionsTyped'
    BY DEF Typed, SessionsTyped
  <2>3. QueueTyped'
    BY DEF Typed, QueueTyped
  <2>4. ThreadsTyped'
    BY DEF Typed, ThreadsTyped, Hands, AdmJobs
  <2>5. QED BY <2>1, <2>1a, <2>2, <2>3, <2>4 DEF Typed
<1>2. Asked'
  BY DEF Asked, Assigning
<1>3. Entering'
  BY DEF Entering, Queued
<1>4. Listing'
  BY DEF Listing, In
<1>5. Closing'
  BY DEF Listing, In, Closing, ClosedIsForgotten, Detaching, Queued
<1>6. QED BY <1>1, <1>2, <1>3, <1>4, <1>5

LEMMA AddSessionKeeps ==
  ASSUME LoginAssumption, LoginInv, AddSession
  PROVE  LoginInv'
<1> USE DEF LoginAssumption, LoginInv, AddSession, Idle, Job, asking, answers, AdmFrame
<1>1. Typed'
  <2>1. SocketsTyped'
    BY DEF Typed, SocketsTyped
  <2>1a. AskingTyped'
    BY DEF Typed, AskingTyped
  <2>2. SessionsTyped'
    BY DEF Typed, SessionsTyped
  <2>3. QueueTyped'
    BY DEF Typed, QueueTyped
  <2>4. ThreadsTyped'
    BY DEF Typed, ThreadsTyped, Hands, AdmJobs
  <2>5. QED BY <2>1, <2>1a, <2>2, <2>3, <2>4 DEF Typed
<1>2. Asked'
  BY DEF Asked, Assigning
<1>3. Entering'
  BY DEF Entering, Queued
<1>4. Listing'
  BY DEF Entering, Listing, In
<1>5. Closing'
  BY DEF Listing, In, Closing, ClosedIsForgotten, Detaching, Queued
<1>6. QED BY <1>1, <1>2, <1>3, <1>4, <1>5

LEMMA AddGlobalSessionKeeps ==
  ASSUME LoginAssumption, LoginInv, AddGlobalSession
  PROVE  LoginInv'
<1> USE DEF LoginAssumption, LoginInv, AddGlobalSession, Idle, Job, asking, answers, AdmFrame
<1>1. Typed'
  <2>1. SocketsTyped'
    BY DEF Typed, SocketsTyped
  <2>1a. AskingTyped'
    BY DEF Typed, AskingTyped
  <2>2. SessionsTyped'
    BY DEF Typed, SessionsTyped, SessState
  <2>3. QueueTyped'
    BY DEF Typed, QueueTyped
  <2>4. ThreadsTyped'
    BY DEF Typed, ThreadsTyped, Hands, AdmJobs
  <2>5. QED BY <2>1, <2>1a, <2>2, <2>3, <2>4 DEF Typed
<1>2. Asked'
  BY DEF Asked, Entering, Assigning
<1>3. Entering'
  BY DEF Entering, Queued
<1>4. Listing'
  BY DEF Typed, SessionsTyped, Entering, Listing, In
<1>5. Closing'
  BY DEF Listing, In, Closing, ClosedIsForgotten, Detaching, Queued
<1>6. QED BY <1>1, <1>2, <1>3, <1>4, <1>5

LEMMA UnlockSessionKeeps ==
  ASSUME LoginAssumption, LoginInv, UnlockSession
  PROVE  LoginInv'
<1> USE DEF LoginAssumption, LoginInv, UnlockSession, Idle, Job, asking, answers, AdmFrame
<1>1. Typed'
  <2>1. SocketsTyped'
    BY DEF Typed, SocketsTyped
  <2>1a. AskingTyped'
    BY DEF Typed, AskingTyped
  <2>2. SessionsTyped'
    BY DEF Typed, SessionsTyped
  <2>3. QueueTyped'
    BY DEF Typed, QueueTyped
  <2>4. ThreadsTyped'
    BY DEF Typed, ThreadsTyped, Hands, AdmJobs
  <2>5. QED BY <2>1, <2>1a, <2>2, <2>3, <2>4 DEF Typed
<1>2. Asked'
  BY DEF Asked, Assigning
<1>3. Entering'
  BY DEF Typed, ThreadsTyped, Entering, Queued
<1>4. Listing'
  BY DEF Listing, In
<1>5. Closing'
  BY DEF Listing, In, Closing, ClosedIsForgotten, Detaching, Queued
<1>6. QED BY <1>1, <1>2, <1>3, <1>4, <1>5

LEMMA KickKeeps ==
  ASSUME LoginAssumption, LoginInv, NEW s \in Sock, Kick(s)
  PROVE  LoginInv'
<1> USE DEF LoginAssumption, LoginInv, Kick, Idle, Job, asking, answers, Disconnect, Detach, UnauthedSocketClose
<1>a. \A r \in pending' \ stale : From[r] = s /\ ~crashed => net.job = "request" /\ net.found = r
  BY DEF Asked, Assigning
<1>1. Typed'
  <2>1. SocketsTyped'
    BY DEF Typed, SocketsTyped
  <2>1a. AskingTyped'
    BY DEF Typed, AskingTyped
  <2>2. SessionsTyped'
    BY DEF Typed, SessionsTyped
  <2>3. QueueTyped'
    BY DEF Typed, QueueTyped
  <2>4. ThreadsTyped'
    BY DEF Typed, ThreadsTyped, Hands, NetJobs, AdmJobs
  <2>5. QED BY <2>1, <2>1a, <2>2, <2>3, <2>4 DEF Typed
<1>2. Asked'
  BY DEF Typed, AskingTyped, Asked, Assigning
<1>3. Entering'
  BY DEF Entering, Queued
<1>4. Listing'
  BY DEF Listing, In
<1>5. Closing'
  BY <1>a DEF Typed, SocketsTyped, Entering, Closing, ClosedIsForgotten, Detaching, Queued
<1>6. QED BY <1>1, <1>2, <1>3, <1>4, <1>5

LEMMA ExpireKeeps ==
  ASSUME LoginAssumption, LoginInv, NEW s \in Sock, Expire(s)
  PROVE  LoginInv'
<1> USE DEF LoginAssumption, LoginInv, Expire, Idle, Job, asking, answers
<1>1. Typed'
  <2>1. SocketsTyped'
    BY DEF Typed, SocketsTyped
  <2>1a. AskingTyped'
    BY DEF Typed, AskingTyped
  <2>2. SessionsTyped'
    BY DEF Typed, SessionsTyped, SessState
  <2>3. QueueTyped'
    BY DEF Typed, QueueTyped
  <2>4. ThreadsTyped'
    BY DEF Typed, ThreadsTyped, Hands, AdmJobs
  <2>5. QED BY <2>1, <2>1a, <2>2, <2>3, <2>4 DEF Typed
<1>2. Asked'
  BY DEF Asked, Assigning
<1>3. Entering'
  BY DEF Entering, Queued
<1>4. Listing'
  BY DEF Typed, SessionsTyped, Listing, In
<1>5. Closing'
  BY DEF Listing, In, Closing, ClosedIsForgotten, Detaching, Queued
<1>6. QED BY <1>1, <1>2, <1>3, <1>4, <1>5

LEMMA DeleteSessionKeeps ==
  ASSUME LoginAssumption, LoginInv, DeleteSession
  PROVE  LoginInv'
<1> USE DEF LoginAssumption, LoginInv, DeleteSession, Idle, Job, asking, answers, Unlisted
<1>1. Typed'
  <2>1. SocketsTyped'
    BY DEF Typed, SocketsTyped
  <2>1a. AskingTyped'
    BY DEF Typed, AskingTyped
  <2>2. SessionsTyped'
    BY DEF Typed, SessionsTyped, SessState
  <2>3. QueueTyped'
    BY DEF Typed, QueueTyped
  <2>4. ThreadsTyped'
    BY DEF Typed, ThreadsTyped, Hands, AdmJobs
  <2>5. QED BY <2>1, <2>1a, <2>2, <2>3, <2>4 DEF Typed
<1>2. Asked'
  BY DEF Asked, Listing, Assigning
<1>3. Entering'
  BY DEF Entering, Queued, Listing
<1>4. Listing'
  BY DEF Typed, SessionsTyped, Listing, In
<1>5. Closing'
  BY DEF Listing, In, Closing, ClosedIsForgotten, Detaching, Queued
<1>6. QED BY <1>1, <1>2, <1>3, <1>4, <1>5

LEMMA LoginNext == LoginAssumption /\ LoginInv /\ [Next]_vars => LoginInv'
<1> SUFFICES ASSUME LoginAssumption, LoginInv, [Next]_vars PROVE LoginInv'
  OBVIOUS
<1>1. CASE Net
  <2>1. ASSUME NEW r \in Request, AnswerExpired(r) \/ AnswerFreed(r) \/ SessionInfo(r)
        PROVE  LoginInv'
    BY <2>1, AnswerExpiredKeeps, CrashKeeps, SessionInfoKeeps DEF AnswerFreed
  <2>2. EvictDeleted => LoginInv'
    BY CrashKeeps DEF EvictDeleted
  <2>3. QED BY <1>1, <2>1, <2>2, AssignRequestKeeps, EvictKeeps, CheckLimitKeeps, AdmitKeeps,
               EnqueueKeeps, RemoveQueuedSocketKeeps DEF Net
<1>2. CASE Adm
  <2>1. NullSession => LoginInv'
    BY CrashKeeps DEF NullSession
  <2>2. QED BY <1>2, <2>1, BeginAdmitKeeps, PopQueuedKeeps, EndAdmitKeeps, LockSessionKeeps,
               AuthenticateQueuedKeeps, AddSessionKeeps, AddGlobalSessionKeeps,
               UnlockSessionKeeps DEF Adm
<1>3. CASE Upd
  BY <1>3, ExpireKeeps, DeleteSessionKeeps DEF Upd
<1>4. CASE Players \/ LinkLost
  BY <1>4, AuthSessionKeeps, LogDisconnectKeeps, SocketClosedKeeps, KickKeeps, LinkLostKeeps DEF Players
<1>5. CASE UNCHANGED vars
  <2> USE <1>5 DEF vars, asking, answers, LoginInv
  <2>1. Typed'
    BY DEF Typed, SocketsTyped, AskingTyped, SessionsTyped, QueueTyped, ThreadsTyped
  <2>2. Asked' /\ Entering' /\ Listing'
    BY DEF Asked, Assigning, Entering, Listing, In, Queued
  <2>3. Closing'
    BY DEF Closing, ClosedIsForgotten, Queued, Detaching
  <2>4. QED BY <2>1, <2>2, <2>3
<1>6. QED BY <1>1, <1>2, <1>3, <1>4, <1>5 DEF Next

-----------------------------------------------------------------------------
\* The inductive invariant: a session on its way in is in the hands of one thread or in the queue,
\* what is listed is established, and a closed socket is forgotten.
THEOREM LoginInvariant == Spec => []LoginInv
<1>1. Init => LoginInv
  BY LoginInit, LoginAssumption
<1>2. LoginInv /\ [Next]_vars => LoginInv'
  BY LoginNext, LoginAssumption
<1>3. QED BY <1>1, <1>2, PTL DEF Spec

\* The types: no socket is twice in mQueuedSessions, and the one that UpdateQueuedSessions is
\* admitting is not in it.
THEOREM LoginTypes == Spec => []TypeOK
<1>1. LoginInv => TypeOK
  <2> SUFFICES ASSUME LoginInv PROVE TypeOK
    OBVIOUS
  <2>1. IsInjective(queue)
    BY DEF LoginInv, Typed, QueueTyped, Distinct, IsInjective
  <2>2. adm.s # NoSock => adm.s \notin Range(queue)
    BY DEF LoginInv, Typed, ThreadsTyped, Hands, Entering, Queued
  <2>3. QED BY <2>1, <2>2 DEF LoginInv, Typed, SocketsTyped, AskingTyped, SessionsTyped, QueueTyped, ThreadsTyped,
                           Hands, NetJobs, AdmJobs, TypeOK
<1>2. QED BY <1>1, LoginInvariant, PTL

\* Once a player's socket is closed - by the player, by a kick, by a second login, or because the
\* link to the logon server is down - no request, no place in the queue and no session is left that
\* refers to it, save the place the network thread is taking it out of.
THEOREM LoginClosedIsForgotten == Spec => []ClosedIsForgotten
<1>1. LoginInv => ClosedIsForgotten
  BY DEF LoginInv, Closing
<1>2. QED BY <1>1, LoginInvariant, PTL

\* m_sessions lists a session only from its admission to its deletion, whatever sessions of the
\* account come and go.
THEOREM LoginListedIsLive == Spec => []ListedIsLive
<1>1. LoginInv => ListedIsLive
  BY DEF LoginInv, Listing, ListedIsLive
<1>2. QED BY <1>1, LoginInvariant, PTL

-----------------------------------------------------------------------------
(* The limit.                                                              *)

AllListed == {a \in Account : listed[a] # NoSock}
Ordinary  == {a \in Account \ GM : listed[a] # NoSock}

\* The player limit is passed by one at most, GMs aside: the network thread and the thread
\* in UpdateQueuedSessions each compare the count with it before they add a session, and no
\* lock is held from the comparison to the adding.
LimitPassedByOne == Cardinality(Ordinary) <= Limit + 1

\* A thread has found room for an ordinary player, and has not added him yet.
Coming(hand, jobs) == IF hand.job \in jobs /\ AccountOf[hand.s] \notin GM THEN 1 ELSE 0

NetComing == Coming(net, {"admit"})
AdmComing == Coming(adm, {"lock", "auth", "add"})

LimitInv ==
  /\ IsFiniteSet(AllListed)
  /\ Cardinality(Ordinary) + NetComing + AdmComing <= Limit + 1

LEMMA ComingIs == NetComing \in 0..1 /\ AdmComing \in 0..1 /\ NetComing' \in 0..1 /\ AdmComing' \in 0..1
BY DEF NetComing, AdmComing, Coming

LEMMA OrdinaryIs ==
  ASSUME IsFiniteSet(AllListed)
  PROVE  /\ IsFiniteSet(Ordinary) /\ Cardinality(Ordinary) \in Nat
         /\ Room => Cardinality(Ordinary) < Limit
<1>1. Ordinary \in SUBSET AllListed
  BY DEF Ordinary, AllListed
<1>2. /\ IsFiniteSet(Ordinary) /\ Cardinality(Ordinary) <= Cardinality(AllListed)
      /\ Cardinality(Ordinary) \in Nat /\ Cardinality(AllListed) \in Nat
  BY <1>1, FS_Subset, FS_CardinalityType
<1>3. Room => Cardinality(AllListed) < Limit
  BY DEF Room, AllListed
<1>4. QED
  BY <1>2, <1>3, LoginAssumption DEF LoginAssumption

LEMMA OrdinaryNext ==
  ASSUME IsFiniteSet(AllListed')
  PROVE  Cardinality(Ordinary') \in Nat
<1>1. Ordinary' \in SUBSET AllListed'
  BY DEF Ordinary, AllListed
<1>2. QED
  BY <1>1, FS_Subset, FS_CardinalityType

\* What is listed after session s is: one account more at most, and an ordinary
\* one only if it is not a GM's.
LEMMA ListedMore ==
  ASSUME LoginInv, IsFiniteSet(AllListed), NEW s \in Sock,
         listed' = [listed EXCEPT ![AccountOf[s]] = s]
  PROVE  /\ IsFiniteSet(AllListed')
         /\ Cardinality(Ordinary') <= Cardinality(Ordinary) + (IF AccountOf[s] \in GM THEN 0 ELSE 1)
<1>1. /\ s # NoSock /\ AccountOf[s] \in Account
      /\ listed \in [Account -> Sock \cup {NoSock}]
  BY LoginAssumption DEF LoginAssumption, LoginInv, Typed, SessionsTyped
<1>2. AllListed' = AllListed \cup {AccountOf[s]}
  BY <1>1 DEF AllListed
<1>3. Ordinary' = IF AccountOf[s] \in GM THEN Ordinary ELSE Ordinary \cup {AccountOf[s]}
  BY <1>1 DEF Ordinary
<1>4. IsFiniteSet(AllListed')
  BY <1>2, FS_AddElement
<1>5. /\ IsFiniteSet(Ordinary) /\ Cardinality(Ordinary) \in Nat
      /\ Cardinality(Ordinary \cup {AccountOf[s]})
           = IF AccountOf[s] \in Ordinary THEN Cardinality(Ordinary) ELSE Cardinality(Ordinary) + 1
  BY OrdinaryIs, FS_AddElement
<1>6. QED
  BY <1>3, <1>4, <1>5

LEMMA LimitStep == LoginAssumption /\ LoginInv /\ LimitInv /\ [Next]_vars => LimitInv'
<1> SUFFICES ASSUME LoginAssumption, LoginInv, LimitInv, [Next]_vars  PROVE LimitInv'
  OBVIOUS
<1>0. /\ IsFiniteSet(AllListed) /\ Limit \in Nat
      /\ Cardinality(Ordinary) \in Nat
      /\ Cardinality(Ordinary) + NetComing + AdmComing <= Limit + 1
      /\ Room => Cardinality(Ordinary) < Limit
  BY OrdinaryIs DEF LimitInv, LoginAssumption
\* Nobody is listed, and nobody found room.
<1>1. ASSUME listed' = listed, NetComing' <= NetComing, AdmComing' <= AdmComing
      PROVE  LimitInv'
  <2>1. AllListed' = AllListed /\ Ordinary' = Ordinary
    BY <1>1 DEF AllListed, Ordinary
  <2>2. QED
    BY <1>0, <1>1, <2>1, ComingIs DEF LimitInv
<1>2. CASE CheckLimit
  <2>1. /\ AllListed' = AllListed /\ Ordinary' = Ordinary /\ AdmComing' = AdmComing
        /\ Room \/ NetComing' = 0
    BY <1>2 DEF CheckLimit, AllListed, Ordinary, AdmComing, NetComing, Coming, Job
  <2>2. QED
    BY <1>0, <2>1, ComingIs DEF LimitInv
<1>3. CASE PopQueued
  <2>1. /\ AllListed' = AllListed /\ Ordinary' = Ordinary /\ NetComing' = NetComing /\ Room
    BY <1>3 DEF PopQueued, AdmFrame, AllListed, Ordinary, NetComing, Coming
  <2>2. QED
    BY <1>0, <2>1, ComingIs DEF LimitInv
<1>4. CASE Admit
  <2>1. net.s \in Sock
    BY <1>4 DEF Admit, LoginInv, Typed, ThreadsTyped
  <2>2. /\ NetComing = IF AccountOf[net.s] \in GM THEN 0 ELSE 1
        /\ NetComing' = 0 /\ AdmComing' = AdmComing
        /\ listed' = [listed EXCEPT ![AccountOf[net.s]] = net.s]
    BY <1>4 DEF Admit, NetComing, AdmComing, Coming, Idle
  <2>3. /\ IsFiniteSet(AllListed') /\ Cardinality(Ordinary') \in Nat
        /\ Cardinality(Ordinary') <= Cardinality(Ordinary) + (IF AccountOf[net.s] \in GM THEN 0 ELSE 1)
    BY <1>0, <2>1, <2>2, ListedMore, OrdinaryNext
  <2>4. Cardinality(Ordinary') + NetComing' + AdmComing' <= Limit + 1
    <3>1. CASE AccountOf[net.s] \in GM
      BY <1>0, <2>2, <2>3, <3>1, ComingIs
    <3>2. CASE AccountOf[net.s] \notin GM
      BY <1>0, <2>2, <2>3, <3>2, ComingIs
    <3>3. QED
      BY <3>1, <3>2
  <2>5. QED
    BY <2>3, <2>4 DEF LimitInv
<1>5. CASE AddSession
  <2>1. adm.s \in Sock
    BY <1>5 DEF AddSession, LoginInv, Typed, ThreadsTyped
  <2>2. /\ AdmComing = IF AccountOf[adm.s] \in GM THEN 0 ELSE 1
        /\ AdmComing' = 0 /\ NetComing' = NetComing
        /\ listed' = [listed EXCEPT ![AccountOf[adm.s]] = adm.s]
    BY <1>5 DEF AddSession, AdmFrame, NetComing, AdmComing, Coming, Job
  <2>3. /\ IsFiniteSet(AllListed') /\ Cardinality(Ordinary') \in Nat
        /\ Cardinality(Ordinary') <= Cardinality(Ordinary) + (IF AccountOf[adm.s] \in GM THEN 0 ELSE 1)
    BY <1>0, <2>1, <2>2, ListedMore, OrdinaryNext
  <2>4. Cardinality(Ordinary') + NetComing' + AdmComing' <= Limit + 1
    <3>1. CASE AccountOf[adm.s] \in GM
      BY <1>0, <2>2, <2>3, <3>1, ComingIs
    <3>2. CASE AccountOf[adm.s] \notin GM
      BY <1>0, <2>2, <2>3, <3>2, ComingIs
    <3>3. QED
      BY <3>1, <3>2
  <2>5. QED
    BY <2>3, <2>4 DEF LimitInv
<1>6. CASE DeleteSession
  <2>1. AllListed' \in SUBSET AllListed /\ Ordinary' \in SUBSET Ordinary
    BY <1>6 DEF DeleteSession, Unlisted, AllListed, Ordinary, LoginInv, Typed, SessionsTyped
  <2>2. NetComing' = NetComing /\ AdmComing' = AdmComing
    BY <1>6 DEF DeleteSession, NetComing, AdmComing
  <2>3. IsFiniteSet(Ordinary)
    BY <1>0, OrdinaryIs
  <2>4. /\ IsFiniteSet(AllListed') /\ Cardinality(Ordinary') \in Nat
        /\ Cardinality(Ordinary') <= Cardinality(Ordinary)
    BY <1>0, <2>1, <2>3, FS_Subset, FS_CardinalityType
  <2>5. QED
    BY <1>0, <2>2, <2>4, ComingIs DEF LimitInv
<1>7. CASE \/ \E r \in Request : AuthSession(r) \/ AnswerExpired(r) \/ SessionInfo(r)
           \/ \E s \in Sock : LogDisconnect(s) \/ SocketClosed(s) \/ Expire(s) \/ Kick(s)
  <2>1. listed' = listed /\ AdmComing' = AdmComing
    BY <1>7 DEF AuthSession, AnswerExpired, SessionInfo, LogDisconnect, SocketClosed, Expire, Kick,
                AdmComing
  <2>2. net' = net \/ net'.job # "admit"
    <3>1. ASSUME NEW r \in Request, AuthSession(r) \/ AnswerExpired(r) \/ SessionInfo(r)
          PROVE  net' = net \/ net'.job # "admit"
      BY <3>1 DEF AuthSession, AnswerExpired, SessionInfo, Unqueue, Job, Idle
    <3>2. ASSUME NEW s \in Sock, LogDisconnect(s) \/ SocketClosed(s) \/ Expire(s) \/ Kick(s)
          PROVE  net' = net \/ net'.job # "admit"
      BY <3>2 DEF LogDisconnect, SocketClosed, Expire, Kick, Unqueue, Job, Idle
    <3>3. QED BY <1>7, <3>1, <3>2
  <2>3. NetComing' <= NetComing
    BY <2>2 DEF NetComing, Coming
  <2>4. QED
    BY <1>1, <2>1, <2>3, ComingIs
<1>8. CASE \/ AssignRequest \/ Evict \/ Enqueue \/ RemoveQueuedSocket \/ EvictDeleted \/ NullSession
           \/ \E r \in Request : AnswerFreed(r)
  <2>1. /\ listed' = listed /\ net'.job # "admit"
        /\ adm' = adm \/ adm'.job \notin {"lock", "auth", "add"}
    BY <1>8 DEF AssignRequest, Evict, Enqueue, RemoveQueuedSocket, EvictDeleted, NullSession, AnswerFreed, Crash, Dead, Job, Idle
  <2>2. NetComing' <= NetComing /\ AdmComing' <= AdmComing
    BY <2>1 DEF NetComing, AdmComing, Coming
  <2>3. QED
    BY <1>1, <2>1, <2>2
<1>9. CASE \/ BeginAdmit \/ EndAdmit \/ LockSession \/ AuthenticateQueued \/ AddGlobalSession
           \/ UnlockSession
  <2>1. /\ listed' = listed /\ net' = net
        /\ adm'.job \in {"lock", "auth", "add"} => adm.job \in {"lock", "auth", "add"} /\ adm'.s = adm.s
    BY <1>9 DEF BeginAdmit, EndAdmit, LockSession, AuthenticateQueued, AddGlobalSession,
                UnlockSession, AdmFrame, Job, Idle
  <2>2. NetComing' <= NetComing /\ AdmComing' <= AdmComing
    BY <2>1 DEF NetComing, AdmComing, Coming
  <2>3. QED
    BY <1>1, <2>1, <2>2
<1>10. CASE LinkLost \/ UNCHANGED vars
  <2>1. listed' = listed /\ NetComing' = NetComing /\ AdmComing' = AdmComing
    BY <1>10 DEF LinkLost, vars, NetComing, AdmComing
  <2>2. QED
    BY <1>1, <2>1, ComingIs
<1>11. QED
  BY <1>2, <1>3, <1>4, <1>5, <1>6, <1>7, <1>8, <1>9, <1>10 DEF Next, Net, Adm, Upd, Players

\* For any limit, however the two threads that admit players interleave with each other and with
\* the deletion of sessions, the realm holds one ordinary player more than its limit at most.
THEOREM LoginLimit == Spec => []LimitPassedByOne
<1>1. Init => LimitInv
  <2> SUFFICES ASSUME Init  PROVE LimitInv
    OBVIOUS
  <2>1. AllListed = {} /\ Ordinary = {} /\ NetComing = 0 /\ AdmComing = 0
    BY DEF Init, AllListed, Ordinary, NetComing, AdmComing, Coming, Idle
  <2>2. QED
    BY <2>1, FS_EmptySet, LoginAssumption DEF LoginAssumption, LimitInv
<1>2. LimitInv => LimitPassedByOne
  BY OrdinaryIs, ComingIs, LoginAssumption DEF LoginAssumption, LimitInv, LimitPassedByOne
<1>3. LoginInv /\ LimitInv /\ [Next]_vars => LimitInv'
  BY LimitStep, LoginAssumption
<1>4. QED
  BY <1>1, <1>2, <1>3, LoginInvariant, PTL DEF Spec

-----------------------------------------------------------------------------
(* The registration of the realm.                                          *)

ToLogon == {"challenge", "register", "popres"}
ToWorld == {"authok", "authbad", "registered", "popreq"}

Has(q, m) == \E i \in 1..Len(q) : q[i] = m

LinkTyped ==
  /\ link \in [Conn -> LinkState]
  /\ toLogon \in [Conn -> Seq(ToLogon)] /\ toWorld \in [Conn -> Seq(ToWorld)]
  /\ faults \in 0..MaxFaults
  /\ slot \in Conn \cup {None} /\ cur \in Conn \cup {None} /\ realm \in Conn \cup {None}
  /\ registered \in BOOLEAN /\ mapLock \in BOOLEAN /\ offline \in BOOLEAN
  /\ watcher \in {"start", "idle", "auth", "register"}
  /\ watcher \in {"auth", "register"} <=> cur # None
  /\ mapLock => cur # None
  /\ authenticated \in [Conn -> AuthAnswer]
  /\ wUp \subseteq Conn /\ ids \subseteq Conn /\ lUp \subseteq Conn
  /\ lAuth \subseteq Conn /\ serverSockets \subseteq Conn
  /\ serverIds \in [Conn -> Conn \cup {None}] /\ \A c \in Conn : serverIds[c] \in {None, c}

\* What a thread has in hand comes from a connection.
HandsTyped ==
  /\ wnet \in [conn : Conn \cup {None}, job : ToWorld \cup {"none", "closed", "drop"}]
  /\ lnet \in [conn : Conn \cup {None}, job : ToLogon \cup {"none", "insert", "closed"}]
  /\ lmain \in [conn : Conn \cup {None}, job : {"none", "remove", "close"}]
  /\ wnet.conn = None <=> wnet.job = "none"
  /\ lnet.conn = None <=> lnet.job = "none"
  /\ lmain.conn = None <=> lmain.job = "none"
  /\ wnet.job \in {"closed", "drop"} => wnet.conn \notin wUp
  /\ lnet.job = "closed" => lnet.conn \notin lUp

\* At most two packets of a connection are under way or in hand, and one while
\* the watcher waits for its first answer.
Carries(hand, c, packets) == IF hand.conn = c /\ hand.job \in packets THEN 1 ELSE 0

Size(q) == Len(q)

Load(c) ==
  Size(toLogon[c]) + Size(toWorld[c]) + Carries(wnet, c, ToWorld) + Carries(lnet, c, ToLogon)

Allowed(c) == IF watcher = "auth" /\ c = cur THEN 1 ELSE 2

Light == \A c \in Conn : Load(c) <= Allowed(c)

\* The world has no connection open but the one in the slot; a ConnectionDropped
\* under way is for that one, or waits until Connect has no answer yet.
OneUp ==
  /\ wUp \subseteq {slot}
  /\ watcher = "start" => slot = None /\ wnet = Nothing
  /\ cur # None => slot \in {cur, None}
  /\ wnet.job \in {"closed", "drop"} =>
       \/ slot \in {None, wnet.conn}
       \/ watcher = "auth" /\ mapLock /\ authenticated[cur] = "no" /\ cur = slot

\* Nobody has asked the logon for anything on c but to authenticate.
Unasked(c) ==
  /\ serverIds[c] = None
  /\ ~Has(toLogon[c], "register") /\ ~Has(toLogon[c], "popres")
  /\ lnet.conn = c => lnet.job \in {"challenge", "closed"}

Asking ==
  /\ watcher = "auth" => /\ Unasked(cur)
                         /\ ~Has(toWorld[cur], "popreq") /\ wnet # InHand(cur, "popreq")
  /\ \A c \in lUp \ wUp : link[c] = "fine" => Unasked(c)

\* A connection that TimeoutSockets is closing was only slow, or nothing that
\* sets flags is to come on it.
Timing ==
  lmain.conn # None /\ link[lmain.conn] # "slow" =>
    /\ lnet.conn = lmain.conn => lnet.job \in {"challenge", "closed"}
    /\ link[lmain.conn] = "fine" => lmain.conn \notin wUp

Listed == \A c \in lUp : c \in serverSockets \/ lmain.conn = c

\* The flags are set for a connection that is open and listed, or was slow.
Working ==
  lnet.job \in {"register", "insert", "popres"} =>
    \/ link[lnet.conn] = "slow"
    \/ lnet.conn \in lUp \cap serverSockets /\ lmain.conn # lnet.conn

Hidden == offline => realm # None /\ (realm \in lUp => lmain.conn = realm)

Shown ==
  realm # None /\ ~offline /\ link[realm] # "slow" =>
    /\ realm \in serverSockets /\ lmain.conn # realm
    /\ \/ realm \in lUp /\ (serverIds[realm] = realm \/ lnet = InHand(realm, "insert"))
       \/ realm \notin lUp /\ serverIds[realm] = realm /\ lnet = InHand(realm, "closed")

LinkInv == /\ LinkTyped /\ HandsTyped /\ Light /\ OneUp /\ Asking /\ Timing /\ Listed
           /\ Working /\ Hidden /\ Shown

\* Channel r is channel q after a packet m was sent on c by an end that is open
\* there, after one was read, after all were lost.
SentOn(q, r, S, open, c, m) ==
  /\ r \in [Conn -> Seq(S)] /\ \A d \in Conn \ {c} : r[d] = q[d]
  /\ c \notin open => r[c] = q[c]
  /\ Len(r[c]) <= Len(q[c]) + 1
  /\ \A x : Has(r[c], x) => Has(q[c], x) \/ x = m

ReadFrom(q, r, S, c, m) ==
  /\ r \in [Conn -> Seq(S)] /\ \A d \in Conn \ {c} : r[d] = q[d]
  /\ Len(r[c]) + 1 = Len(q[c])
  /\ \A x : Has(r[c], x) => Has(q[c], x)
  /\ m \in S /\ Has(q[c], m)

LostOn(q, r, S, c) ==
  /\ r \in [Conn -> Seq(S)] /\ \A d \in Conn \ {c} : r[d] = q[d]
  /\ Len(r[c]) = 0 /\ \A x : ~Has(r[c], x)

LEMMA LenIs ==
  ASSUME NEW S, NEW q \in [Conn -> Seq(S)], NEW d \in Conn
  PROVE  Len(q[d]) \in Nat
OBVIOUS

LEMMA LoadParts ==
  /\ LinkTyped => \A d \in Conn : Size(toLogon[d]) \in Nat /\ Size(toWorld[d]) \in Nat
  /\ LinkTyped' => \A d \in Conn : Size(toLogon'[d]) \in Nat /\ Size(toWorld'[d]) \in Nat
  /\ \A h, c, p : Carries(h, c, p) \in 0..1
<1>1. ASSUME LinkTyped, NEW d \in Conn  PROVE Size(toLogon[d]) \in Nat /\ Size(toWorld[d]) \in Nat
  <2>1. toLogon \in [Conn -> Seq(ToLogon)] /\ toWorld \in [Conn -> Seq(ToWorld)]
    BY <1>1 DEF LinkTyped
  <2>2. QED
    BY <2>1, LenIs DEF Size
<1>2. ASSUME LinkTyped', NEW d \in Conn
      PROVE  Size(toLogon'[d]) \in Nat /\ Size(toWorld'[d]) \in Nat
  <2>1. toLogon' \in [Conn -> Seq(ToLogon)] /\ toWorld' \in [Conn -> Seq(ToWorld)]
    BY <1>2 DEF LinkTyped
  <2>2. QED
    BY <2>1, LenIs DEF Size
<1>3. QED
  BY <1>1, <1>2 DEF Carries

LEMMA SentIs ==
  ASSUME NEW S, NEW q \in [Conn -> Seq(S)], NEW open, NEW c \in Conn, NEW m \in S
  PROVE  SentOn(q, Sent(q, open, c, m), S, open, c, m)
<1> DEFINE a == Append(q[c], m)
<1>1. /\ a \in Seq(S) /\ Len(a) = Len(q[c]) + 1
      /\ \A x : Has(a, x) => Has(q[c], x) \/ x = m
  BY DEF Has
<1>2. /\ Sent(q, open, c, m) = [q EXCEPT ![c] = a] \/ Sent(q, open, c, m) = q
      /\ c \notin open => Sent(q, open, c, m) = q
  BY DEF Sent
<1>3. Len(q[c]) \in Nat
  OBVIOUS
<1> HIDE DEF a
<1>4. CASE Sent(q, open, c, m) = q
  BY <1>3, <1>4 DEF SentOn
<1>5. CASE Sent(q, open, c, m) = [q EXCEPT ![c] = a] /\ c \in open
  BY <1>1, <1>3, <1>5 DEF SentOn
<1>6. QED
  BY <1>2, <1>4, <1>5

LEMMA ReadIs ==
  ASSUME NEW S, NEW q \in [Conn -> Seq(S)], NEW c \in Conn, q[c] # <<>>
  PROVE  ReadFrom(q, [q EXCEPT ![c] = Tail(@)], S, c, Head(q[c]))
<1> DEFINE t == Tail(q[c])
<1>1. /\ t \in Seq(S) /\ Len(t) + 1 = Len(q[c]) /\ \A i \in 1..Len(t) : t[i] = q[c][i + 1]
      /\ Len(q[c]) \in Nat \ {0}
  OBVIOUS
<1>2. /\ Head(q[c]) \in S /\ Head(q[c]) = q[c][1] /\ Has(q[c], Head(q[c]))
  BY <1>1 DEF Has
<1>3. \A x : Has(t, x) => Has(q[c], x)
  <2>1. ASSUME NEW i \in 1..Len(t)  PROVE i + 1 \in 1..Len(q[c]) /\ t[i] = q[c][i + 1]
    BY <1>1
  <2>2. QED
    BY <2>1 DEF Has
<1> HIDE DEF t
<1>4. [q EXCEPT ![c] = Tail(@)] = [q EXCEPT ![c] = t]
  BY DEF t
<1>5. QED
  BY <1>1, <1>2, <1>3, <1>4 DEF ReadFrom

LEMMA EmptiedIs ==
  ASSUME NEW S, NEW q \in [Conn -> Seq(S)], NEW c \in Conn
  PROVE  LostOn(q, Emptied(q, c), S, c)
<1> DEFINE e == <<>>
<1>1. e \in Seq(S) /\ Len(e) = 0 /\ \A x : ~Has(e, x)
  BY DEF Has
<1>2. Emptied(q, c) = [q EXCEPT ![c] = e]
  BY DEF Emptied
<1> HIDE DEF e
<1>3. QED
  BY <1>1, <1>2 DEF LostOn

LEMMA ChallengedIs ==
  ASSUME NEW q \in [Conn -> Seq(ToLogon)], NEW c \in Conn
  PROVE  /\ [q EXCEPT ![c] = <<"challenge">>] \in [Conn -> Seq(ToLogon)]
         /\ \A d \in Conn \ {c} : [q EXCEPT ![c] = <<"challenge">>][d] = q[d]
         /\ Len([q EXCEPT ![c] = <<"challenge">>][c]) = 1
         /\ \A x : Has([q EXCEPT ![c] = <<"challenge">>][c], x) => x = "challenge"
<1> DEFINE e == <<"challenge">>
<1>1. e \in Seq(ToLogon) /\ Len(e) = 1 /\ \A x : Has(e, x) => x = "challenge"
  BY DEF Has, ToLogon
<1> HIDE DEF e
<1>2. [q EXCEPT ![c] = <<"challenge">>] = [q EXCEPT ![c] = e]
  BY DEF e
<1>3. QED
  BY <1>1, <1>2

LEMMA LinkBegins == LinkAssumption /\ LinkInit => LinkInv
<1> SUFFICES ASSUME LinkAssumption, LinkInit PROVE LinkInv
  OBVIOUS
<1>2. HandsTyped
  BY DEF LinkInit, HandsTyped, Nothing, None, ToLogon, ToWorld
<1>5. faults \in 0..MaxFaults
  BY DEF LinkInit, LinkAssumption
<1>6. toLogon \in [Conn -> Seq(ToLogon)] /\ toWorld \in [Conn -> Seq(ToWorld)]
  BY DEF LinkInit
<1>7. LinkTyped
  BY <1>5, <1>6 DEF LinkInit, LinkTyped, LinkState, AuthAnswer, None
<1>3. Light
  BY DEF LinkInit, Light, Load, Size, Allowed, Carries, Nothing, None, Conn
<1>4. OneUp /\ Asking /\ Timing /\ Listed /\ Working /\ Hidden /\ Shown
  BY DEF LinkInit, OneUp, Asking, Timing, Listed, Working, Hidden, Shown, Nothing, None
<1>8. QED
  BY <1>2, <1>3, <1>4, <1>7 DEF LinkInv

LEMMA ResetKeeps ==
  ASSUME LinkAssumption, LinkInv, NEW c \in Conn, Reset(c)
  PROVE  LinkInv'
<1> USE DEF LinkInv
<1>1. /\ link[c] \in {"fine", "stalled"} /\ link' = [link EXCEPT ![c] = "cut"]
      /\ slot' = slot /\ registered' = registered /\ watcher' = watcher /\ cur' = cur
      /\ mapLock' = mapLock /\ wUp' = wUp /\ authenticated' = authenticated /\ ids' = ids
      /\ wnet' = wnet /\ lUp' = lUp /\ lAuth' = lAuth /\ serverSockets' = serverSockets
      /\ serverIds' = serverIds /\ realm' = realm /\ offline' = offline /\ lnet' = lnet
      /\ lmain' = lmain
  BY DEF Reset, world, logon
<1>2. faults' \in 0..MaxFaults
  BY DEF Reset, LinkTyped
<1>3. /\ toLogon \in [Conn -> Seq(ToLogon)]
      /\ toLogon' = Emptied(toLogon, c)
  BY DEF Reset, LinkTyped
<1>4. LostOn(toLogon, toLogon', ToLogon, c)
  BY EmptiedIs, <1>3
<1>5. /\ toWorld \in [Conn -> Seq(ToWorld)]
      /\ toWorld' = Emptied(toWorld, c)
  BY DEF Reset, LinkTyped
<1>6. LostOn(toWorld, toWorld', ToWorld, c)
  BY EmptiedIs, <1>5
<1>7. LinkTyped'
  BY <1>1, <1>4, <1>6, <1>2 DEF LinkTyped, LinkState, LostOn
<1>8. HandsTyped'
  BY <1>1 DEF HandsTyped
<1>9. Light'
  <2> SUFFICES ASSUME NEW d \in Conn
                   PROVE  Load(d)' <= Allowed(d)'
    BY DEF Light
  <2>1. Load(d) <= Allowed(d)
    BY DEF Light
  <2>2. /\ Carries(wnet', d, ToWorld) = Carries(wnet, d, ToWorld)
        /\ Carries(lnet', d, ToLogon) = Carries(lnet, d, ToLogon)
    BY <1>1
  <2>3. /\ d # c => Size(toLogon'[d]) = Size(toLogon[d])
        /\ d = c => Size(toLogon'[d]) = 0
        /\ d # c => Size(toWorld'[d]) = Size(toWorld[d])
        /\ d = c => Size(toWorld'[d]) = 0
    BY <1>4, <1>6 DEF LostOn, Size
  <2>4. Allowed(d) \in Nat /\ Allowed(d)' \in Nat /\ Allowed(d) <= Allowed(d)'
    BY <1>1 DEF Allowed
  <2>5. QED
    BY <2>1, <2>2, <2>3, <2>4, LoadParts DEF Load
<1>10. OneUp'
  BY <1>1 DEF OneUp
<1>11. Asking'
  BY <1>1, <1>4, <1>6 DEF Asking, LinkTyped, Unasked, LostOn
<1>12. Timing'
  BY <1>1 DEF Timing, HandsTyped, LinkTyped
<1>13. Listed'
  BY <1>1 DEF Listed
<1>14. Working'
  BY <1>1 DEF Working, HandsTyped, LinkTyped
<1>15. Hidden'
  BY <1>1 DEF Hidden
<1>16. Shown'
  BY <1>1 DEF Shown, LinkTyped
<1>17. QED
  BY <1>7, <1>8, <1>9, <1>10, <1>11, <1>12, <1>13, <1>14, <1>15, <1>16

LEMMA StallKeeps ==
  ASSUME LinkAssumption, LinkInv, NEW c \in Conn, Stall(c)
  PROVE  LinkInv'
<1> USE DEF LinkInv
<1>1. /\ link[c] = "fine" /\ link' = [link EXCEPT ![c] = "stalled"] /\ toLogon' = toLogon
      /\ toWorld' = toWorld /\ slot' = slot /\ registered' = registered
      /\ watcher' = watcher /\ cur' = cur /\ mapLock' = mapLock /\ wUp' = wUp
      /\ authenticated' = authenticated /\ ids' = ids /\ wnet' = wnet /\ lUp' = lUp
      /\ lAuth' = lAuth /\ serverSockets' = serverSockets /\ serverIds' = serverIds
      /\ realm' = realm /\ offline' = offline /\ lnet' = lnet /\ lmain' = lmain
  BY DEF Stall, world, logon
<1>2. faults' \in 0..MaxFaults
  BY DEF Stall, LinkTyped
<1>3. LinkTyped'
  BY <1>1, <1>2 DEF LinkTyped, LinkState
<1>4. HandsTyped'
  BY <1>1 DEF HandsTyped
<1>5. Light'
  BY <1>1 DEF Light, Load, Allowed
<1>6. (OneUp /\ Asking /\ Timing)'
  BY <1>1 DEF OneUp, Asking, Timing, Unasked
<1>7. (Listed /\ Working /\ Hidden /\ Shown)'
  BY <1>1 DEF Listed, Working, Hidden, Shown, HandsTyped
<1>8. QED
  BY <1>3, <1>4, <1>5, <1>6, <1>7

LEMMA ResumeKeeps ==
  ASSUME LinkAssumption, LinkInv, NEW c \in Conn, Resume(c)
  PROVE  LinkInv'
<1> USE DEF LinkInv
<1>1. /\ link[c] = "stalled" /\ link' = [link EXCEPT ![c] = "slow"] /\ toLogon' = toLogon
      /\ toWorld' = toWorld /\ faults' = faults /\ slot' = slot /\ registered' = registered
      /\ watcher' = watcher /\ cur' = cur /\ mapLock' = mapLock /\ wUp' = wUp
      /\ authenticated' = authenticated /\ ids' = ids /\ wnet' = wnet /\ lUp' = lUp
      /\ lAuth' = lAuth /\ serverSockets' = serverSockets /\ serverIds' = serverIds
      /\ realm' = realm /\ offline' = offline /\ lnet' = lnet /\ lmain' = lmain
  BY DEF Resume, world, logon
<1>2. LinkTyped'
  BY <1>1 DEF LinkTyped, LinkState
<1>3. HandsTyped'
  BY <1>1 DEF HandsTyped
<1>4. Light'
  BY <1>1 DEF Light, Load, Allowed
<1>5. (OneUp /\ Asking /\ Timing)'
  BY <1>1 DEF OneUp, Asking, Timing, Unasked
<1>6. (Listed /\ Working /\ Hidden /\ Shown)'
  BY <1>1 DEF Listed, Working, Hidden, Shown
<1>7. QED
  BY <1>2, <1>3, <1>4, <1>5, <1>6

LEMMA ConnectKeeps ==
  ASSUME LinkAssumption, LinkInv, NEW c \in Conn, Connect(c)
  PROVE  LinkInv'
<1> USE DEF LinkInv
<1>1. /\ WantsConnection /\ Free(c) /\ watcher' = "auth" /\ cur' = c /\ slot' = c
      /\ registered' = FALSE /\ mapLock' = (watcher = "idle") /\ wUp' = wUp \cup {c}
      /\ ids' = ids \ {c} /\ authenticated' = [authenticated EXCEPT ![c] = "no"]
      /\ link' = [link EXCEPT ![c] = "fine"] /\ lUp' = lUp \cup {c} /\ lAuth' = lAuth \ {c}
      /\ serverSockets' = serverSockets \cup {c}
      /\ serverIds' = [serverIds EXCEPT ![c] = None] /\ faults' = faults /\ wnet' = wnet
      /\ realm' = realm /\ offline' = offline /\ lnet' = lnet /\ lmain' = lmain
  BY DEF Connect
<1>2. /\ toLogon \in [Conn -> Seq(ToLogon)]
      /\ toLogon' = [toLogon EXCEPT ![c] = <<"challenge">>]
  BY DEF Connect, LinkTyped
<1>3. /\ toLogon' \in [Conn -> Seq(ToLogon)]
      /\ \A d \in Conn \ {c} : toLogon'[d] = toLogon[d]
      /\ Len(toLogon'[c]) = 1 /\ \A x : Has(toLogon'[c], x) => x = "challenge"
  BY ChallengedIs, <1>2
<1>4. /\ toWorld \in [Conn -> Seq(ToWorld)]
      /\ toWorld' = Emptied(toWorld, c)
  BY DEF Connect, LinkTyped
<1>5. LostOn(toWorld, toWorld', ToWorld, c)
  BY EmptiedIs, <1>4
<1>6. LinkTyped'
  BY <1>1, <1>3, <1>5, ZenonT(30) DEF LinkTyped, HandsTyped, LinkState, AuthAnswer, None, LostOn,
     WantsConnection, Free
<1>7. HandsTyped'
  BY <1>1 DEF HandsTyped, Free
<1>8. Light'
  <2> SUFFICES ASSUME NEW d \in Conn
                   PROVE  Load(d)' <= Allowed(d)'
    BY DEF Light
  <2>1. Load(d) <= Allowed(d)
    BY DEF Light
  <2>2. /\ Carries(wnet', d, ToWorld) = Carries(wnet, d, ToWorld)
        /\ Carries(lnet', d, ToLogon) = Carries(lnet, d, ToLogon)
        /\ d = c => Carries(wnet, d, ToWorld) = 0 /\ Carries(lnet, d, ToLogon) = 0
    BY <1>1 DEF Carries, Free
  <2>3. /\ d # c => Size(toLogon'[d]) = Size(toLogon[d])
        /\ d = c => Size(toLogon'[d]) = 1
        /\ d # c => Size(toWorld'[d]) = Size(toWorld[d])
        /\ d = c => Size(toWorld'[d]) = 0
    BY <1>3, <1>5 DEF LostOn, Size
  <2>4. Allowed(d) \in Nat /\ Allowed(d)' \in Nat /\ Allowed(d) <= 2 /\ Allowed(d)' >= 1 /\ (d # c => Allowed(d)' = 2)
    BY <1>1 DEF Allowed
  <2>5. QED
    BY <2>1, <2>2, <2>3, <2>4, LoadParts DEF Load
<1>9. OneUp'
  <2>1. wUp = {} /\ cur = None
    BY <1>1 DEF WantsConnection, OneUp, LinkTyped, None, Conn
  <2>2. wnet.job \in {"closed", "drop"} => watcher = "idle"
    BY <1>1 DEF WantsConnection, OneUp, Nothing
  <2>3. authenticated'[c] = "no"
    BY <1>1 DEF LinkTyped
  <2>4. QED
    BY <1>1, <2>1, <2>2, <2>3 DEF OneUp
<1>10. Asking'
  <2>1. Unasked(c)' /\ ~Has(toWorld'[c], "popreq") /\ wnet # InHand(c, "popreq")
    BY <1>1, <1>3, <1>5, SMTT(30) DEF Unasked, LinkTyped, LostOn, Free, InHand
  <2>2. ASSUME NEW d \in lUp' \ wUp', link'[d] = "fine"  PROVE Unasked(d)'
    <3>1. d # c /\ d \in lUp \ wUp /\ d \in Conn
      BY <1>1 DEF LinkTyped
    <3>2. Unasked(d)
      BY <1>1, <2>2 DEF Asking
    <3>3. QED
      BY <1>1, <1>3, <3>1, <3>2 DEF Unasked
  <2>3. QED
    BY <1>1, <2>1, <2>2 DEF Asking
<1>11. (Timing /\ Listed /\ Working /\ Hidden /\ Shown)'
  BY <1>1 DEF Timing, Listed, Working, Hidden, Shown, HandsTyped, LinkTyped, Unasked, Asking,
     OneUp, InHand, Nothing, None, WantsConnection, Free
<1>12. QED
  BY <1>6, <1>7, <1>8, <1>9, <1>10, <1>11

LEMMA ConnectFailsKeeps ==
  ASSUME LinkAssumption, LinkInv, ConnectFails
  PROVE  LinkInv'
<1> USE DEF LinkInv
<1>1. /\ WantsConnection /\ watcher' = "idle" /\ slot' = None /\ registered' = FALSE
      /\ link' = link /\ toLogon' = toLogon /\ toWorld' = toWorld /\ cur' = cur
      /\ mapLock' = mapLock /\ wUp' = wUp /\ authenticated' = authenticated /\ ids' = ids
      /\ wnet' = wnet /\ lUp' = lUp /\ lAuth' = lAuth /\ serverSockets' = serverSockets
      /\ serverIds' = serverIds /\ realm' = realm /\ offline' = offline /\ lnet' = lnet
      /\ lmain' = lmain
  BY DEF ConnectFails, logon
<1>2. faults' \in 0..MaxFaults
  BY DEF ConnectFails, LinkTyped
<1>3. LinkTyped'
  BY <1>1, <1>2 DEF LinkTyped, WantsConnection
<1>4. HandsTyped'
  BY <1>1 DEF HandsTyped
<1>5. Light'
  <2> SUFFICES ASSUME NEW d \in Conn
                   PROVE  Load(d)' <= Allowed(d)'
    BY DEF Light
  <2>1. Load(d) <= Allowed(d)
    BY DEF Light
  <2>2. /\ Carries(wnet', d, ToWorld) = Carries(wnet, d, ToWorld)
        /\ Carries(lnet', d, ToLogon) = Carries(lnet, d, ToLogon)
    BY <1>1
  <2>3. /\ Size(toLogon'[d]) = Size(toLogon[d])
        /\ Size(toWorld'[d]) = Size(toWorld[d])
    BY <1>1
  <2>4. Allowed(d) \in Nat /\ Allowed(d)' \in Nat /\ Allowed(d) <= Allowed(d)'
    BY <1>1 DEF Allowed
  <2>5. QED
    BY <2>1, <2>2, <2>3, <2>4, LoadParts DEF Load
<1>6. (OneUp /\ Asking /\ Timing /\ Listed /\ Working /\ Hidden /\ Shown)'
  BY <1>1 DEF OneUp, Asking, Timing, Listed, Working, Hidden, Shown, Unasked, WantsConnection
<1>7. QED
  BY <1>3, <1>4, <1>5, <1>6

LEMMA AuthenticatedKeeps ==
  ASSUME LinkAssumption, LinkInv, Authenticated
  PROVE  LinkInv'
<1> USE DEF LinkInv
<1>1. /\ watcher = "auth" /\ authenticated[cur] = "ok" /\ ids' = ids \cup {cur}
      /\ watcher' = "register" /\ link' = link /\ toWorld' = toWorld /\ faults' = faults
      /\ slot' = slot /\ registered' = registered /\ cur' = cur /\ mapLock' = mapLock
      /\ wUp' = wUp /\ authenticated' = authenticated /\ wnet' = wnet /\ lUp' = lUp
      /\ lAuth' = lAuth /\ serverSockets' = serverSockets /\ serverIds' = serverIds
      /\ realm' = realm /\ offline' = offline /\ lnet' = lnet /\ lmain' = lmain
  BY DEF Authenticated, logon
<1>2. cur \in Conn
  BY <1>1 DEF LinkTyped
<1>3. /\ toLogon \in [Conn -> Seq(ToLogon)]
      /\ toLogon' = Sent(toLogon, wUp, cur, "register") /\ "register" \in ToLogon
  BY DEF Authenticated, LinkTyped, ToLogon
<1>4. SentOn(toLogon, toLogon', ToLogon, wUp, cur, "register")
  BY SentIs, <1>2, <1>3
<1>5. LinkTyped'
  BY <1>1, <1>4 DEF LinkTyped, SentOn
<1>6. HandsTyped'
  BY <1>1 DEF HandsTyped
<1>7. Light'
  <2> SUFFICES ASSUME NEW d \in Conn
                   PROVE  Load(d)' <= Allowed(d)'
    BY DEF Light
  <2>1. Load(d) <= Allowed(d)
    BY DEF Light
  <2>2. /\ Carries(wnet', d, ToWorld) = Carries(wnet, d, ToWorld)
        /\ Carries(lnet', d, ToLogon) = Carries(lnet, d, ToLogon)
    BY <1>1
  <2>3. /\ d # cur => Size(toLogon'[d]) = Size(toLogon[d])
        /\ d = cur => Size(toLogon'[d]) <= Size(toLogon[d]) + 1
        /\ Size(toWorld'[d]) = Size(toWorld[d])
    BY <1>1, <1>4 DEF SentOn, Size
  <2>4. Allowed(d) \in Nat /\ Allowed(d)' \in Nat /\ Allowed(d) = (IF d = cur THEN 1 ELSE 2) /\ Allowed(d)' = 2
    BY <1>1 DEF Allowed
  <2>5. QED
    BY <1>5, <2>1, <2>2, <2>3, <2>4, LoadParts DEF Load
<1>8. (OneUp /\ Asking /\ Timing)'
  BY <1>1, <1>4 DEF OneUp, Asking, Timing, LinkTyped, Unasked, SentOn
<1>9. (Listed /\ Working /\ Hidden /\ Shown)'
  BY <1>1 DEF Listed, Working, Hidden, Shown
<1>10. QED
  BY <1>5, <1>6, <1>7, <1>8, <1>9

LEMMA AuthFailsKeeps ==
  ASSUME LinkAssumption, LinkInv, AuthFails
  PROVE  LinkInv'
<1> USE DEF LinkInv
<1>1. /\ watcher = "auth" /\ slot' = None /\ wUp' = wUp \ {cur} /\ watcher' = "idle"
      /\ cur' = None /\ mapLock' = FALSE /\ link' = link /\ toLogon' = toLogon
      /\ faults' = faults /\ registered' = registered /\ authenticated' = authenticated
      /\ ids' = ids /\ wnet' = wnet /\ lUp' = lUp /\ lAuth' = lAuth
      /\ serverSockets' = serverSockets /\ serverIds' = serverIds /\ realm' = realm
      /\ offline' = offline /\ lnet' = lnet /\ lmain' = lmain
  BY DEF AuthFails, Closes, Connected, logon
<1>2. cur \in Conn
  BY <1>1 DEF LinkTyped
<1>3. /\ toWorld \in [Conn -> Seq(ToWorld)]
      /\ toWorld' = Emptied(toWorld, cur)
  BY DEF AuthFails, LinkTyped, Closes
<1>4. LostOn(toWorld, toWorld', ToWorld, cur)
  BY EmptiedIs, <1>2, <1>3
<1>5. LinkTyped'
  BY <1>1, <1>4 DEF LinkTyped, LostOn
<1>6. HandsTyped'
  BY <1>1 DEF HandsTyped
<1>7. Light'
  <2> SUFFICES ASSUME NEW d \in Conn
                   PROVE  Load(d)' <= Allowed(d)'
    BY DEF Light
  <2>1. Load(d) <= Allowed(d)
    BY DEF Light
  <2>2. /\ Carries(wnet', d, ToWorld) = Carries(wnet, d, ToWorld)
        /\ Carries(lnet', d, ToLogon) = Carries(lnet, d, ToLogon)
    BY <1>1
  <2>3. /\ Size(toLogon'[d]) = Size(toLogon[d])
        /\ d # cur => Size(toWorld'[d]) = Size(toWorld[d])
        /\ d = cur => Size(toWorld'[d]) = 0
    BY <1>1, <1>4 DEF LostOn, Size
  <2>4. Allowed(d) \in Nat /\ Allowed(d)' \in Nat /\ Allowed(d) <= Allowed(d)'
    BY <1>1 DEF Allowed
  <2>5. QED
    BY <2>1, <2>2, <2>3, <2>4, LoadParts DEF Load
<1>8. (OneUp /\ Asking /\ Timing /\ Listed /\ Working /\ Hidden /\ Shown)'
  BY <1>1, <1>2 DEF OneUp, Asking, Timing, Listed, Working, Hidden, Shown, None, Conn, Unasked
<1>9. QED
  BY <1>5, <1>6, <1>7, <1>8

LEMMA RegisterAckedKeeps ==
  ASSUME LinkAssumption, LinkInv, RegisterAcked
  PROVE  LinkInv'
<1> USE DEF LinkInv
<1>1. /\ watcher = "register" /\ watcher' = "idle" /\ cur' = None /\ mapLock' = FALSE
      /\ link' = link /\ toLogon' = toLogon /\ toWorld' = toWorld /\ faults' = faults
      /\ slot' = slot /\ registered' = registered /\ wUp' = wUp
      /\ authenticated' = authenticated /\ ids' = ids /\ wnet' = wnet /\ lUp' = lUp
      /\ lAuth' = lAuth /\ serverSockets' = serverSockets /\ serverIds' = serverIds
      /\ realm' = realm /\ offline' = offline /\ lnet' = lnet /\ lmain' = lmain
  BY DEF RegisterAcked, Connected, network, logon
<1>2. LinkTyped'
  BY <1>1 DEF LinkTyped
<1>3. HandsTyped'
  BY <1>1 DEF HandsTyped
<1>4. Light'
  BY <1>1 DEF Light, Load, Allowed
<1>5. (OneUp /\ Asking /\ Timing /\ Listed /\ Working /\ Hidden /\ Shown)'
  BY <1>1 DEF OneUp, Asking, Timing, Listed, Working, Hidden, Shown, Unasked
<1>6. QED
  BY <1>2, <1>3, <1>4, <1>5

LEMMA RegisterTimeoutKeeps ==
  ASSUME LinkAssumption, LinkInv, RegisterTimeout
  PROVE  LinkInv'
<1> USE DEF LinkInv
<1>1. /\ watcher = "register" /\ Late(cur) /\ slot' = None /\ wUp' = wUp \ {cur}
      /\ watcher' = "idle" /\ cur' = None /\ mapLock' = FALSE /\ link' = link
      /\ toLogon' = toLogon /\ faults' = faults /\ registered' = registered
      /\ authenticated' = authenticated /\ ids' = ids /\ wnet' = wnet /\ lUp' = lUp
      /\ lAuth' = lAuth /\ serverSockets' = serverSockets /\ serverIds' = serverIds
      /\ realm' = realm /\ offline' = offline /\ lnet' = lnet /\ lmain' = lmain
  BY DEF RegisterTimeout, Closes, Connected, logon
<1>2. cur \in Conn
  BY <1>1 DEF LinkTyped
<1>3. /\ toWorld \in [Conn -> Seq(ToWorld)]
      /\ toWorld' = Emptied(toWorld, cur)
  BY DEF RegisterTimeout, LinkTyped, Closes
<1>4. LostOn(toWorld, toWorld', ToWorld, cur)
  BY EmptiedIs, <1>2, <1>3
<1>5. cur \in lUp /\ link[cur] = "fine" => cur \notin wUp
  BY <1>1, <1>2 DEF Late, Stuck, OneUp, HandsTyped, None, Conn
<1>6. LinkTyped'
  BY <1>1, <1>4 DEF LinkTyped, LostOn
<1>7. HandsTyped'
  BY <1>1 DEF HandsTyped
<1>8. Light'
  <2> SUFFICES ASSUME NEW d \in Conn
                   PROVE  Load(d)' <= Allowed(d)'
    BY DEF Light
  <2>1. Load(d) <= Allowed(d)
    BY DEF Light
  <2>2. /\ Carries(wnet', d, ToWorld) = Carries(wnet, d, ToWorld)
        /\ Carries(lnet', d, ToLogon) = Carries(lnet, d, ToLogon)
    BY <1>1
  <2>3. /\ Size(toLogon'[d]) = Size(toLogon[d])
        /\ d # cur => Size(toWorld'[d]) = Size(toWorld[d])
        /\ d = cur => Size(toWorld'[d]) = 0
    BY <1>1, <1>4 DEF LostOn, Size
  <2>4. Allowed(d) \in Nat /\ Allowed(d)' \in Nat /\ Allowed(d) <= Allowed(d)'
    BY <1>1 DEF Allowed
  <2>5. QED
    BY <2>1, <2>2, <2>3, <2>4, LoadParts DEF Load
<1>9. (OneUp /\ Timing /\ Listed /\ Working /\ Hidden /\ Shown)'
  BY <1>1, <1>2 DEF OneUp, Timing, Listed, Working, Hidden, Shown, None, Conn
<1>10. Asking'
  <2>1. ASSUME NEW d \in lUp \ wUp', link[d] = "fine"  PROVE Unasked(d)'
    <3>1. d \in lUp \ wUp /\ d \in Conn
      BY <1>1, <1>5, <2>1 DEF LinkTyped
    <3>2. QED
      BY <1>1, <2>1, <3>1 DEF Asking, Unasked
  <2>2. QED
    BY <1>1, <2>1 DEF Asking
<1>11. QED
  BY <1>6, <1>7, <1>8, <1>9, <1>10

LEMMA SweepDeadKeeps ==
  ASSUME LinkAssumption, LinkInv, SweepDead
  PROVE  LinkInv'
<1> USE DEF LinkInv
<1>1. /\ watcher = "idle" /\ slot # None /\ slot \notin wUp /\ ids' = ids \ {slot}
      /\ slot' = None /\ link' = link /\ toLogon' = toLogon /\ toWorld' = toWorld
      /\ faults' = faults /\ registered' = registered /\ watcher' = watcher /\ cur' = cur
      /\ mapLock' = mapLock /\ wUp' = wUp /\ authenticated' = authenticated /\ wnet' = wnet
      /\ lUp' = lUp /\ lAuth' = lAuth /\ serverSockets' = serverSockets
      /\ serverIds' = serverIds /\ realm' = realm /\ offline' = offline /\ lnet' = lnet
      /\ lmain' = lmain
  BY DEF SweepDead, network, logon
<1>2. LinkTyped'
  BY <1>1 DEF LinkTyped
<1>3. HandsTyped'
  BY <1>1 DEF HandsTyped
<1>4. Light'
  BY <1>1 DEF Light, Load, Allowed
<1>5. (OneUp /\ Asking /\ Timing /\ Listed /\ Working /\ Hidden /\ Shown)'
  BY <1>1 DEF OneUp, Asking, Timing, Listed, Working, Hidden, Shown, Unasked
<1>6. QED
  BY <1>2, <1>3, <1>4, <1>5

LEMMA PongTimeoutKeeps ==
  ASSUME LinkAssumption, LinkInv, PongTimeout
  PROVE  LinkInv'
<1> USE DEF LinkInv
<1>1. /\ watcher = "idle" /\ slot \in wUp /\ Late(slot) /\ ids' = ids \ {slot}
      /\ slot' = None /\ wUp' = wUp \ {slot} /\ link' = link /\ toLogon' = toLogon
      /\ faults' = faults /\ registered' = registered /\ watcher' = watcher /\ cur' = cur
      /\ mapLock' = mapLock /\ authenticated' = authenticated /\ wnet' = wnet /\ lUp' = lUp
      /\ lAuth' = lAuth /\ serverSockets' = serverSockets /\ serverIds' = serverIds
      /\ realm' = realm /\ offline' = offline /\ lnet' = lnet /\ lmain' = lmain
  BY DEF PongTimeout, Closes, logon
<1>2. slot \in Conn
  BY <1>1 DEF LinkTyped
<1>3. /\ toWorld \in [Conn -> Seq(ToWorld)]
      /\ toWorld' = Emptied(toWorld, slot)
  BY DEF PongTimeout, LinkTyped, Closes
<1>4. LostOn(toWorld, toWorld', ToWorld, slot)
  BY EmptiedIs, <1>2, <1>3
<1>5. slot \in lUp /\ link[slot] = "fine" => slot \notin wUp
  BY <1>1, <1>2 DEF Late, Stuck, OneUp, HandsTyped, None, Conn
<1>6. LinkTyped'
  BY <1>1, <1>4 DEF LinkTyped, LostOn
<1>7. HandsTyped'
  BY <1>1 DEF HandsTyped
<1>8. Light'
  <2> SUFFICES ASSUME NEW d \in Conn
                   PROVE  Load(d)' <= Allowed(d)'
    BY DEF Light
  <2>1. Load(d) <= Allowed(d)
    BY DEF Light
  <2>2. /\ Carries(wnet', d, ToWorld) = Carries(wnet, d, ToWorld)
        /\ Carries(lnet', d, ToLogon) = Carries(lnet, d, ToLogon)
    BY <1>1
  <2>3. /\ Size(toLogon'[d]) = Size(toLogon[d])
        /\ d # slot => Size(toWorld'[d]) = Size(toWorld[d])
        /\ d = slot => Size(toWorld'[d]) = 0
    BY <1>1, <1>4 DEF LostOn, Size
  <2>4. Allowed(d) \in Nat /\ Allowed(d)' \in Nat /\ Allowed(d) <= Allowed(d)'
    BY <1>1 DEF Allowed
  <2>5. QED
    BY <2>1, <2>2, <2>3, <2>4, LoadParts DEF Load
<1>9. (OneUp /\ Asking /\ Timing /\ Listed /\ Working /\ Hidden /\ Shown)'
  BY <1>1, <1>5 DEF OneUp, Asking, Timing, Listed, Working, Hidden, Shown, Unasked
<1>10. QED
  BY <1>6, <1>7, <1>8, <1>9

LEMMA WorldReadsKeeps ==
  ASSUME LinkAssumption, LinkInv, NEW c \in Conn, WorldReads(c)
  PROVE  LinkInv'
<1> USE DEF LinkInv
<1>1. /\ wnet = Nothing /\ c \in wUp /\ link' = link /\ toLogon' = toLogon
      /\ faults' = faults /\ slot' = slot /\ registered' = registered /\ watcher' = watcher
      /\ cur' = cur /\ mapLock' = mapLock /\ wUp' = wUp /\ authenticated' = authenticated
      /\ ids' = ids /\ lUp' = lUp /\ lAuth' = lAuth /\ serverSockets' = serverSockets
      /\ serverIds' = serverIds /\ realm' = realm /\ offline' = offline /\ lnet' = lnet
      /\ lmain' = lmain
  BY DEF WorldReads, logon
<1>2. /\ toWorld \in [Conn -> Seq(ToWorld)]
      /\ toWorld[c] # <<>> /\ toWorld' = [toWorld EXCEPT ![c] = Tail(@)]
      /\ wnet' = InHand(c, Head(toWorld[c]))
  BY DEF WorldReads, LinkTyped
<1>3. PICK m : ReadFrom(toWorld, toWorld', ToWorld, c, m) /\ wnet' = InHand(c, m)
  BY ReadIs, <1>2
<1>4. m \in ToWorld /\ Has(toWorld[c], m) /\ \A d \in Conn : \A x : Has(toWorld'[d], x) => Has(toWorld[d], x)
  BY <1>3 DEF ReadFrom
<1>5. LinkTyped'
  BY <1>1, <1>3 DEF LinkTyped, ReadFrom
<1>6. HandsTyped'
  <2>1. c # None /\ m \notin {"none", "closed", "drop"}
    BY <1>4 DEF ToWorld, None, Conn
  <2>2. QED
    BY <1>1, <1>3, <1>4, <2>1 DEF HandsTyped, InHand
<1>7. Light'
  <2> SUFFICES ASSUME NEW d \in Conn
                   PROVE  Load(d)' <= Allowed(d)'
    BY DEF Light
  <2>1. Load(d) <= Allowed(d)
    BY DEF Light
  <2>2. /\ Carries(wnet', d, ToWorld) <= IF d = c THEN 1 ELSE 0
        /\ Carries(wnet, d, ToWorld) = 0
        /\ Carries(lnet', d, ToLogon) = Carries(lnet, d, ToLogon)
    BY <1>1, <1>3 DEF Carries, InHand, Nothing, None, Conn
  <2>3. /\ Size(toLogon'[d]) = Size(toLogon[d])
        /\ d # c => Size(toWorld'[d]) = Size(toWorld[d])
        /\ d = c => Size(toWorld'[d]) + 1 = Size(toWorld[d])
    BY <1>1, <1>3 DEF ReadFrom, Size
  <2>4. Allowed(d) \in Nat /\ Allowed(d)' \in Nat /\ Allowed(d) <= Allowed(d)'
    BY <1>1 DEF Allowed
  <2>5. QED
    BY <1>5, <2>1, <2>2, <2>3, <2>4, LoadParts DEF Load
<1>8. OneUp'
  BY <1>1, <1>3 DEF OneUp, InHand, None, Conn
<1>9. Asking'
  BY <1>1, <1>3, <1>4 DEF Asking, LinkTyped, Unasked, InHand
<1>10. Timing'
  BY <1>1 DEF Timing
<1>11. Listed'
  BY <1>1 DEF Listed
<1>12. Working'
  BY <1>1 DEF Working
<1>13. Hidden'
  BY <1>1 DEF Hidden
<1>14. Shown'
  BY <1>1 DEF Shown
<1>15. QED
  BY <1>5, <1>6, <1>7, <1>8, <1>9, <1>10, <1>11, <1>12, <1>13, <1>14

LEMMA HandleAuthResponseKeeps ==
  ASSUME LinkAssumption, LinkInv, HandleAuthResponse
  PROVE  LinkInv'
<1> USE DEF LinkInv
<1>1. /\ wnet.job \in {"authok", "authbad"}
      /\ authenticated' = [authenticated EXCEPT ![wnet.conn] = Result(wnet.job)]
      /\ wnet' = Nothing /\ link' = link /\ toLogon' = toLogon /\ toWorld' = toWorld
      /\ faults' = faults /\ slot' = slot /\ registered' = registered /\ watcher' = watcher
      /\ cur' = cur /\ mapLock' = mapLock /\ wUp' = wUp /\ ids' = ids /\ lUp' = lUp
      /\ lAuth' = lAuth /\ serverSockets' = serverSockets /\ serverIds' = serverIds
      /\ realm' = realm /\ offline' = offline /\ lnet' = lnet /\ lmain' = lmain
  BY DEF HandleAuthResponse, network, logon
<1>2. LinkTyped'
  BY <1>1 DEF LinkTyped, AuthAnswer, Result
<1>3. HandsTyped'
  BY <1>1 DEF HandsTyped, Nothing
<1>4. Light'
  <2> SUFFICES ASSUME NEW d \in Conn
                   PROVE  Load(d)' <= Allowed(d)'
    BY DEF Light
  <2>1. Load(d) <= Allowed(d)
    BY DEF Light
  <2>2. /\ Carries(wnet', d, ToWorld) = 0
        /\ Carries(lnet', d, ToLogon) = Carries(lnet, d, ToLogon)
    BY <1>1 DEF Carries, Nothing, None, Conn
  <2>3. /\ Size(toLogon'[d]) = Size(toLogon[d])
        /\ Size(toWorld'[d]) = Size(toWorld[d])
    BY <1>1
  <2>4. Allowed(d) \in Nat /\ Allowed(d)' \in Nat /\ Allowed(d) <= Allowed(d)'
    BY <1>1 DEF Allowed
  <2>5. QED
    BY <2>1, <2>2, <2>3, <2>4, LoadParts DEF Load
<1>5. (OneUp /\ Asking /\ Timing /\ Listed /\ Working /\ Hidden /\ Shown)'
  BY <1>1 DEF OneUp, Asking, Timing, Listed, Working, Hidden, Shown, InHand, Nothing, Unasked
<1>6. QED
  BY <1>2, <1>3, <1>4, <1>5

LEMMA HandleRegisterKeeps ==
  ASSUME LinkAssumption, LinkInv, HandleRegister
  PROVE  LinkInv'
<1> USE DEF LinkInv
<1>1. /\ wnet.job = "registered" /\ registered' = (registered \/ wnet.conn \in ids)
      /\ wnet' = Nothing /\ link' = link /\ toLogon' = toLogon /\ toWorld' = toWorld
      /\ faults' = faults /\ slot' = slot /\ watcher' = watcher /\ cur' = cur
      /\ mapLock' = mapLock /\ wUp' = wUp /\ authenticated' = authenticated /\ ids' = ids
      /\ lUp' = lUp /\ lAuth' = lAuth /\ serverSockets' = serverSockets
      /\ serverIds' = serverIds /\ realm' = realm /\ offline' = offline /\ lnet' = lnet
      /\ lmain' = lmain
  BY DEF HandleRegister, network, logon
<1>2. LinkTyped'
  BY <1>1 DEF LinkTyped
<1>3. HandsTyped'
  BY <1>1 DEF HandsTyped, Nothing
<1>4. Light'
  <2> SUFFICES ASSUME NEW d \in Conn
                   PROVE  Load(d)' <= Allowed(d)'
    BY DEF Light
  <2>1. Load(d) <= Allowed(d)
    BY DEF Light
  <2>2. /\ Carries(wnet', d, ToWorld) = 0
        /\ Carries(lnet', d, ToLogon) = Carries(lnet, d, ToLogon)
    BY <1>1 DEF Carries, Nothing, None, Conn
  <2>3. /\ Size(toLogon'[d]) = Size(toLogon[d])
        /\ Size(toWorld'[d]) = Size(toWorld[d])
    BY <1>1
  <2>4. Allowed(d) \in Nat /\ Allowed(d)' \in Nat /\ Allowed(d) <= Allowed(d)'
    BY <1>1 DEF Allowed
  <2>5. QED
    BY <2>1, <2>2, <2>3, <2>4, LoadParts DEF Load
<1>5. (OneUp /\ Asking /\ Timing /\ Listed /\ Working /\ Hidden /\ Shown)'
  BY <1>1 DEF OneUp, Asking, Timing, Listed, Working, Hidden, Shown, InHand, Nothing, Unasked
<1>6. QED
  BY <1>2, <1>3, <1>4, <1>5

LEMMA HandlePopulationRequestKeeps ==
  ASSUME LinkAssumption, LinkInv, HandlePopulationRequest
  PROVE  LinkInv'
<1> USE DEF LinkInv
<1>1. /\ wnet.job = "popreq" /\ wnet' = Nothing /\ link' = link /\ toWorld' = toWorld
      /\ faults' = faults /\ slot' = slot /\ registered' = registered /\ watcher' = watcher
      /\ cur' = cur /\ mapLock' = mapLock /\ wUp' = wUp /\ authenticated' = authenticated
      /\ ids' = ids /\ lUp' = lUp /\ lAuth' = lAuth /\ serverSockets' = serverSockets
      /\ serverIds' = serverIds /\ realm' = realm /\ offline' = offline /\ lnet' = lnet
      /\ lmain' = lmain
  BY DEF HandlePopulationRequest, logon
<1>2. wnet.conn \in Conn
  BY <1>1 DEF HandsTyped
<1>3. /\ toLogon \in [Conn -> Seq(ToLogon)]
      /\ toLogon' = Sent(toLogon, wUp, wnet.conn, "popres") /\ "popres" \in ToLogon
  BY DEF HandlePopulationRequest, LinkTyped, ToLogon
<1>4. SentOn(toLogon, toLogon', ToLogon, wUp, wnet.conn, "popres")
  BY SentIs, <1>2, <1>3
<1>5. LinkTyped'
  BY <1>1, <1>4 DEF LinkTyped, SentOn
<1>6. HandsTyped'
  BY <1>1 DEF HandsTyped, Nothing
<1>7. Light'
  <2> SUFFICES ASSUME NEW d \in Conn
                   PROVE  Load(d)' <= Allowed(d)'
    BY DEF Light
  <2>1. Load(d) <= Allowed(d)
    BY DEF Light
  <2>2. /\ Carries(wnet', d, ToWorld) = 0
        /\ d = wnet.conn => Carries(wnet, d, ToWorld) = 1
        /\ Carries(lnet', d, ToLogon) = Carries(lnet, d, ToLogon)
    BY <1>1 DEF Carries, ToWorld, Nothing
  <2>3. /\ d # wnet.conn => Size(toLogon'[d]) = Size(toLogon[d])
        /\ d = wnet.conn => Size(toLogon'[d]) <= Size(toLogon[d]) + 1
        /\ Size(toWorld'[d]) = Size(toWorld[d])
    BY <1>1, <1>4 DEF SentOn, Size
  <2>4. Allowed(d) \in Nat /\ Allowed(d)' \in Nat /\ Allowed(d) <= Allowed(d)'
    BY <1>1 DEF Allowed
  <2>5. QED
    BY <1>5, <2>1, <2>2, <2>3, <2>4, LoadParts DEF Load
<1>8. (OneUp /\ Asking /\ Timing)'
  BY <1>1, <1>4, ZenonT(30) DEF OneUp, Asking, Timing, HandsTyped, LinkTyped, InHand, Nothing,
     None, Unasked, SentOn
<1>9. (Listed /\ Working /\ Hidden /\ Shown)'
  BY <1>1 DEF Listed, Working, Hidden, Shown
<1>10. QED
  BY <1>5, <1>6, <1>7, <1>8, <1>9

LEMMA WorldDetectsKeeps ==
  ASSUME LinkAssumption, LinkInv, NEW c \in Conn, WorldDetects(c)
  PROVE  LinkInv'
<1> USE DEF LinkInv
<1>1. /\ wnet = Nothing /\ c \in wUp /\ (link[c] = "cut" \/ c \notin lUp)
      /\ wUp' = wUp \ {c} /\ wnet' = InHand(c, "closed") /\ link' = link
      /\ toLogon' = toLogon /\ toWorld' = toWorld /\ faults' = faults /\ slot' = slot
      /\ registered' = registered /\ watcher' = watcher /\ cur' = cur /\ mapLock' = mapLock
      /\ authenticated' = authenticated /\ ids' = ids /\ lUp' = lUp /\ lAuth' = lAuth
      /\ serverSockets' = serverSockets /\ serverIds' = serverIds /\ realm' = realm
      /\ offline' = offline /\ lnet' = lnet /\ lmain' = lmain
  BY DEF WorldDetects, network, logon
<1>2. LinkTyped'
  BY <1>1 DEF LinkTyped
<1>3. HandsTyped'
  BY <1>1 DEF HandsTyped, InHand, None, Conn
<1>4. Light'
  <2> SUFFICES ASSUME NEW d \in Conn
                   PROVE  Load(d)' <= Allowed(d)'
    BY DEF Light
  <2>1. Load(d) <= Allowed(d)
    BY DEF Light
  <2>2. /\ Carries(wnet', d, ToWorld) = 0
        /\ Carries(lnet', d, ToLogon) = Carries(lnet, d, ToLogon)
    BY <1>1 DEF Carries, ToWorld, InHand
  <2>3. /\ Size(toLogon'[d]) = Size(toLogon[d])
        /\ Size(toWorld'[d]) = Size(toWorld[d])
    BY <1>1
  <2>4. Allowed(d) \in Nat /\ Allowed(d)' \in Nat /\ Allowed(d) <= Allowed(d)'
    BY <1>1 DEF Allowed
  <2>5. QED
    BY <2>1, <2>2, <2>3, <2>4, LoadParts DEF Load
<1>5. (OneUp /\ Asking /\ Timing)'
  BY <1>1 DEF OneUp, Asking, Timing, InHand, None, Conn, Unasked
<1>6. (Listed /\ Working /\ Hidden /\ Shown)'
  BY <1>1 DEF Listed, Working, Hidden, Shown
<1>7. QED
  BY <1>2, <1>3, <1>4, <1>5, <1>6

LEMMA OnDisconnectKeeps ==
  ASSUME LinkAssumption, LinkInv, OnDisconnect
  PROVE  LinkInv'
<1> USE DEF LinkInv
<1>1. /\ wnet.job = "closed"
      /\ wnet' = (IF wnet.conn \in ids THEN InHand(wnet.conn, "drop") ELSE Nothing)
      /\ link' = link /\ toLogon' = toLogon /\ toWorld' = toWorld /\ faults' = faults
      /\ slot' = slot /\ registered' = registered /\ watcher' = watcher /\ cur' = cur
      /\ mapLock' = mapLock /\ wUp' = wUp /\ authenticated' = authenticated /\ ids' = ids
      /\ lUp' = lUp /\ lAuth' = lAuth /\ serverSockets' = serverSockets
      /\ serverIds' = serverIds /\ realm' = realm /\ offline' = offline /\ lnet' = lnet
      /\ lmain' = lmain
  BY DEF OnDisconnect, network, logon
<1>2. LinkTyped'
  BY <1>1 DEF LinkTyped
<1>3. HandsTyped'
  BY <1>1 DEF HandsTyped, InHand, Nothing
<1>4. Light'
  <2> SUFFICES ASSUME NEW d \in Conn
                   PROVE  Load(d)' <= Allowed(d)'
    BY DEF Light
  <2>1. Load(d) <= Allowed(d)
    BY DEF Light
  <2>2. /\ Carries(wnet', d, ToWorld) = 0
        /\ Carries(lnet', d, ToLogon) = Carries(lnet, d, ToLogon)
    BY <1>1 DEF Carries, ToWorld, InHand, Nothing
  <2>3. /\ Size(toLogon'[d]) = Size(toLogon[d])
        /\ Size(toWorld'[d]) = Size(toWorld[d])
    BY <1>1
  <2>4. Allowed(d) \in Nat /\ Allowed(d)' \in Nat /\ Allowed(d) <= Allowed(d)'
    BY <1>1 DEF Allowed
  <2>5. QED
    BY <2>1, <2>2, <2>3, <2>4, LoadParts DEF Load
<1>5. (OneUp /\ Asking /\ Timing)'
  BY <1>1 DEF OneUp, Asking, Timing, InHand, Nothing, Unasked
<1>6. (Listed /\ Working /\ Hidden /\ Shown)'
  BY <1>1 DEF Listed, Working, Hidden, Shown
<1>7. QED
  BY <1>2, <1>3, <1>4, <1>5, <1>6

LEMMA ConnectionDroppedKeeps ==
  ASSUME LinkAssumption, LinkInv, ConnectionDropped
  PROVE  LinkInv'
<1> USE DEF LinkInv
<1>1. /\ wnet.job = "drop" /\ ~mapLock /\ slot' = None /\ wnet' = Nothing /\ link' = link
      /\ toLogon' = toLogon /\ toWorld' = toWorld /\ faults' = faults
      /\ registered' = registered /\ watcher' = watcher /\ cur' = cur /\ mapLock' = mapLock
      /\ wUp' = wUp /\ authenticated' = authenticated /\ ids' = ids /\ lUp' = lUp
      /\ lAuth' = lAuth /\ serverSockets' = serverSockets /\ serverIds' = serverIds
      /\ realm' = realm /\ offline' = offline /\ lnet' = lnet /\ lmain' = lmain
  BY DEF ConnectionDropped, DroppedSlot, network, logon
<1>2. LinkTyped'
  BY <1>1 DEF LinkTyped
<1>3. HandsTyped'
  BY <1>1 DEF HandsTyped, Nothing
<1>4. Light'
  <2> SUFFICES ASSUME NEW d \in Conn
                   PROVE  Load(d)' <= Allowed(d)'
    BY DEF Light
  <2>1. Load(d) <= Allowed(d)
    BY DEF Light
  <2>2. /\ Carries(wnet', d, ToWorld) = 0
        /\ Carries(lnet', d, ToLogon) = Carries(lnet, d, ToLogon)
    BY <1>1 DEF Carries, Nothing, None, Conn
  <2>3. /\ Size(toLogon'[d]) = Size(toLogon[d])
        /\ Size(toWorld'[d]) = Size(toWorld[d])
    BY <1>1
  <2>4. Allowed(d) \in Nat /\ Allowed(d)' \in Nat /\ Allowed(d) <= Allowed(d)'
    BY <1>1 DEF Allowed
  <2>5. QED
    BY <2>1, <2>2, <2>3, <2>4, LoadParts DEF Load
<1>5. (OneUp /\ Asking /\ Timing /\ Listed /\ Working /\ Hidden /\ Shown)'
  BY <1>1 DEF OneUp, Asking, Timing, Listed, Working, Hidden, Shown, HandsTyped, InHand, Nothing,
     Unasked
<1>6. QED
  BY <1>2, <1>3, <1>4, <1>5

LEMMA LogonReadsKeeps ==
  ASSUME LinkAssumption, LinkInv, NEW c \in Conn, LogonReads(c)
  PROVE  LinkInv'
<1> USE DEF LinkInv
<1>1. /\ lnet = Nothing /\ c \in lUp /\ Flows(c) /\ link' = link /\ toWorld' = toWorld
      /\ faults' = faults /\ slot' = slot /\ registered' = registered /\ watcher' = watcher
      /\ cur' = cur /\ mapLock' = mapLock /\ wUp' = wUp /\ authenticated' = authenticated
      /\ ids' = ids /\ wnet' = wnet /\ lUp' = lUp /\ lAuth' = lAuth
      /\ serverSockets' = serverSockets /\ serverIds' = serverIds /\ realm' = realm
      /\ offline' = offline /\ lmain' = lmain
  BY DEF LogonReads, world
<1>2. /\ toLogon \in [Conn -> Seq(ToLogon)]
      /\ toLogon[c] # <<>> /\ toLogon' = [toLogon EXCEPT ![c] = Tail(@)]
      /\ lnet' = InHand(c, Head(toLogon[c]))
  BY DEF LogonReads, LinkTyped
<1>3. PICK m : ReadFrom(toLogon, toLogon', ToLogon, c, m) /\ lnet' = InHand(c, m)
  BY ReadIs, <1>2
<1>4. m \in ToLogon /\ Has(toLogon[c], m) /\ \A d \in Conn : \A x : Has(toLogon'[d], x) => Has(toLogon[d], x)
  BY <1>3 DEF ReadFrom
<1>5. /\ c \notin wUp /\ link[c] = "fine" => m = "challenge"
      /\ watcher = "auth" /\ cur = c => m = "challenge"
  BY <1>1, <1>4 DEF Asking, Unasked, ToLogon
<1>6. LinkTyped'
  BY <1>1, <1>3 DEF LinkTyped, ReadFrom
<1>7. HandsTyped'
  <2>1. c # None /\ m \notin {"none", "insert", "closed"}
    BY <1>4 DEF ToLogon, None, Conn
  <2>2. QED
    BY <1>1, <1>3, <1>4, <2>1 DEF HandsTyped, InHand
<1>8. Light'
  <2> SUFFICES ASSUME NEW d \in Conn
                   PROVE  Load(d)' <= Allowed(d)'
    BY DEF Light
  <2>1. Load(d) <= Allowed(d)
    BY DEF Light
  <2>2. /\ Carries(wnet', d, ToWorld) = Carries(wnet, d, ToWorld)
        /\ Carries(lnet', d, ToLogon) <= IF d = c THEN 1 ELSE 0
        /\ Carries(lnet, d, ToLogon) = 0
    BY <1>1, <1>3 DEF Carries, InHand, Nothing, None, Conn
  <2>3. /\ d # c => Size(toLogon'[d]) = Size(toLogon[d])
        /\ d = c => Size(toLogon'[d]) + 1 = Size(toLogon[d])
        /\ Size(toWorld'[d]) = Size(toWorld[d])
    BY <1>1, <1>3 DEF ReadFrom, Size
  <2>4. Allowed(d) \in Nat /\ Allowed(d)' \in Nat /\ Allowed(d) <= Allowed(d)'
    BY <1>1 DEF Allowed
  <2>5. QED
    BY <1>6, <2>1, <2>2, <2>3, <2>4, LoadParts DEF Load
<1>9. (OneUp /\ Asking /\ Timing)'
  BY <1>1, <1>3, <1>4, <1>5 DEF OneUp, Asking, Timing, LinkTyped, InHand, Unasked, Flows
<1>10. (Listed /\ Hidden /\ Shown)'
  BY <1>1 DEF Listed, Hidden, Shown, InHand, Nothing
<1>11. Working'
  <2>1. m # "challenge" => link[c] = "slow" \/ (c \in lUp \cap serverSockets /\ lmain.conn # c)
    BY <1>1, <1>5 DEF Flows, Timing, Listed, None, Conn
  <2>2. QED
    BY <1>1, <1>3, <2>1 DEF Working, InHand
<1>12. QED
  BY <1>6, <1>7, <1>8, <1>9, <1>10, <1>11

LEMMA LogonDetectsKeeps ==
  ASSUME LinkAssumption, LinkInv, NEW c \in Conn, LogonDetects(c)
  PROVE  LinkInv'
<1> USE DEF LinkInv
<1>1. /\ lnet = Nothing /\ c \in lUp /\ lUp' = lUp \ {c} /\ lnet' = InHand(c, "closed")
      /\ link' = link /\ toLogon' = toLogon /\ toWorld' = toWorld /\ faults' = faults
      /\ slot' = slot /\ registered' = registered /\ watcher' = watcher /\ cur' = cur
      /\ mapLock' = mapLock /\ wUp' = wUp /\ authenticated' = authenticated /\ ids' = ids
      /\ wnet' = wnet /\ lAuth' = lAuth /\ serverSockets' = serverSockets
      /\ serverIds' = serverIds /\ realm' = realm /\ offline' = offline /\ lmain' = lmain
  BY DEF LogonDetects, network, world
<1>2. LinkTyped'
  BY <1>1 DEF LinkTyped
<1>3. HandsTyped'
  BY <1>1 DEF HandsTyped, InHand, None, Conn
<1>4. Light'
  <2> SUFFICES ASSUME NEW d \in Conn
                   PROVE  Load(d)' <= Allowed(d)'
    BY DEF Light
  <2>1. Load(d) <= Allowed(d)
    BY DEF Light
  <2>2. /\ Carries(wnet', d, ToWorld) = Carries(wnet, d, ToWorld)
        /\ Carries(lnet', d, ToLogon) = 0
    BY <1>1 DEF Carries, ToLogon, InHand
  <2>3. /\ Size(toLogon'[d]) = Size(toLogon[d])
        /\ Size(toWorld'[d]) = Size(toWorld[d])
    BY <1>1
  <2>4. Allowed(d) \in Nat /\ Allowed(d)' \in Nat /\ Allowed(d) <= Allowed(d)'
    BY <1>1 DEF Allowed
  <2>5. QED
    BY <2>1, <2>2, <2>3, <2>4, LoadParts DEF Load
<1>5. (OneUp /\ Asking /\ Timing /\ Listed /\ Working /\ Hidden /\ Shown)'
  BY <1>1 DEF OneUp, Asking, Timing, Listed, Working, Hidden, Shown, InHand, Nothing, Unasked
<1>6. QED
  BY <1>2, <1>3, <1>4, <1>5

LEMMA LogonOnDisconnectKeeps ==
  ASSUME LinkAssumption, LinkInv, LogonOnDisconnect
  PROVE  LinkInv'
<1> USE DEF LinkInv
<1>1. /\ lnet.job = "closed"
      /\ offline' = (offline \/ (lnet.conn \in serverSockets /\ Hides(lnet.conn)))
      /\ serverSockets' = serverSockets \ {lnet.conn} /\ lnet' = Nothing /\ link' = link
      /\ toLogon' = toLogon /\ toWorld' = toWorld /\ faults' = faults /\ slot' = slot
      /\ registered' = registered /\ watcher' = watcher /\ cur' = cur /\ mapLock' = mapLock
      /\ wUp' = wUp /\ authenticated' = authenticated /\ ids' = ids /\ wnet' = wnet
      /\ lUp' = lUp /\ lAuth' = lAuth /\ serverIds' = serverIds /\ realm' = realm
      /\ lmain' = lmain
  BY DEF LogonOnDisconnect, Unlist, network, world
<1>2. LinkTyped'
  BY <1>1 DEF LinkTyped
<1>3. HandsTyped'
  BY <1>1 DEF HandsTyped, Nothing
<1>4. Light'
  <2> SUFFICES ASSUME NEW d \in Conn
                   PROVE  Load(d)' <= Allowed(d)'
    BY DEF Light
  <2>1. Load(d) <= Allowed(d)
    BY DEF Light
  <2>2. /\ Carries(wnet', d, ToWorld) = Carries(wnet, d, ToWorld)
        /\ Carries(lnet', d, ToLogon) = 0
    BY <1>1 DEF Carries, Nothing, None, Conn
  <2>3. /\ Size(toLogon'[d]) = Size(toLogon[d])
        /\ Size(toWorld'[d]) = Size(toWorld[d])
    BY <1>1
  <2>4. Allowed(d) \in Nat /\ Allowed(d)' \in Nat /\ Allowed(d) <= Allowed(d)'
    BY <1>1 DEF Allowed
  <2>5. QED
    BY <2>1, <2>2, <2>3, <2>4, LoadParts DEF Load
<1>5. (OneUp /\ Asking /\ Timing)'
  BY <1>1 DEF OneUp, Asking, Timing, LinkTyped, Nothing, None, Conn, Unasked
<1>6. (Listed /\ Working /\ Hidden)'
  BY <1>1 DEF Listed, Working, Hidden, HandsTyped, LinkTyped, Nothing, Hides
<1>7. Shown'
  <2>1. SUFFICES ASSUME realm # None, ~offline, link[realm] # "slow",
                         ~(lnet.conn \in serverSockets /\ Hides(lnet.conn))
                  PROVE  Shown'
    BY <1>1 DEF Shown
  <2>2. lnet.conn # realm /\ realm \in lUp /\ serverIds[realm] = realm
    BY <1>1, <2>1 DEF Shown, Hides, InHand
  <2>3. QED
    BY <1>1, <2>2 DEF Shown
<1>8. QED
  BY <1>2, <1>3, <1>4, <1>5, <1>6, <1>7

LEMMA HandleAuthChallengeKeeps ==
  ASSUME LinkAssumption, LinkInv, HandleAuthChallenge
  PROVE  LinkInv'
<1> USE DEF LinkInv
<1>1. /\ lnet.job = "challenge" /\ lAuth' = lAuth \cup {lnet.conn} /\ lnet' = Nothing
      /\ link' = link /\ toLogon' = toLogon /\ faults' = faults /\ slot' = slot
      /\ registered' = registered /\ watcher' = watcher /\ cur' = cur /\ mapLock' = mapLock
      /\ wUp' = wUp /\ authenticated' = authenticated /\ ids' = ids /\ wnet' = wnet
      /\ lUp' = lUp /\ serverSockets' = serverSockets /\ serverIds' = serverIds
      /\ realm' = realm /\ offline' = offline /\ lmain' = lmain
  BY DEF HandleAuthChallenge, world
<1>2. lnet.conn \in Conn
  BY <1>1 DEF HandsTyped
<1>3. /\ toWorld \in [Conn -> Seq(ToWorld)]
      /\ toWorld' = Sent(toWorld, lUp \cap wUp, lnet.conn, "authok") /\ "authok" \in ToWorld
  BY DEF HandleAuthChallenge, LinkTyped, ToWorld
<1>4. SentOn(toWorld, toWorld', ToWorld, lUp \cap wUp, lnet.conn, "authok")
  BY SentIs, <1>2, <1>3
<1>5. \A d \in Conn : Has(toWorld'[d], "popreq") => Has(toWorld[d], "popreq")
  BY <1>4 DEF SentOn
<1>6. LinkTyped'
  BY <1>1, <1>2, <1>4 DEF LinkTyped, SentOn
<1>7. HandsTyped'
  BY <1>1 DEF HandsTyped, Nothing
<1>8. Light'
  <2> SUFFICES ASSUME NEW d \in Conn
                   PROVE  Load(d)' <= Allowed(d)'
    BY DEF Light
  <2>1. Load(d) <= Allowed(d)
    BY DEF Light
  <2>2. /\ Carries(wnet', d, ToWorld) = Carries(wnet, d, ToWorld)
        /\ Carries(lnet', d, ToLogon) = 0
        /\ d = lnet.conn => Carries(lnet, d, ToLogon) = 1
    BY <1>1 DEF Carries, ToLogon, Nothing
  <2>3. /\ Size(toLogon'[d]) = Size(toLogon[d])
        /\ d # lnet.conn => Size(toWorld'[d]) = Size(toWorld[d])
        /\ d = lnet.conn => Size(toWorld'[d]) <= Size(toWorld[d]) + 1
    BY <1>1, <1>4 DEF SentOn, Size
  <2>4. Allowed(d) \in Nat /\ Allowed(d)' \in Nat /\ Allowed(d) <= Allowed(d)'
    BY <1>1 DEF Allowed
  <2>5. QED
    BY <1>6, <2>1, <2>2, <2>3, <2>4, LoadParts DEF Load
<1>9. (OneUp /\ Timing)'
  BY <1>1 DEF OneUp, Timing, Nothing
<1>10. Asking'
  <2>1. watcher' = "auth" => /\ Unasked(cur)'
                             /\ ~Has(toWorld'[cur], "popreq") /\ wnet' # InHand(cur, "popreq")
    BY <1>1, <1>5 DEF Asking, Unasked, LinkTyped, Nothing
  <2>2. \A d \in lUp \ wUp : link[d] = "fine" => Unasked(d)'
    BY <1>1 DEF Asking, Unasked, LinkTyped, Nothing, None, Conn
  <2>3. QED
    BY <1>1, <2>1, <2>2 DEF Asking
<1>11. (Listed /\ Working /\ Hidden /\ Shown)'
  BY <1>1 DEF Listed, Working, Hidden, Shown, InHand, Nothing
<1>12. QED
  BY <1>6, <1>7, <1>8, <1>9, <1>10, <1>11

LEMMA RefuseAuthChallengeKeeps ==
  ASSUME LinkAssumption, LinkInv, RefuseAuthChallenge
  PROVE  LinkInv'
<1> USE DEF LinkInv
<1>1. /\ lnet.job = "challenge" /\ lAuth' = lAuth \ {lnet.conn} /\ lnet' = Nothing
      /\ link' = link /\ toLogon' = toLogon /\ slot' = slot /\ registered' = registered
      /\ watcher' = watcher /\ cur' = cur /\ mapLock' = mapLock /\ wUp' = wUp
      /\ authenticated' = authenticated /\ ids' = ids /\ wnet' = wnet /\ lUp' = lUp
      /\ serverSockets' = serverSockets /\ serverIds' = serverIds /\ realm' = realm
      /\ offline' = offline /\ lmain' = lmain
  BY DEF RefuseAuthChallenge, world
<1>2. faults' \in 0..MaxFaults
  BY DEF RefuseAuthChallenge, LinkTyped
<1>3. lnet.conn \in Conn
  BY <1>1 DEF HandsTyped
<1>4. /\ toWorld \in [Conn -> Seq(ToWorld)]
      /\ toWorld' = Sent(toWorld, lUp \cap wUp, lnet.conn, "authbad") /\ "authbad" \in ToWorld
  BY DEF RefuseAuthChallenge, LinkTyped, ToWorld
<1>5. SentOn(toWorld, toWorld', ToWorld, lUp \cap wUp, lnet.conn, "authbad")
  BY SentIs, <1>3, <1>4
<1>6. \A d \in Conn : Has(toWorld'[d], "popreq") => Has(toWorld[d], "popreq")
  BY <1>5 DEF SentOn
<1>7. LinkTyped'
  BY <1>1, <1>5, <1>2 DEF LinkTyped, SentOn
<1>8. HandsTyped'
  BY <1>1 DEF HandsTyped, Nothing
<1>9. Light'
  <2> SUFFICES ASSUME NEW d \in Conn
                   PROVE  Load(d)' <= Allowed(d)'
    BY DEF Light
  <2>1. Load(d) <= Allowed(d)
    BY DEF Light
  <2>2. /\ Carries(wnet', d, ToWorld) = Carries(wnet, d, ToWorld)
        /\ Carries(lnet', d, ToLogon) = 0
        /\ d = lnet.conn => Carries(lnet, d, ToLogon) = 1
    BY <1>1 DEF Carries, ToLogon, Nothing
  <2>3. /\ Size(toLogon'[d]) = Size(toLogon[d])
        /\ d # lnet.conn => Size(toWorld'[d]) = Size(toWorld[d])
        /\ d = lnet.conn => Size(toWorld'[d]) <= Size(toWorld[d]) + 1
    BY <1>1, <1>5 DEF SentOn, Size
  <2>4. Allowed(d) \in Nat /\ Allowed(d)' \in Nat /\ Allowed(d) <= Allowed(d)'
    BY <1>1 DEF Allowed
  <2>5. QED
    BY <1>7, <2>1, <2>2, <2>3, <2>4, LoadParts DEF Load
<1>10. (OneUp /\ Timing)'
  BY <1>1 DEF OneUp, Timing, Nothing
<1>11. Asking'
  <2>1. watcher' = "auth" => /\ Unasked(cur)'
                             /\ ~Has(toWorld'[cur], "popreq") /\ wnet' # InHand(cur, "popreq")
    BY <1>1, <1>6 DEF Asking, Unasked, LinkTyped, Nothing
  <2>2. \A d \in lUp \ wUp : link[d] = "fine" => Unasked(d)'
    BY <1>1 DEF Asking, Unasked, LinkTyped, Nothing, None, Conn
  <2>3. QED
    BY <1>1, <2>1, <2>2 DEF Asking
<1>12. (Listed /\ Working /\ Hidden /\ Shown)'
  BY <1>1 DEF Listed, Working, Hidden, Shown, InHand, Nothing
<1>13. QED
  BY <1>7, <1>8, <1>9, <1>10, <1>11, <1>12

LEMMA RegisterRealmKeeps ==
  ASSUME LinkAssumption, LinkInv, RegisterRealm
  PROVE  LinkInv'
<1> USE DEF LinkInv
<1>1. /\ lnet.job = "register" /\ realm' = lnet.conn /\ offline' = FALSE
      /\ lnet' = InHand(lnet.conn, "insert") /\ link' = link /\ toLogon' = toLogon
      /\ faults' = faults /\ slot' = slot /\ registered' = registered /\ watcher' = watcher
      /\ cur' = cur /\ mapLock' = mapLock /\ wUp' = wUp /\ authenticated' = authenticated
      /\ ids' = ids /\ wnet' = wnet /\ lUp' = lUp /\ lAuth' = lAuth
      /\ serverSockets' = serverSockets /\ serverIds' = serverIds /\ lmain' = lmain
  BY DEF RegisterRealm, NewId, world
<1>2. lnet.conn \in Conn
  BY <1>1 DEF HandsTyped
<1>3. /\ toWorld \in [Conn -> Seq(ToWorld)]
      /\ toWorld' = Sent(toWorld, lUp \cap wUp, lnet.conn, "registered") /\ "registered" \in ToWorld
  BY DEF RegisterRealm, LinkTyped, ToWorld
<1>4. SentOn(toWorld, toWorld', ToWorld, lUp \cap wUp, lnet.conn, "registered")
  BY SentIs, <1>2, <1>3
<1>5. LinkTyped'
  BY <1>1, <1>2, <1>4 DEF LinkTyped, SentOn
<1>6. HandsTyped'
  BY <1>1 DEF HandsTyped, InHand
<1>7. Light'
  <2> SUFFICES ASSUME NEW d \in Conn
                   PROVE  Load(d)' <= Allowed(d)'
    BY DEF Light
  <2>1. Load(d) <= Allowed(d)
    BY DEF Light
  <2>2. /\ Carries(wnet', d, ToWorld) = Carries(wnet, d, ToWorld)
        /\ Carries(lnet', d, ToLogon) = 0
        /\ d = lnet.conn => Carries(lnet, d, ToLogon) = 1
    BY <1>1 DEF Carries, ToLogon, InHand
  <2>3. /\ Size(toLogon'[d]) = Size(toLogon[d])
        /\ d # lnet.conn => Size(toWorld'[d]) = Size(toWorld[d])
        /\ d = lnet.conn => Size(toWorld'[d]) <= Size(toWorld[d]) + 1
    BY <1>1, <1>4 DEF SentOn, Size
  <2>4. Allowed(d) \in Nat /\ Allowed(d)' \in Nat /\ Allowed(d) <= Allowed(d)'
    BY <1>1 DEF Allowed
  <2>5. QED
    BY <1>5, <2>1, <2>2, <2>3, <2>4, LoadParts DEF Load
<1>8. (OneUp /\ Asking /\ Timing /\ Listed /\ Working /\ Hidden /\ Shown)'
  BY <1>1, <1>4 DEF OneUp, Asking, Timing, Listed, Working, Hidden, Shown, LinkTyped, InHand,
     Unasked, SentOn
<1>9. QED
  BY <1>5, <1>6, <1>7, <1>8

LEMMA InsertServerIdKeeps ==
  ASSUME LinkAssumption, LinkInv, InsertServerId
  PROVE  LinkInv'
<1> USE DEF LinkInv
<1>1. /\ lnet.job = "insert" /\ serverIds' = [serverIds EXCEPT ![lnet.conn] = lnet.conn]
      /\ lnet' = Nothing /\ link' = link /\ toLogon' = toLogon /\ toWorld' = toWorld
      /\ faults' = faults /\ slot' = slot /\ registered' = registered /\ watcher' = watcher
      /\ cur' = cur /\ mapLock' = mapLock /\ wUp' = wUp /\ authenticated' = authenticated
      /\ ids' = ids /\ wnet' = wnet /\ lUp' = lUp /\ lAuth' = lAuth
      /\ serverSockets' = serverSockets /\ realm' = realm /\ offline' = offline
      /\ lmain' = lmain
  BY DEF InsertServerId, NewId, network, world
<1>2. LinkTyped'
  BY <1>1 DEF LinkTyped
<1>3. HandsTyped'
  BY <1>1 DEF HandsTyped, Nothing
<1>4. Light'
  <2> SUFFICES ASSUME NEW d \in Conn
                   PROVE  Load(d)' <= Allowed(d)'
    BY DEF Light
  <2>1. Load(d) <= Allowed(d)
    BY DEF Light
  <2>2. /\ Carries(wnet', d, ToWorld) = Carries(wnet, d, ToWorld)
        /\ Carries(lnet', d, ToLogon) = 0
    BY <1>1 DEF Carries, Nothing, None, Conn
  <2>3. /\ Size(toLogon'[d]) = Size(toLogon[d])
        /\ Size(toWorld'[d]) = Size(toWorld[d])
    BY <1>1
  <2>4. Allowed(d) \in Nat /\ Allowed(d)' \in Nat /\ Allowed(d) <= Allowed(d)'
    BY <1>1 DEF Allowed
  <2>5. QED
    BY <2>1, <2>2, <2>3, <2>4, LoadParts DEF Load
<1>5. OneUp'
  BY <1>1 DEF OneUp
<1>6. Asking'
  BY <1>1 DEF Asking, LinkTyped, Unasked, Nothing, None, Conn
<1>7. Timing'
  BY <1>1 DEF Timing, Nothing
<1>8. Listed'
  BY <1>1 DEF Listed
<1>9. Working'
  BY <1>1 DEF Working, Nothing
<1>10. Hidden'
  BY <1>1 DEF Hidden
<1>11. Shown'
  BY <1>1 DEF Shown, LinkTyped, InHand
<1>12. QED
  BY <1>2, <1>3, <1>4, <1>5, <1>6, <1>7, <1>8, <1>9, <1>10, <1>11

LEMMA HandlePopulationRespondKeeps ==
  ASSUME LinkAssumption, LinkInv, HandlePopulationRespond
  PROVE  LinkInv'
<1> USE DEF LinkInv
<1>1. /\ lnet.job = "popres" /\ offline' = (offline /\ ~Hides(lnet.conn)) /\ lnet' = Nothing
      /\ link' = link /\ toLogon' = toLogon /\ toWorld' = toWorld /\ faults' = faults
      /\ slot' = slot /\ registered' = registered /\ watcher' = watcher /\ cur' = cur
      /\ mapLock' = mapLock /\ wUp' = wUp /\ authenticated' = authenticated /\ ids' = ids
      /\ wnet' = wnet /\ lUp' = lUp /\ lAuth' = lAuth /\ serverSockets' = serverSockets
      /\ serverIds' = serverIds /\ realm' = realm /\ lmain' = lmain
  BY DEF HandlePopulationRespond, network, world
<1>2. LinkTyped'
  BY <1>1 DEF LinkTyped
<1>3. HandsTyped'
  BY <1>1 DEF HandsTyped, Nothing
<1>4. Light'
  <2> SUFFICES ASSUME NEW d \in Conn
                   PROVE  Load(d)' <= Allowed(d)'
    BY DEF Light
  <2>1. Load(d) <= Allowed(d)
    BY DEF Light
  <2>2. /\ Carries(wnet', d, ToWorld) = Carries(wnet, d, ToWorld)
        /\ Carries(lnet', d, ToLogon) = 0
    BY <1>1 DEF Carries, Nothing, None, Conn
  <2>3. /\ Size(toLogon'[d]) = Size(toLogon[d])
        /\ Size(toWorld'[d]) = Size(toWorld[d])
    BY <1>1
  <2>4. Allowed(d) \in Nat /\ Allowed(d)' \in Nat /\ Allowed(d) <= Allowed(d)'
    BY <1>1 DEF Allowed
  <2>5. QED
    BY <2>1, <2>2, <2>3, <2>4, LoadParts DEF Load
<1>5. (OneUp /\ Asking /\ Timing)'
  BY <1>1 DEF OneUp, Asking, Timing, LinkTyped, Nothing, None, Conn, Unasked
<1>6. (Listed /\ Working /\ Hidden /\ Shown)'
  BY <1>1 DEF Listed, Working, Hidden, Shown, HandsTyped, LinkTyped, InHand, Nothing, None, Hides
<1>7. QED
  BY <1>2, <1>3, <1>4, <1>5, <1>6

LEMMA RefreshRealmsPopKeeps ==
  ASSUME LinkAssumption, LinkInv, NEW c \in Conn, RefreshRealmsPop(c)
  PROVE  LinkInv'
<1> USE DEF LinkInv
<1>1. /\ lnet = Nothing /\ serverIds[c] # None /\ toWorld[c] = <<>> /\ toLogon[c] = <<>>
      /\ wnet.conn # c /\ link' = link /\ toLogon' = toLogon /\ faults' = faults
      /\ slot' = slot /\ registered' = registered /\ watcher' = watcher /\ cur' = cur
      /\ mapLock' = mapLock /\ wUp' = wUp /\ authenticated' = authenticated /\ ids' = ids
      /\ wnet' = wnet /\ lUp' = lUp /\ lAuth' = lAuth /\ serverSockets' = serverSockets
      /\ serverIds' = serverIds /\ realm' = realm /\ offline' = offline /\ lnet' = lnet
      /\ lmain' = lmain
  BY DEF RefreshRealmsPop, world, logon
<1>2. /\ toWorld \in [Conn -> Seq(ToWorld)]
      /\ toWorld' = Sent(toWorld, lUp \cap wUp, c, "popreq") /\ "popreq" \in ToWorld
  BY DEF RefreshRealmsPop, LinkTyped, ToWorld
<1>3. SentOn(toWorld, toWorld', ToWorld, lUp \cap wUp, c, "popreq")
  BY SentIs, <1>2
<1>4. LinkTyped'
  BY <1>1, <1>3 DEF LinkTyped, SentOn
<1>5. HandsTyped'
  BY <1>1 DEF HandsTyped
<1>6. Light'
  <2> SUFFICES ASSUME NEW d \in Conn
                   PROVE  Load(d)' <= Allowed(d)'
    BY DEF Light
  <2>1. Load(d) <= Allowed(d)
    BY DEF Light
  <2>2. /\ Carries(wnet', d, ToWorld) = Carries(wnet, d, ToWorld)
        /\ Carries(lnet', d, ToLogon) = Carries(lnet, d, ToLogon)
        /\ d = c => Carries(wnet, d, ToWorld) = 0 /\ Carries(lnet, d, ToLogon) = 0
    BY <1>1 DEF Carries, Nothing, None, Conn
  <2>3. /\ Size(toLogon'[d]) = Size(toLogon[d])
        /\ d # c => Size(toWorld'[d]) = Size(toWorld[d])
        /\ d = c => Size(toWorld'[d]) <= Size(toWorld[d]) + 1
        /\ d = c => Size(toLogon[d]) = 0 /\ Size(toWorld[d]) = 0
    BY <1>1, <1>3 DEF SentOn, Size
  <2>4. Allowed(d) \in Nat /\ Allowed(d)' \in Nat /\ Allowed(d) >= 1 /\ Allowed(d) <= Allowed(d)'
    BY <1>1 DEF Allowed
  <2>5. QED
    BY <1>4, <2>1, <2>2, <2>3, <2>4, LoadParts DEF Load
<1>7. (OneUp /\ Asking /\ Timing)'
  BY <1>1, <1>3 DEF OneUp, Asking, Timing, LinkTyped, Unasked, SentOn
<1>8. (Listed /\ Working /\ Hidden /\ Shown)'
  BY <1>1 DEF Listed, Working, Hidden, Shown
<1>9. QED
  BY <1>4, <1>5, <1>6, <1>7, <1>8

LEMMA TimeoutHidesKeeps ==
  ASSUME LinkAssumption, LinkInv, NEW c \in Conn, TimeoutHides(c)
  PROVE  LinkInv'
<1> USE DEF LinkInv
<1>1. /\ lmain = Nothing /\ c \in serverSockets /\ Silent(c)
      /\ offline' = (offline \/ Hides(c)) /\ lmain' = InHand(c, "remove") /\ link' = link
      /\ toLogon' = toLogon /\ toWorld' = toWorld /\ faults' = faults /\ slot' = slot
      /\ registered' = registered /\ watcher' = watcher /\ cur' = cur /\ mapLock' = mapLock
      /\ wUp' = wUp /\ authenticated' = authenticated /\ ids' = ids /\ wnet' = wnet
      /\ lUp' = lUp /\ lAuth' = lAuth /\ serverSockets' = serverSockets
      /\ serverIds' = serverIds /\ realm' = realm /\ lnet' = lnet
  BY DEF TimeoutHides, network, world
<1>2. LinkTyped'
  BY <1>1 DEF LinkTyped
<1>3. HandsTyped'
  BY <1>1 DEF HandsTyped, InHand, None, Conn
<1>4. Light'
  BY <1>1 DEF Light, Load, Allowed
<1>5. (OneUp /\ Asking /\ Timing /\ Listed /\ Working /\ Hidden)'
  <2>1. OneUp' /\ Asking'
    BY <1>1 DEF OneUp, Asking, Unasked
  <2>2. Listed'
    BY <1>1 DEF Listed, LinkTyped, Nothing, InHand, None, Conn
  <2>3. Timing'
    BY <1>1 DEF Timing, OneUp, Silent, InHand, Nothing, None, Conn
  <2>4. Working'
    BY <1>1 DEF Working, Silent, InHand, Nothing, None, Conn
  <2>5. Hidden'
    BY <1>1 DEF Hidden, Hides, InHand, HandsTyped, LinkTyped, Nothing, None, Conn
  <2>6. QED
    BY <2>1, <2>2, <2>3, <2>4, <2>5
<1>6. Shown'
  <2>1. SUFFICES ASSUME realm # None, ~offline, ~Hides(c), link[realm] # "slow"
                  PROVE  Shown'
    BY <1>1 DEF Shown
  <2>2. c # realm
    BY <1>1, <2>1 DEF Shown, Hides, Silent, InHand
  <2>3. QED
    BY <1>1, <2>2 DEF Shown, InHand
<1>7. QED
  BY <1>2, <1>3, <1>4, <1>5, <1>6

LEMMA TimeoutRemovesKeeps ==
  ASSUME LinkAssumption, LinkInv, TimeoutRemoves
  PROVE  LinkInv'
<1> USE DEF LinkInv
<1>1. /\ lmain.job = "remove" /\ serverSockets' = serverSockets \ {lmain.conn}
      /\ lmain' = InHand(lmain.conn, "close") /\ link' = link /\ toLogon' = toLogon
      /\ toWorld' = toWorld /\ faults' = faults /\ slot' = slot /\ registered' = registered
      /\ watcher' = watcher /\ cur' = cur /\ mapLock' = mapLock /\ wUp' = wUp
      /\ authenticated' = authenticated /\ ids' = ids /\ wnet' = wnet /\ lUp' = lUp
      /\ lAuth' = lAuth /\ serverIds' = serverIds /\ realm' = realm /\ offline' = offline
      /\ lnet' = lnet
  BY DEF TimeoutRemoves, network, world
<1>2. LinkTyped'
  BY <1>1 DEF LinkTyped
<1>3. HandsTyped'
  BY <1>1 DEF HandsTyped, InHand
<1>4. Light'
  BY <1>1 DEF Light, Load, Allowed
<1>5. (OneUp /\ Asking /\ Timing)'
  BY <1>1 DEF OneUp, Asking, Timing, InHand, Unasked
<1>6. (Listed /\ Working /\ Hidden /\ Shown)'
  BY <1>1 DEF Listed, Working, Hidden, Shown, InHand
<1>7. QED
  BY <1>2, <1>3, <1>4, <1>5, <1>6

LEMMA TimeoutDisconnectsKeeps ==
  ASSUME LinkAssumption, LinkInv, TimeoutDisconnects
  PROVE  LinkInv'
<1> USE DEF LinkInv
<1>1. /\ lmain.job = "close" /\ lUp' = lUp \ {lmain.conn} /\ lmain' = Nothing
      /\ link' = link /\ toWorld' = toWorld /\ faults' = faults /\ slot' = slot
      /\ registered' = registered /\ watcher' = watcher /\ cur' = cur /\ mapLock' = mapLock
      /\ wUp' = wUp /\ authenticated' = authenticated /\ ids' = ids /\ wnet' = wnet
      /\ lAuth' = lAuth /\ serverSockets' = serverSockets /\ serverIds' = serverIds
      /\ realm' = realm /\ offline' = offline /\ lnet' = lnet
  BY DEF TimeoutDisconnects, StillUp, world
<1>2. lmain.conn \in Conn
  BY <1>1 DEF HandsTyped
<1>3. /\ toLogon \in [Conn -> Seq(ToLogon)]
      /\ toLogon' = Emptied(toLogon, lmain.conn)
  BY DEF TimeoutDisconnects, LinkTyped
<1>4. LostOn(toLogon, toLogon', ToLogon, lmain.conn)
  BY EmptiedIs, <1>2, <1>3
<1>5. LinkTyped'
  BY <1>1, <1>4 DEF LinkTyped, LostOn
<1>6. HandsTyped'
  BY <1>1 DEF HandsTyped, Nothing
<1>7. Light'
  <2> SUFFICES ASSUME NEW d \in Conn
                   PROVE  Load(d)' <= Allowed(d)'
    BY DEF Light
  <2>1. Load(d) <= Allowed(d)
    BY DEF Light
  <2>2. /\ Carries(wnet', d, ToWorld) = Carries(wnet, d, ToWorld)
        /\ Carries(lnet', d, ToLogon) = Carries(lnet, d, ToLogon)
    BY <1>1
  <2>3. /\ d # lmain.conn => Size(toLogon'[d]) = Size(toLogon[d])
        /\ d = lmain.conn => Size(toLogon'[d]) = 0
        /\ Size(toWorld'[d]) = Size(toWorld[d])
    BY <1>1, <1>4 DEF LostOn, Size
  <2>4. Allowed(d) \in Nat /\ Allowed(d)' \in Nat /\ Allowed(d) <= Allowed(d)'
    BY <1>1 DEF Allowed
  <2>5. QED
    BY <2>1, <2>2, <2>3, <2>4, LoadParts DEF Load
<1>8. (OneUp /\ Asking /\ Timing /\ Listed /\ Working /\ Hidden /\ Shown)'
  BY <1>1, <1>2, <1>4, SMTT(30) DEF OneUp, Asking, Timing, Listed, Working, Hidden, Shown, HandsTyped,
     LinkTyped, InHand, Nothing, None, Unasked, LostOn
<1>9. QED
  BY <1>5, <1>6, <1>7, <1>8

LEMMA LinkGoesOn == LinkAssumption /\ LinkInv /\ [LinkNext]_linkVars => LinkInv'
<1> SUFFICES ASSUME LinkAssumption, LinkInv, [LinkNext]_linkVars  PROVE LinkInv'
  OBVIOUS
<1>1. CASE Watcher
  BY <1>1, ConnectKeeps, AuthenticatedKeeps, RegisterAckedKeeps, SweepDeadKeeps, AuthFailsKeeps,
     RegisterTimeoutKeeps, PongTimeoutKeeps DEF Watcher
<1>2. CASE WorldNet
  BY <1>2, WorldReadsKeeps, WorldDetectsKeeps, HandleAuthResponseKeeps, HandleRegisterKeeps,
     HandlePopulationRequestKeeps, OnDisconnectKeeps, ConnectionDroppedKeeps DEF WorldNet
<1>3. CASE LogonNet
  BY <1>3, LogonReadsKeeps, LogonDetectsKeeps, LogonOnDisconnectKeeps, HandleAuthChallengeKeeps,
     RegisterRealmKeeps, InsertServerIdKeeps, HandlePopulationRespondKeeps DEF LogonNet
<1>4. CASE TimeoutSockets
  BY <1>4, TimeoutHidesKeeps, TimeoutRemovesKeeps, TimeoutDisconnectsKeeps DEF TimeoutSockets
<1>5. CASE Environment
  BY <1>5, ResetKeeps, StallKeeps, ResumeKeeps, RefreshRealmsPopKeeps, ConnectFailsKeeps,
     RefuseAuthChallengeKeeps DEF Environment
<1>6. CASE UNCHANGED linkVars
  BY <1>6, SMTT(30) DEF linkVars, network, world, logon, LinkInv, LinkTyped, HandsTyped, Light, Load,
     Allowed, OneUp, Asking, Unasked, Timing, Listed, Working, Hidden, Shown
<1>7. QED
  BY <1>1, <1>2, <1>3, <1>4, <1>5, <1>6 DEF LinkNext

\* The inductive invariant holds, whatever fails, for any number of connections.
THEOREM LinkInvariant == LinkSpec => []LinkInv
<1>1. LinkInit => LinkInv
  BY LinkBegins, LinkAssumption
<1>2. LinkInv /\ [LinkNext]_linkVars => LinkInv'
  BY LinkGoesOn, LinkAssumption
<1>3. QED
  BY <1>1, <1>2, PTL DEF LinkSpec

\* Each thread of the link is where it can be, with a connection in hand when it
\* must be, and a channel never holds more than three packets.
THEOREM LinkTypes == LinkSpec => []LinkTypeOK
<1>1. LinkInv => LinkTypeOK
  <2> SUFFICES ASSUME LinkInv  PROVE LinkTypeOK
    OBVIOUS
  <2>1. ASSUME NEW c \in Conn
        PROVE  /\ toLogon[c] \in Seq(ToLogon) /\ Len(toLogon[c]) <= 3
               /\ toWorld[c] \in Seq(ToWorld) /\ Len(toWorld[c]) <= 3
    <3>1. Size(toLogon[c]) <= 2 /\ Size(toWorld[c]) <= 2
      <4>1. Load(c) <= Allowed(c) /\ Allowed(c) \in Nat /\ Allowed(c) <= 2
    BY DEF LinkInv, Light, Allowed
      <4>2. QED
    BY <4>1, LoadParts DEF LinkInv, Load
    <3>2. Size(toLogon[c]) <= 3 /\ Size(toWorld[c]) <= 3
      BY <3>1, LoadParts DEF LinkInv
    <3>3. QED
      BY <3>2 DEF LinkInv, LinkTyped, Size
  <2>2. QED
    BY <2>1 DEF LinkTypeOK, LinkInv, LinkTyped, HandsTyped, ToLogon, ToWorld
<1>2. QED
  BY <1>1, LinkInvariant, PTL

\* The end of an old connection never hides the realm of the one that replaced it
\* (LogonCommServerSocket::OnDisconnect and TimeoutSockets).
THEOREM LinkStaleNeverHides == LinkSpec => []StaleNeverHides
<1>1. LinkInv => StaleNeverHides
  BY DEF LinkInv, LinkTyped, Hidden, StaleNeverHides
<1>2. QED
  BY <1>1, LinkInvariant, PTL

\* A realm that is listed online has an open connection behind it, but for a
\* packet that was held up and came while TimeoutSockets closed its connection.
THEOREM LinkOfflineWithConnection == LinkSpec => []OfflineWithConnection
<1>1. LinkInv => OfflineWithConnection
  BY DEF LinkInv, Shown, OfflineWithConnection, InHand
<1>2. QED
  BY <1>1, LinkInvariant, PTL
=============================================================================
