------------------------------ MODULE RealmLink ------------------------------
(***************************************************************************)
(* The link on which a world server registers its realm with the logon     *)
(* server (LogonCommHandler, LogonCommClientSocket, LogonCommServerSocket, *)
(* InformationCore): one world server, one logon server, one realm.        *)
(* Five actors: the world's watcher thread, which connects, waits for the  *)
(* answers and drops what is dead, the world's network thread, the logon's *)
(* network thread, its main thread with TimeoutSockets, and the network.   *)
(*                                                                         *)
(* A connection is its number, and so is the id its registration gets:     *)
(* GenerateRealmID never gives one twice.  A number is taken again only    *)
(* when nothing refers to it.  Time is left out: a time-out may fire when  *)
(* the answer it waits for is late, and only then, so the pings, which do  *)
(* nothing but keep the timers fresh, are the guards of the time-outs.     *)
(***************************************************************************)
EXTENDS Naturals, Sequences, FiniteSets

CONSTANTS
  N,          \* connections that are referred to at the same time, at most
  MaxFaults   \* bound: resets, stalls, refusals of the network and of the peer

ASSUME LinkAssumption == N \in Nat \ {0} /\ MaxFaults \in Nat

Conn == 1..N
None == 0

VARIABLES
  link,           \* [Conn -> LinkState]: the network under a connection
  toLogon,        \* [Conn -> Seq]: packets under way to the logon server
  toWorld,        \* [Conn -> Seq]: packets under way to the world server
  faults,         \* what is left of MaxFaults
  slot,           \* logons[server]: the connection in use
  registered,     \* server->Registered
  watcher,        \* where the watcher thread is
  cur,            \* conn, the local of Connect
  mapLock,        \* the watcher holds mapLock
  wUp,            \* world: sockets with m_connected
  authenticated,  \* [Conn -> AuthAnswer]: LogonCommClientSocket::authenticated
  ids,            \* world: sockets whose _id is set
  wnet,           \* what the world's network thread has in hand
  lUp,            \* logon: sockets with m_connected
  lAuth,          \* logon: sockets with authenticated
  serverSockets,  \* m_serverSockets: sockets that are not removed
  serverIds,      \* [Conn -> id]: the id in server_ids, None when empty
  realm,          \* the id under which m_realms lists the realm, or None
  offline,        \* the realm's flags say REALM_FLAG_OFFLINE
  lnet,           \* what the logon's network thread has in hand
  lmain           \* what the logon's main thread has in hand

network  == <<link, toLogon, toWorld, faults>>
world    == <<slot, registered, watcher, cur, mapLock, wUp, authenticated, ids, wnet>>
logon    == <<lUp, lAuth, serverSockets, serverIds, realm, offline, lnet, lmain>>
linkVars == <<network, world, logon>>

LinkState == {"none", "fine", "stalled", "slow", "cut"}
AuthAnswer == {"no", "ok", "bad"}
Nothing   == [conn |-> None, job |-> "none"]
InHand(c, j) == [conn |-> c, job |-> j]

\* One type invariant: where each thread can be, and the bounded channels.
LinkTypeOK ==
  /\ link \in [Conn -> LinkState]
  /\ \A c \in Conn :
       /\ toLogon[c] \in Seq({"challenge", "register", "popres"}) /\ Len(toLogon[c]) <= 3
       /\ toWorld[c] \in Seq({"authok", "authbad", "registered", "popreq"}) /\ Len(toWorld[c]) <= 3
  /\ faults \in 0..MaxFaults
  /\ slot \in Conn \cup {None} /\ cur \in Conn \cup {None} /\ realm \in Conn \cup {None}
  /\ registered \in BOOLEAN /\ mapLock \in BOOLEAN /\ offline \in BOOLEAN
  /\ watcher \in {"start", "idle", "auth", "register"}
  /\ watcher \in {"auth", "register"} <=> cur # None
  /\ mapLock => cur # None
  /\ authenticated \in [Conn -> AuthAnswer]
  /\ wUp \subseteq Conn /\ ids \subseteq Conn /\ lUp \subseteq Conn
  /\ lAuth \subseteq Conn /\ serverSockets \subseteq Conn
  /\ serverIds \in [Conn -> Conn \cup {None}]
  /\ wnet.conn \in Conn \cup {None}
  /\ wnet.job \in {"none", "authok", "authbad", "registered", "popreq", "closed", "drop"}
  /\ lnet.conn \in Conn \cup {None}
  /\ lnet.job \in {"none", "challenge", "register", "insert", "popres", "closed"}
  /\ lmain.conn \in Conn \cup {None} /\ lmain.job \in {"none", "remove", "close"}

LinkInit ==
  /\ link = [c \in Conn |-> "none"]
  /\ toLogon = [c \in Conn |-> <<>>] /\ toWorld = [c \in Conn |-> <<>>]
  /\ faults = MaxFaults
  /\ slot = None /\ registered = FALSE /\ watcher = "start" /\ cur = None
  /\ mapLock = FALSE /\ wUp = {} /\ ids = {} /\ wnet = Nothing
  /\ authenticated = [c \in Conn |-> "no"]
  /\ lUp = {} /\ lAuth = {} /\ serverSockets = {}
  /\ serverIds = [c \in Conn |-> None]
  /\ realm = None /\ offline = FALSE /\ lnet = Nothing /\ lmain = Nothing

-----------------------------------------------------------------------------
(* The network.                                                            *)

Flows(c) == link[c] \in {"fine", "slow"}

\* No packet, variable or thread refers to connection c any more.
Free(c) ==
  /\ c \notin wUp \cup lUp \cup serverSockets
  /\ c \notin {slot, cur, realm, wnet.conn, lnet.conn, lmain.conn}

\* An answer on c does not come: an end is closed, the packets are held up, or
\* the world's network thread waits for mapLock.
Stuck(c) ==
  \/ c \notin wUp \cap lUp
  \/ link[c] \in {"stalled", "cut"}
  \/ wnet.job = "drop"

\* The answer is in the hands of the world's network thread: ten seconds are
\* more than it takes to handle it.
Answering(c) == wnet.conn = c /\ wnet.job \in {"authok", "authbad", "registered"}

\* A time-out of an answer on c can fire: stuck, or held up until lately.
Late(c) == link[c] = "slow" \/ (Stuck(c) /\ ~Answering(c))

\* A packet that end "open" of c sends: queued while the connection lives.
Sent(channel, open, c, m) ==
  [channel EXCEPT ![c] = IF c \in open /\ link[c] # "cut" THEN Append(@, m) ELSE @]

Emptied(channel, c) == [channel EXCEPT ![c] = <<>>]

Reset(c) ==
  /\ faults > 0 /\ link[c] \in {"fine", "stalled"} /\ c \in wUp \cap lUp
  /\ faults' = faults - 1
  /\ link' = [link EXCEPT ![c] = "cut"]
  /\ toLogon' = Emptied(toLogon, c) /\ toWorld' = Emptied(toWorld, c)
  /\ UNCHANGED <<world, logon>>

Stall(c) ==
  /\ faults > 0 /\ link[c] = "fine" /\ c \in wUp \cap lUp
  /\ faults' = faults - 1
  /\ link' = [link EXCEPT ![c] = "stalled"]
  /\ UNCHANGED <<toLogon, toWorld, world, logon>>

Resume(c) ==
  /\ link[c] = "stalled"
  /\ link' = [link EXCEPT ![c] = "slow"]
  /\ UNCHANGED <<toLogon, toWorld, faults, world, logon>>

-----------------------------------------------------------------------------
(* World server: the watcher thread.  ConnectAll runs without mapLock,     *)
(* UpdateSockets holds it, all through Connect as well.                    *)

\* Mutant: a lost connection is not tried again.
ConnectsOnce == watcher = "start"

\* The watcher may start Connect: at its start, or in a pass of UpdateSockets
\* that finds no connection.
WantsConnection ==
  \/ watcher = "start"
  \/ watcher = "idle" /\ slot = None

Connect(c) ==
  /\ WantsConnection /\ Free(c) /\ \A d \in Conn : Free(d) => c <= d
  /\ watcher' = "auth" /\ cur' = c /\ slot' = c /\ registered' = FALSE
  /\ mapLock' = (watcher = "idle")
  /\ wUp' = wUp \cup {c} /\ ids' = ids \ {c}
  /\ authenticated' = [authenticated EXCEPT ![c] = "no"]
  /\ link' = [link EXCEPT ![c] = "fine"]
  /\ toLogon' = [toLogon EXCEPT ![c] = <<"challenge">>]
  /\ toWorld' = Emptied(toWorld, c)
  /\ lUp' = lUp \cup {c} /\ lAuth' = lAuth \ {c}
  /\ serverSockets' = serverSockets \cup {c}
  /\ serverIds' = [serverIds EXCEPT ![c] = None]
  /\ UNCHANGED <<faults, wnet, realm, offline, lnet, lmain>>

ConnectFails ==
  /\ WantsConnection /\ faults > 0
  /\ faults' = faults - 1
  /\ watcher' = "idle" /\ slot' = None /\ registered' = FALSE
  /\ UNCHANGED <<link, toLogon, toWorld, cur, mapLock, wUp, authenticated, ids, wnet, logon>>

\* Connect returns: the watcher sleeps, and has released mapLock.
Connected == watcher' = "idle" /\ cur' = None /\ mapLock' = FALSE

\* Disconnect of a world socket by the watcher: what it has not read is lost.
Closes(c) == wUp' = wUp \ {c} /\ toWorld' = Emptied(toWorld, c)

Authenticated ==
  /\ watcher = "auth" /\ authenticated[cur] = "ok"
  /\ ids' = ids \cup {cur}
  /\ toLogon' = Sent(toLogon, wUp, cur, "register")
  /\ watcher' = "register"
  /\ UNCHANGED <<link, toWorld, faults, slot, registered, cur, mapLock, wUp,
                 authenticated, wnet, logon>>

\* The logon refused the password, or did not answer within 10 seconds.
AuthFails ==
  /\ watcher = "auth"
  /\ authenticated[cur] = "bad" \/ (authenticated[cur] = "no" /\ Late(cur))
  /\ slot' = None /\ Closes(cur) /\ Connected
  /\ UNCHANGED <<link, toLogon, faults, registered, authenticated, ids, wnet, logon>>

RegisterAcked ==
  /\ watcher = "register" /\ registered
  /\ Connected
  /\ UNCHANGED <<network, slot, registered, wUp, authenticated, ids, wnet, logon>>

\* The ConnectionDropped that Disconnect calls finds the slot empty already.
RegisterTimeout ==
  /\ watcher = "register" /\ ~registered /\ Late(cur)
  /\ slot' = None /\ Closes(cur) /\ Connected
  /\ UNCHANGED <<link, toLogon, faults, registered, authenticated, ids, wnet, logon>>

\* UpdateSockets finds the connection disconnected.
SweepDead ==
  /\ watcher = "idle" /\ slot # None /\ slot \notin wUp
  /\ ids' = ids \ {slot} /\ slot' = None
  /\ UNCHANGED <<network, registered, watcher, cur, mapLock, wUp, authenticated, wnet, logon>>

\* UpdateSockets has had no pong for 60 seconds.
PongTimeout ==
  /\ watcher = "idle" /\ slot \in wUp /\ Late(slot)
  /\ ids' = ids \ {slot} /\ slot' = None /\ Closes(slot)
  /\ UNCHANGED <<link, toLogon, faults, registered, watcher, cur, mapLock,
                 authenticated, wnet, logon>>

-----------------------------------------------------------------------------
(* World server: the network thread.                                       *)

WorldReads(c) ==
  /\ wnet = Nothing /\ c \in wUp /\ Flows(c) /\ toWorld[c] # <<>>
  /\ wnet' = InHand(c, Head(toWorld[c]))
  /\ toWorld' = [toWorld EXCEPT ![c] = Tail(@)]
  /\ UNCHANGED <<link, toLogon, faults, slot, registered, watcher, cur, mapLock,
                 wUp, authenticated, ids, logon>>

\* What HandleAuthResponse makes of the answer.
Result(job) == IF job = "authok" THEN "ok" ELSE "bad"

HandleAuthResponse ==
  /\ wnet.job \in {"authok", "authbad"}
  /\ authenticated' = [authenticated EXCEPT ![wnet.conn] = Result(wnet.job)]
  /\ wnet' = Nothing
  /\ UNCHANGED <<network, slot, registered, watcher, cur, mapLock, wUp, ids, logon>>

\* AdditionAck looks the server up by the _id of the socket, not by the socket.
HandleRegister ==
  /\ wnet.job = "registered"
  /\ registered' = (registered \/ wnet.conn \in ids)
  /\ wnet' = Nothing
  /\ UNCHANGED <<network, slot, watcher, cur, mapLock, wUp, authenticated, ids, logon>>

HandlePopulationRequest ==
  /\ wnet.job = "popreq"
  /\ toLogon' = Sent(toLogon, wUp, wnet.conn, "popres")
  /\ wnet' = Nothing
  /\ UNCHANGED <<link, toWorld, faults, slot, registered, watcher, cur, mapLock, wUp,
                 authenticated, ids, logon>>

\* The network thread finds c closed: Disconnect clears m_connected, ...
WorldDetects(c) ==
  /\ wnet = Nothing /\ c \in wUp
  /\ link[c] = "cut" \/ (Flows(c) /\ c \notin lUp /\ toWorld[c] = <<>>)
  /\ wUp' = wUp \ {c}
  /\ wnet' = InHand(c, "closed")
  /\ UNCHANGED <<network, slot, registered, watcher, cur, mapLock, authenticated, ids, logon>>

\* ... OnDisconnect reads _id, ...
OnDisconnect ==
  /\ wnet.job = "closed"
  /\ wnet' = IF wnet.conn \in ids THEN InHand(wnet.conn, "drop") ELSE Nothing
  /\ UNCHANGED <<network, slot, registered, watcher, cur, mapLock, wUp, authenticated, ids, logon>>

\* ... and ConnectionDropped empties the slot, whoever is in it by then.
DroppedSlot == None

ConnectionDropped ==
  /\ wnet.job = "drop" /\ ~mapLock
  /\ slot' = DroppedSlot
  /\ wnet' = Nothing
  /\ UNCHANGED <<network, registered, watcher, cur, mapLock, wUp, authenticated, ids, logon>>

-----------------------------------------------------------------------------
(* Logon server: the network thread.                                       *)

LogonReads(c) ==
  /\ lnet = Nothing /\ c \in lUp /\ Flows(c) /\ toLogon[c] # <<>>
  /\ lnet' = InHand(c, Head(toLogon[c]))
  /\ toLogon' = [toLogon EXCEPT ![c] = Tail(@)]
  /\ UNCHANGED <<link, toWorld, faults, world, lUp, lAuth, serverSockets, serverIds,
                 realm, offline, lmain>>

\* Mutant: nothing is found, the realm keeps its flags.
HidesNot(c) == FALSE

\* The id of c in m_realms: what SetRealmOffline and UpdateRealmPop find.
Hides(c) == serverIds[c] # None /\ serverIds[c] = realm

\* OnDisconnect of a socket: unless it is removed already, its realm goes
\* offline and it leaves m_serverSockets.
Unlist(c) ==
  /\ offline' = (offline \/ (c \in serverSockets /\ Hides(c)))
  /\ serverSockets' = serverSockets \ {c}

LogonDetects(c) ==
  /\ lnet = Nothing /\ c \in lUp
  /\ link[c] = "cut" \/ (Flows(c) /\ c \notin wUp /\ toLogon[c] = <<>>)
  /\ lUp' = lUp \ {c}
  /\ lnet' = InHand(c, "closed")
  /\ UNCHANGED <<network, world, lAuth, serverSockets, serverIds, realm, offline, lmain>>

LogonOnDisconnect ==
  /\ lnet.job = "closed"
  /\ Unlist(lnet.conn)
  /\ lnet' = Nothing
  /\ UNCHANGED <<network, world, lUp, lAuth, serverIds, realm, lmain>>

\* The password of the world server is the logon's.
HandleAuthChallenge ==
  /\ lnet.job = "challenge"
  /\ toWorld' = Sent(toWorld, lUp \cap wUp, lnet.conn, "authok")
  /\ lAuth' = lAuth \cup {lnet.conn}
  /\ lnet' = Nothing
  /\ UNCHANGED <<link, toLogon, faults, world, lUp, serverSockets, serverIds,
                 realm, offline, lmain>>

\* The logon's password was changed by Rehash, and is changed back.
RefuseAuthChallenge ==
  /\ lnet.job = "challenge" /\ faults > 0
  /\ faults' = faults - 1
  /\ toWorld' = Sent(toWorld, lUp \cap wUp, lnet.conn, "authbad")
  /\ lAuth' = lAuth \ {lnet.conn}
  /\ lnet' = Nothing
  /\ UNCHANGED <<link, toLogon, world, lUp, serverSockets, serverIds, realm, offline, lmain>>

\* Mutant: the restarted realm keeps the id it was listed under.
KeptId(c) == IF realm # None THEN realm ELSE c

\* The id HandleRegister gives: a new one, also when the realm has one.
NewId(c) == c

\* HandleRegister up to its first SendPacket: the realm listed under the same
\* name is replaced.
RegisterRealm ==
  /\ lnet.job = "register" /\ lnet.conn \in lAuth
  /\ realm' = NewId(lnet.conn) /\ offline' = FALSE
  /\ toWorld' = Sent(toWorld, lUp \cap wUp, lnet.conn, "registered")
  /\ lnet' = InHand(lnet.conn, "insert")
  /\ UNCHANGED <<link, toLogon, faults, world, lUp, lAuth, serverSockets, serverIds, lmain>>

\* HandleRegister after it: server_ids.insert.
InsertServerId ==
  /\ lnet.job = "insert"
  /\ serverIds' = [serverIds EXCEPT ![lnet.conn] = NewId(lnet.conn)]
  /\ lnet' = Nothing
  /\ UNCHANGED <<network, world, lUp, lAuth, serverSockets, realm, offline, lmain>>

\* UpdateRealmPop overwrites the flags of the realm, the offline one included.
HandlePopulationRespond ==
  /\ lnet.job = "popres" /\ lnet.conn \in lAuth
  /\ offline' = (offline /\ ~Hides(lnet.conn))
  /\ lnet' = Nothing
  /\ UNCHANGED <<network, world, lUp, lAuth, serverSockets, serverIds, realm, lmain>>

\* A player asks for the realm list: SendRealms has RefreshRealmsPop ask every
\* world server.  Bound: one question and answer under way on a connection.
RefreshRealmsPop(c) ==
  /\ lnet = Nothing /\ c \in serverSockets /\ serverIds[c] # None /\ c \in lUp
  /\ toWorld[c] = <<>> /\ toLogon[c] = <<>> /\ wnet.conn # c
  /\ toWorld' = Sent(toWorld, lUp \cap wUp, c, "popreq")
  /\ UNCHANGED <<link, toLogon, faults, world, logon>>

-----------------------------------------------------------------------------
(* Logon server: TimeoutSockets on the main thread, under serverSocketLock. *)

\* No ping came over c for 300 seconds: it is held up, or the world does not use
\* it.  What the network thread has in hand came after that time, or it would be
\* done with it.
Silent(c) ==
  \/ link[c] = "slow"
  \/ lnet.conn # c /\ (c \notin wUp \/ slot # c \/ link[c] # "fine")

TimeoutHides(c) ==
  /\ lmain = Nothing /\ c \in serverSockets /\ Silent(c)
  /\ offline' = (offline \/ Hides(c))
  /\ lmain' = InHand(c, "remove")
  /\ UNCHANGED <<network, world, lUp, lAuth, serverSockets, serverIds, realm, lnet>>

TimeoutRemoves ==
  /\ lmain.job = "remove"
  /\ serverSockets' = serverSockets \ {lmain.conn}
  /\ lmain' = InHand(lmain.conn, "close")
  /\ UNCHANGED <<network, world, lUp, lAuth, serverIds, realm, offline, lnet>>

\* The sockets that TimeoutSockets leaves connected: not the one it removed.
StillUp == lUp \ {lmain.conn}

TimeoutDisconnects ==
  /\ lmain.job = "close"
  /\ lUp' = StillUp
  /\ toLogon' = Emptied(toLogon, lmain.conn)
  /\ lmain' = Nothing
  /\ UNCHANGED <<link, toWorld, faults, world, lAuth, serverSockets, serverIds,
                 realm, offline, lnet>>

-----------------------------------------------------------------------------
Watcher ==
  \/ \E c \in Conn : Connect(c)
  \/ Authenticated \/ RegisterAcked \/ SweepDead
  \/ AuthFails \/ RegisterTimeout \/ PongTimeout

WorldNet ==
  \/ \E c \in Conn : WorldReads(c) \/ WorldDetects(c)
  \/ HandleAuthResponse \/ HandleRegister \/ HandlePopulationRequest
  \/ OnDisconnect \/ ConnectionDropped

LogonNet ==
  \/ \E c \in Conn : LogonReads(c) \/ LogonDetects(c)
  \/ LogonOnDisconnect \/ HandleAuthChallenge
  \/ RegisterRealm \/ InsertServerId \/ HandlePopulationRespond

TimeoutSockets ==
  \/ \E c \in Conn : TimeoutHides(c)
  \/ TimeoutRemoves \/ TimeoutDisconnects

Environment ==
  \/ \E c \in Conn : Reset(c) \/ Stall(c) \/ Resume(c) \/ RefreshRealmsPop(c)
  \/ ConnectFails \/ RefuseAuthChallenge

LinkNext == Watcher \/ WorldNet \/ LogonNet \/ TimeoutSockets \/ Environment

LinkSpec == LinkInit /\ [][LinkNext]_linkVars

\* The threads run, and a time-out comes when the answer never does: on a
\* connection that was only slow it may come or not.
WatcherMust ==
  \/ \E c \in Conn : Connect(c)
  \/ Authenticated \/ RegisterAcked \/ SweepDead
  \/ AuthFails /\ (authenticated[cur] = "bad" \/ Stuck(cur))
  \/ RegisterTimeout /\ Stuck(cur)
  \/ PongTimeout /\ Stuck(slot)

\* A connection the logon hears no more of: the world closed it or uses another.
Forsaken(c) == slot # c /\ cur # c

TimeoutMust ==
  \/ \E c \in Conn : TimeoutHides(c) /\ (Stuck(c) \/ Forsaken(c))
  \/ TimeoutRemoves \/ TimeoutDisconnects

LinkFairSpec ==
  /\ LinkSpec
  /\ WF_linkVars(WatcherMust) /\ WF_linkVars(LogonNet) /\ WF_linkVars(TimeoutMust)
  /\ WF_linkVars(WorldNet /\ ~ConnectionDropped) /\ SF_linkVars(ConnectionDropped)

-----------------------------------------------------------------------------
(* Properties.                                                             *)

\* The realm is never shown offline while a connection that registered it is
\* open at the logon server and not just being timed out: the end of an old
\* connection does not hide the realm of the one that replaced it
\* (HandleRegister gives every registration a new id).
StaleNeverHides ==
  offline => \A c \in lUp : serverIds[c] = realm => lmain.conn = c

\* The link works: the connection the world uses is open at both ends, and the
\* realm is listed online by it.
Healthy ==
  /\ slot \in wUp \cap lUp
  /\ serverIds[slot] # None /\ serverIds[slot] = realm /\ ~offline

\* A registration still under way on a connection that the world gave up.
LateRegister ==
  \E c \in Conn \ {slot} : \/ lnet = InHand(c, "register")
                           \/ lnet = InHand(c, "insert")
                           \/ \E i \in DOMAIN toLogon[c] : toLogon[c][i] = "register"

\* However the network failed, once it has stopped failing the realm is online
\* again, by the connection in use, and stays so: the watcher notices every dead
\* connection, also when ConnectionDropped waits for mapLock meanwhile.
Recovers == []~LateRegister => <>[]Healthy

\* The realm goes offline with the connection that registered it: once the
\* logon's threads have nothing in hand, a realm that is listed online has an
\* open connection, whichever thread closed the last one.  A packet that was
\* held up and is handled during TimeoutSockets can break it: UpdateRealmPop and
\* AddRealm set the flags again, with no connection left to clear them.
OfflineWithConnection ==
  (lnet = Nothing /\ lmain = Nothing /\ realm # None /\ ~offline /\ link[realm] # "slow")
    => \E c \in lUp : serverIds[c] = realm
=============================================================================
