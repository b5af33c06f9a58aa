---------------------------- MODULE SessionHandover ----------------------------
(***************************************************************************)
(* A WorldSession and its Player between the world thread and the threads  *)
(* of the maps (WorldSession::Update, World::UpdateSessions, MapMgr::Do,   *)
(* Player::AddToWorld, MapMgr::RemoveObject).  Whoever finds the session   *)
(* in his set and his own number in its instanceId updates it: handles its *)
(* packets, logs its player out, and deletes it when the client is gone.   *)
(*                                                                         *)
(* World stands for the world thread and for the instance number 0, a map  *)
(* for its thread, its number and its MapMgr.  A step lies between two     *)
(* accesses to what another thread changes.  The client is external: it    *)
(* leaves at any moment, and answers SMSG_NEW_WORLD when it was sent one.  *)
(* A logout timer runs out some time after it was set.                     *)
(***************************************************************************)
EXTENDS Naturals

CONSTANTS
  World,      \* the world thread, and instance 0
  Map,        \* maps
  Instance,   \* those that expire when nobody is in them, or are made to
  MaxMoves,   \* bound on the teleports to another map
  MaxLogins,  \* bound on the players logged in, one after the other
  None        \* no map

ASSUME HandoverAssumption ==
  /\ World \notin Map /\ None \notin Map \cup {World} /\ Instance \subseteq Map
  /\ MaxMoves \in Nat /\ MaxLogins \in Nat

Updater == Map \cup {World}

VARIABLES
  instance,    \* instanceId of the session
  socket,      \* it has a socket
  timer,       \* _logoutTime: "off", "on", or "due" when it is past
  bDeleted,
  loggingOut,
  player,      \* it has a Player
  mapMgr,      \* m_mapMgr of the player
  beingPushed, \* m_beingPushed of the player
  far,         \* SMSG_NEW_WORLD is sent and not answered
  global,      \* the session is in World::Sessions
  sessions,    \* maps that have it in their Sessions
  pool,        \* maps that have the player in m_objectinsertpool
  players,     \* maps that have the player in m_PlayerStorage
  up,          \* maps whose MapMgr exists
  at,          \* [Updater -> [pc, arg]]: where a thread is with the session
  deleted,     \* the session is freed
  left,        \* history: a map ended, or dropped the player, while he was in its pool
  together,    \* history: two threads were at work on the session at once
  crashed,     \* a freed session or MapMgr was used
  moves, logins

session == <<instance, socket, timer, bDeleted, loggingOut>>
where   == <<player, mapMgr, beingPushed, far>>
sets    == <<global, sessions, pool, players, up>>
ends    == <<deleted, left, together, crashed>>
bounds  == <<moves, logins>>
handoverVars    == <<session, where, sets, ends, bounds, at>>

Pc == {"idle", "update", "packets", "enter", "entered", "global", "sent", "packet",
       "timer", "logout", "player", "out", "delete", "pushed", "ended"}

HandoverTypeOK ==
  /\ instance \in Updater /\ timer \in {"off", "on", "due"}
  /\ {socket, bDeleted, loggingOut, player, beingPushed, far, global,
      deleted, left, together, crashed} \subseteq BOOLEAN
  /\ mapMgr \in Map \cup {None}
  /\ sessions \subseteq Map /\ pool \subseteq Map /\ players \subseteq Map /\ up \subseteq Map
  /\ at \in [Updater -> [pc : Pc, arg : Map \cup Pc]]
  /\ moves \in 0..MaxMoves /\ logins \in 0..MaxLogins

At(pc, arg)   == [pc |-> pc, arg |-> arg]
Goto(t, pc)   == at' = [at EXCEPT ![t] = At(pc, "idle")]
Is(t, pc)     == ~crashed /\ ~deleted /\ at[t].pc = pc

HandoverInit ==
  /\ instance = World /\ socket = TRUE /\ timer = "off"
  /\ bDeleted = FALSE /\ loggingOut = FALSE
  /\ player = FALSE /\ mapMgr = None /\ beingPushed = FALSE /\ far = FALSE
  /\ global = TRUE /\ sessions = {} /\ pool = {} /\ players = {} /\ up = Map
  /\ at = [t \in Updater |-> At("idle", "idle")]
  /\ deleted = FALSE /\ left = FALSE /\ together = FALSE /\ crashed = FALSE
  /\ moves = 0 /\ logins = 0

-------------------------------------------------------------------------------
\* The sets.  SessionsMutex is held for the whole of UpdateSessions but the deletions.
Mutexed == at[World].pc \notin {"idle", "delete"}

Erase(t) ==
  /\ IF t = World THEN global' = FALSE /\ UNCHANGED sessions
                  ELSE sessions' = sessions \ {t} /\ UNCHANGED global
  /\ UNCHANGED <<pool, players, up>>

Listed(t) == IF t = World THEN global ELSE t \in sessions

\* The player is somewhere else, so that this map's thread leaves the session alone.
Elsewhere(t) == t # World /\ player /\ mapMgr \notin {t, None}

\* Another thread is in the middle of its update of the session.
Busy(t) == \E u \in Updater \ {t} : at[u].pc # "idle"

Look(t) ==
  /\ Is(t, "idle") /\ Listed(t) /\ (t # World => t \in up)
  /\ IF instance # t THEN Erase(t) /\ UNCHANGED at
     ELSE ~Elsewhere(t) /\ Goto(t, "update") /\ UNCHANGED sets
  /\ UNCHANGED <<session, where, deleted, left, crashed, bounds>>
  /\ together' = (together \/ (instance = t /\ Busy(t)))

\* Update returned 2.
Removed(t) == Erase(t) /\ Goto(t, "idle")

\* Mutant: the timer is not set for a client that is gone.
UpdateUntimed(t) ==
  /\ Is(t, "update")
  /\ \/ instance # t /\ Removed(t) /\ UNCHANGED session
     \/ /\ instance = t /\ ~socket /\ player /\ beingPushed
        /\ Goto(t, "idle") /\ UNCHANGED <<session, sets>>
     \/ /\ instance = t /\ (socket \/ ~(player /\ beingPushed))
        /\ Goto(t, "packets") /\ UNCHANGED <<session, sets>>
  /\ UNCHANGED <<where, ends, bounds>>

\* The beginning of Update, up to the packets.
Update(t) ==
  /\ Is(t, "update")
  /\ \/ instance # t /\ Removed(t) /\ UNCHANGED session
     \/ /\ instance = t /\ ~socket /\ player /\ beingPushed
        /\ Goto(t, "idle") /\ UNCHANGED <<session, sets>>
     \/ /\ instance = t /\ (socket \/ ~(player /\ beingPushed))
        /\ timer' = IF ~socket /\ timer = "off" THEN "on" ELSE timer
        /\ Goto(t, "packets")
        /\ UNCHANGED <<instance, socket, bDeleted, loggingOut, sets>>
  /\ UNCHANGED <<where, ends, bounds>>

-------------------------------------------------------------------------------
\* Packets.  AddToWorld with the MapMgr that GetInstance returned, which makes it if the
\* instance has none; the session is given its number once the player is in the pool.
Entering(t, m) ==
  /\ beingPushed' = TRUE
  /\ up' = up \cup {m} /\ pool' = (IF m \in up THEN pool ELSE pool \ {m})
  /\ at' = [at EXCEPT ![t] = At("enter", m)]
  /\ UNCHANGED <<mapMgr, global, sessions, players>>

Login(t, m) ==
  /\ Is(t, "packets") /\ ~player /\ logins < MaxLogins
  /\ logins' = logins + 1 /\ player' = TRUE
  /\ Entering(t, m)
  /\ UNCHANGED <<session, far, ends, moves>>

WorldportAck(t, m) ==
  /\ Is(t, "packets") /\ player /\ far
  /\ far' = FALSE
  /\ IF mapMgr = None THEN Entering(t, m)
     ELSE Goto(t, "packet") /\ UNCHANGED <<mapMgr, beingPushed, sets>>
  /\ UNCHANGED <<session, player, ends, bounds>>

Enter(t) ==
  /\ Is(t, "enter")
  /\ LET m == at[t].arg IN
     \/ m \notin up /\ crashed' = TRUE /\ UNCHANGED <<mapMgr, pool, at>>
     \/ /\ m \in up /\ mapMgr' = m /\ pool' = pool \cup {m}
        /\ Goto(t, "entered") /\ UNCHANGED crashed
     \/ /\ m \in up \cap Instance
        /\ Goto(t, "entered") /\ UNCHANGED <<mapMgr, pool, crashed>>
  /\ UNCHANGED <<session, player, beingPushed, far, global, sessions, players, up,
                 deleted, left, together, bounds>>

Entered(t) ==
  /\ Is(t, "entered")
  /\ IF mapMgr = None
     THEN beingPushed' = FALSE /\ at' = [at EXCEPT ![t] = At("sent", "packet")] /\ UNCHANGED instance
     ELSE instance' = mapMgr /\ Goto(t, "packet") /\ UNCHANGED beingPushed
  /\ UNCHANGED <<socket, timer, bDeleted, loggingOut, player, mapMgr, far, sets, ends, bounds>>

\* Mutant: the player stays in the pool of the map.
TakenOutPooled ==
  /\ mapMgr' = None /\ players' = players \ {mapMgr} /\ UNCHANGED pool
  /\ instance' = World

\* RemoveFromWorld: RemoveObject takes the player out and sets the instance to 0; the
\* session goes to the world thread unless it is to be deleted.
TakenOut ==
  /\ mapMgr' = None /\ pool' = pool \ {mapMgr} /\ players' = players \ {mapMgr}
  /\ instance' = World

\* Mutant: the session is handed to nobody.
RelocateUnhanded(t, then) ==
  /\ player /\ mapMgr # None /\ moves < MaxMoves
  /\ moves' = moves + 1
  /\ together' = (together \/ Busy(t))
  /\ TakenOut
  /\ at' = [at EXCEPT ![t] = At("sent", then)]
  /\ UNCHANGED <<socket, timer, bDeleted, loggingOut, player, beingPushed, far, global,
                 sessions, up, deleted, left, crashed, logins>>

Relocate(t, then) ==
  /\ player /\ mapMgr # None /\ moves < MaxMoves
  /\ moves' = moves + 1
  /\ together' = (together \/ Busy(t))
  /\ TakenOut
  /\ at' = [at EXCEPT ![t] = IF bDeleted THEN At("sent", then) ELSE At("global", then)]
  /\ UNCHANGED <<socket, timer, bDeleted, loggingOut, player, beingPushed, far, global,
                 sessions, up, deleted, left, crashed, logins>>

AddGlobalSession(t) ==
  /\ Is(t, "global") /\ (t = World \/ ~Mutexed)
  /\ global' = TRUE
  /\ at' = [at EXCEPT ![t] = IF @.arg = "player" THEN At("player", "idle")
                                                 ELSE At("sent", @.arg)]
  /\ UNCHANGED <<session, where, sessions, pool, players, up, ends, bounds>>

NewWorldSent(t) ==
  /\ Is(t, "sent")
  /\ far' = socket
  /\ Goto(t, at[t].arg)
  /\ UNCHANGED <<session, player, mapMgr, beingPushed, sets, ends, bounds>>

Teleport(t) == Is(t, "packets") /\ Relocate(t, "packet")

\* A request sets the timer anew and a cancellation stops it, for a client that is there.
LogoutRequest(t) ==
  /\ Is(t, "packets") /\ socket /\ player /\ mapMgr # None
  /\ timer' \in {"on", "off"}
  /\ Goto(t, "packet")
  /\ UNCHANGED <<instance, socket, bDeleted, loggingOut, where, sets, ends, bounds>>

\* Mutant: the session has no look at whose it is.
PacketDoneBlind(t) ==
  /\ Is(t, "packet")
  /\ Goto(t, IF bDeleted THEN "delete" ELSE "packets") /\ UNCHANGED sets
  /\ UNCHANGED <<session, where, ends, bounds>>

\* "If we hit this -> means a packet has changed our map."
PacketDone(t) ==
  /\ Is(t, "packet")
  /\ IF instance # t THEN Removed(t)
     ELSE Goto(t, IF bDeleted THEN "delete" ELSE "packets") /\ UNCHANGED sets
  /\ UNCHANGED <<session, where, ends, bounds>>

NoPacket(t) ==
  /\ Is(t, "packets")
  /\ Goto(t, "timer")
  /\ UNCHANGED <<session, where, sets, ends, bounds>>

-------------------------------------------------------------------------------
\* The logout timer, at the end of Update.
Timer(t) ==
  /\ Is(t, "timer")
  /\ \/ instance # t /\ Removed(t) /\ UNCHANGED session
     \/ /\ instance = t /\ (timer # "due" \/ (player /\ beingPushed))
        /\ Goto(t, "idle") /\ UNCHANGED <<session, sets>>
     \/ /\ instance = t /\ timer = "due" /\ ~(player /\ beingPushed)
        /\ bDeleted' = (bDeleted \/ ~socket) /\ loggingOut' = TRUE
        /\ at' = [at EXCEPT ![t] =
                    LET then == IF socket THEN "idle" ELSE "delete" IN
                    IF loggingOut THEN At(then, "idle") ELSE At("logout", then)]
        /\ UNCHANGED <<instance, socket, timer, sets>>
  /\ UNCHANGED <<where, ends, bounds>>

LogoutPlayer(t) ==
  /\ Is(t, "logout")
  /\ IF player /\ mapMgr # None
     THEN /\ TakenOut
          /\ at' = [at EXCEPT ![t] = IF bDeleted THEN At("player", @.arg)
                                                 ELSE At("global", "player")]
     ELSE /\ at' = [at EXCEPT ![t] = At("player", @.arg)]
          /\ UNCHANGED <<mapMgr, pool, players, instance>>
  /\ UNCHANGED <<socket, timer, bDeleted, loggingOut, player, beingPushed, far, global,
                 sessions, up, ends, bounds>>

\* A thread that moves the player goes on with him.
Moving(t) == at[t].pc \in {"enter", "entered", "global", "sent", "pushed"}

DeletePlayer(t) ==
  /\ Is(t, "player")
  /\ player' = FALSE /\ beingPushed' = FALSE /\ far' = FALSE
  /\ crashed' = (player /\ \E u \in Updater \ {t} : Moving(u))
  /\ at' = [at EXCEPT ![t] = At("out", @.arg)]
  /\ UNCHANGED <<session, mapMgr, sets, deleted, left, together, bounds>>

LoggedOut(t) ==
  /\ Is(t, "out")
  /\ loggingOut' = FALSE /\ timer' = "off"
  /\ Goto(t, at[t].arg)
  /\ UNCHANGED <<instance, socket, bDeleted, where, sets, ends, bounds>>

DeleteSession(t) ==
  /\ Is(t, "delete")
  /\ deleted' = TRUE
  /\ Removed(t)
  /\ UNCHANGED <<session, where, left, together, crashed, bounds>>

\* A thread goes on with a session that another one has freed.
Dangling(t) ==
  /\ ~crashed /\ deleted
  /\ \/ at[t].pc # "idle"
     \/ Listed(t) /\ (t # World => t \in up)
  /\ crashed' = TRUE
  /\ UNCHANGED <<session, where, sets, deleted, left, together, bounds, at>>

-------------------------------------------------------------------------------
\* The rest of a map's loop: players are pushed, taken elsewhere by their events, and
\* an empty instance ends.
Push(m) ==
  /\ ~crashed /\ ~deleted /\ at[m].pc = "idle" /\ m \in up /\ m \in pool
  /\ pool' = pool \ {m} /\ players' = players \cup {m} /\ sessions' = sessions \cup {m}
  /\ mapMgr' = m /\ instance' = m /\ beingPushed' = FALSE
  /\ UNCHANGED <<socket, timer, bDeleted, loggingOut, player, far, global, up, ends,
                 bounds, at>>

\* The position is out of the map's bounds and SafeTeleport is to bring the player home:
\* to another map, so that RemoveObject takes him out of the pool MapMgr::Do goes
\* through, and the loop goes on from an element that is gone,
PushHome(m) ==
  /\ ~crashed /\ ~deleted /\ at[m].pc = "idle" /\ m \in up /\ m \in pool
  /\ moves < MaxMoves /\ moves' = moves + 1
  /\ mapMgr' = None /\ instance' = World
  /\ pool' = pool \ {m} /\ players' = players \ {m}
  /\ at' = [at EXCEPT ![m] = At(IF bDeleted THEN "sent" ELSE "global", "pushed")]
  /\ together' = (together \/ Busy(m))
  /\ crashed' \in BOOLEAN
  /\ UNCHANGED <<socket, timer, bDeleted, loggingOut, player, beingPushed, far, global,
                 sessions, up, deleted, left, logins>>

Pushed(m) ==
  /\ Is(m, "pushed")
  /\ beingPushed' = FALSE /\ Goto(m, "idle")
  /\ UNCHANGED <<session, player, mapMgr, far, sets, ends, bounds>>

\* or it refuses (an expansion the account has not, SMSG_TRANSFER_ABORTED), and he is
\* in no list of the map.
PushRefused(m) ==
  /\ ~crashed /\ ~deleted /\ at[m].pc = "idle" /\ m \in up /\ m \in pool
  /\ pool' = pool \ {m} /\ mapMgr' = m /\ beingPushed' = FALSE
  /\ left' = TRUE
  /\ UNCHANGED <<session, player, far, global, sessions, players, up, deleted, together,
                 crashed, bounds, at>>

MoveAway(m) == Is(m, "idle") /\ m \in up /\ m \in players /\ Relocate(m, "idle")

End(m) ==
  /\ up' = up \ {m} /\ sessions' = sessions \ {m}
  /\ left' = (left \/ m \in pool)
  /\ Goto(m, "idle")
  /\ UNCHANGED <<session, where, global, pool, players, deleted, together, crashed, bounds>>

Expire(m) == m \in Instance /\ Is(m, "idle") /\ m \in up \ players /\ End(m)

\* BeginInstanceExpireCountdown, and TeleportPlayers a minute later.
ForceOut(m) == m \in Instance /\ Is(m, "idle") /\ m \in up \cap players /\ Relocate(m, "ended")

Ended(m) == Is(m, "ended") /\ End(m)

-------------------------------------------------------------------------------
\* The client, and time.
Leave ==
  /\ socket /\ ~crashed /\ ~deleted /\ socket' = FALSE
  /\ UNCHANGED <<instance, timer, bDeleted, loggingOut, where, sets, ends, bounds, at>>

Tick ==
  /\ timer = "on" /\ ~crashed /\ ~deleted /\ timer' = "due"
  /\ \A t \in Updater : at[t].pc = "idle"
  /\ UNCHANGED <<instance, socket, bDeleted, loggingOut, where, sets, ends, bounds, at>>

-------------------------------------------------------------------------------
Packet(t) == \/ Teleport(t) \/ LogoutRequest(t)
             \/ \E m \in Map : Login(t, m) \/ WorldportAck(t, m)

Goes(t) == \/ Look(t) \/ Update(t) \/ Enter(t) \/ Entered(t) \/ AddGlobalSession(t)
           \/ NewWorldSent(t) \/ PacketDone(t) \/ NoPacket(t) \/ Timer(t) \/ LogoutPlayer(t)
           \/ DeletePlayer(t) \/ LoggedOut(t) \/ DeleteSession(t) \/ Dangling(t)

\* A turn of a map's loop over its pool
Pushes(m) == Push(m) \/ PushHome(m) \/ PushRefused(m)

HandoverNext ==
  \/ \E t \in Updater : Goes(t) \/ Packet(t)
  \/ \E m \in Map : Pushes(m) \/ Pushed(m) \/ MoveAway(m) \/ Expire(m) \/ ForceOut(m) \/ Ended(m)
  \/ Leave \/ Tick

HandoverSpec == HandoverInit /\ [][HandoverNext]_handoverVars

\* The threads run, and time passes.
HandoverFairSpec ==
  /\ HandoverSpec /\ SF_handoverVars(Tick) /\ WF_handoverVars(Goes(World))
  /\ \A m \in Map : SF_handoverVars(Pushes(m)) /\ SF_handoverVars(Goes(m) \/ Pushed(m) \/ Ended(m))

-------------------------------------------------------------------------------
(* Properties.                                                             *)

\* Unless it is being logged out for good, a session is always with somebody: in the set of
\* the thread its number names, in the pool of a map, which sees to the rest, or in the hands
\* of a thread.  Nothing else would ever update it again.  (Object::RemoveFromWorld,
\* AddGlobalSession and PushObject write the number and the sets at different times.)
SessionIsFound ==
  ~(crashed \/ deleted \/ left) =>
     \/ instance = World /\ global
     \/ instance \in sessions
     \/ pool # {}
     \/ \E t \in Updater : at[t].pc # "idle"

\* As long as no two threads met at the session, a player is in the pool or the storage of
\* his own map only, and marked as being pushed while he is in a pool.
OnePlace ==
  ~(crashed \/ together) =>
    \A m \in (pool \cup players) \cap up : player /\ mapMgr = m /\ (m \in pool => beingPushed)

\* As long as they did not, the thread that handles packets or logs the player out is the
\* one of the player's map, so that what it does to the map needs no lock.
OwnThread ==
  ~(crashed \/ deleted \/ together) =>
    \A t \in Updater : at[t].pc \in {"packets", "logout"} => mapMgr \in {None, t}

\* Marked as being pushed, but in no map: RemoveFromWorld took him out of the pool and
\* left the mark.
Stuck == player /\ beingPushed /\ mapMgr = None

\* A client that is gone is logged out and its session deleted in the end, through all the
\* hand-overs on the way (WorldSession::Update), or its player is stuck.
GoneEnds == ~socket ~> (deleted \/ left \/ crashed \/ together \/ Stuck)
===============================================================================
