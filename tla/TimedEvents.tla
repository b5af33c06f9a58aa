------------------------------ MODULE TimedEvents ------------------------------
(***************************************************************************)
(* Timed events (EventableObject, EventableObjectHolder, TimedEvent): one  *)
(* object, its events, and the holders whose Update executes them.  A      *)
(* holder belongs to a thread that calls its Update over and over: one per *)
(* map, and WorldRunnable for the holder of WORLD_INSTANCE.  Any of these  *)
(* threads may add and remove events, also from inside a callback; the     *)
(* object is put into a map and taken out of it by the thread of the map.  *)
(*                                                                         *)
(* A step is what m_lock of the object, or the locks of a holder, cover.   *)
(* Update keeps the holder's m_lock from its beginning to its end, so that *)
(* other threads find it taken.  Time is left out: an event an Update      *)
(* comes to may be due or not, which also stands for ModifyTime and its    *)
(* kin.                                                                    *)
(***************************************************************************)
EXTENDS Integers, FiniteSets, SequencesExt

CONSTANTS
  Event,      \* TimedEvents that may be created (bound)
  Flagged,    \* those with EVENT_FLAG_DO_NOT_EXECUTE_IN_WORLD_CONTEXT
  Deletes,    \* those with EVENT_FLAG_DELETES_OBJECT
  Map,        \* maps, each with its instance id, its holder and its thread
  World,      \* WORLD_INSTANCE
  None,       \* null pointer, and INSTANCEID_NOT_IN_WORLD
  MaxMoves    \* bound: how often the object is put into a map

ASSUME EventsAssumption ==
  /\ Flagged \subseteq Event /\ Deletes \subseteq Event
  /\ World \notin Map /\ None \notin Map \cup {World} \cup Event
  /\ MaxMoves \in Nat

Holder == Map \cup {World}

VARIABLES
  alive,      \* the object is not destroyed
  instance,   \* its m_instanceId
  inWorld,    \* a map has it
  holder,     \* m_holder; m_event_Instanceid is always the id of this holder
  events,     \* m_events
  moves,
  new,        \* events not created yet
  ref,        \* TimedEvent::ref
  deleted,    \* events with deleted
  eventAt,    \* TimedEvent::instanceId
  repeats,    \* TimedEvent::repeats: 1 for an event that runs once, 0 for one that runs
              \* for ever or has run
  list,       \* EventableObjectHolder::m_events
  pool,       \* m_insertPool
  at,         \* where the thread of each holder is in Update
  adding,     \* the event for which a thread is in event_AddEvent
  crashed     \* a null or freed pointer was used

object == <<alive, instance, inWorld, holder, events, moves>>
event  == <<new, ref, deleted, eventAt, repeats>>
hold   == <<list, pool>>
vars   == <<object, event, hold, at, adding, crashed>>

At(pc, pos, e) == [pc |-> pc, pos |-> pos, ev |-> e]

Freed(e) == e \notin new /\ ref[e] = 0

TypeOK ==
  /\ alive \in BOOLEAN /\ inWorld \in BOOLEAN /\ crashed \in BOOLEAN
  /\ instance \in Map \cup {None} /\ holder \in Holder \cup {None}
  /\ inWorld => instance # None
  /\ events \subseteq Event \ new /\ deleted \subseteq Event \ new
  /\ moves \in 0 .. MaxMoves
  /\ ref \in [Event -> Nat] /\ repeats \in [Event -> {0, 1}]
  /\ eventAt \in [Event -> Holder \cup {None}]
  /\ \A h \in Holder :
       /\ list[h] \in Seq(Event) /\ pool[h] \in Seq(Event)
       /\ at[h].pc \in {"idle", "scan", "due", "call"}
       /\ at[h].ev \in Event \cup {None}
       /\ at[h].pos \in 1 .. Len(list[h]) + 1
  /\ adding \in [Holder -> Event \cup {None}]

Init ==
  /\ alive = TRUE /\ instance = None /\ inWorld = FALSE /\ holder = None
  /\ events = {} /\ moves = 0
  /\ new = Event /\ deleted = {}
  /\ ref = [e \in Event |-> 0]
  /\ eventAt = [e \in Event |-> None]
  /\ repeats \in [Event -> {0, 1}]
  /\ \A e \in Deletes : repeats[e] = 1
  /\ list = [h \in Holder |-> <<>>] /\ pool = [h \in Holder |-> <<>>]
  /\ at = [h \in Holder |-> At("idle", 1, None)]
  /\ adding = [h \in Holder |-> None]
  /\ crashed = FALSE

Crash == crashed' = TRUE /\ UNCHANGED <<object, event, hold, at, adding>>

-----------------------------------------------------------------------------
(* The object's operations.                                                *)

\* Thread t can call an operation: between two Updates, or in a callback.
Free(t) == at[t].pc \in {"idle", "call"} /\ adding[t] = None

\* AddEvent, AddObject: the list if m_lock is free or held by t itself, else the
\* insert pool
Insert(t, h, es) ==
  IF at[h].pc = "idle" \/ t = h
  THEN list' = [list EXCEPT ![h] = @ \o es] /\ UNCHANGED pool
  ELSE pool' = [pool EXCEPT ![h] = @ \o es] /\ UNCHANGED list

IncRef(es) == [e \in Event |-> IF e \in es THEN ref[e] + 1 ELSE ref[e]]
DecRef(es) == [e \in Event |-> IF e \in es THEN ref[e] - 1 ELSE ref[e]]

\* Mutant: an event may run in any holder.
Unwanted(e, h) == FALSE

\* "If we are flagged not to run in WorldRunnable then we won't"
Refused(e, h) == h = World /\ e \in Flagged

\* event_AddEvent, under m_lock; the object's holder is chosen with its first event
AddEvent(t, e) ==
  /\ Free(t) /\ alive /\ e \in new
  /\ holder' = IF holder # None THEN holder ELSE IF instance # None THEN instance ELSE World
  /\ new' = new \ {e}
  /\ IF Refused(e, holder')
     THEN UNCHANGED <<events, ref, eventAt, adding>>
     ELSE /\ events' = events \cup {e}
          /\ ref' = IncRef({e})
          /\ eventAt' = [eventAt EXCEPT ![e] = holder']
          /\ adding' = [adding EXCEPT ![t] = e]
  /\ UNCHANGED <<alive, instance, inWorld, moves, deleted, repeats, hold, at, crashed>>

\* m_holder->AddEvent(ptr), after m_lock is released
AddToHolder(t) ==
  LET e == adding[t] IN
  /\ e # None
  /\ IF ~alive \/ holder = None \/ Freed(e) THEN Crash
     ELSE /\ ref' = IncRef({e})
          /\ Insert(t, holder, <<e>>)
          /\ adding' = [adding EXCEPT ![t] = None]
          /\ UNCHANGED <<object, new, deleted, eventAt, repeats, at, crashed>>

\* event_RemoveEvents: all events, or those of one type
RemoveEvents(t, es) ==
  /\ Free(t) /\ alive
  /\ es # {} /\ (es = events \/ \E e \in events : es = {e})
  /\ events' = events \ es
  /\ deleted' = deleted \cup es
  /\ ref' = DecRef(es)
  /\ UNCHANGED <<alive, instance, inWorld, holder, moves, new, eventAt, repeats,
                 hold, at, adding, crashed>>

\* Mutant: events already listed somewhere are taken along without a reference.
Unreferenced(es) == ref

Referenced(es) == IncRef(es)

\* AddObject passes over deleted events, which an object may still have
Kept == events \ deleted

\* event_Relocate by thread t, once m_instanceId is id
Relocate(t, id) ==
  /\ holder' = id
  /\ IF id = holder THEN UNCHANGED <<ref, eventAt, hold>>
     ELSE IF id = None
     THEN /\ eventAt' = [e \in Event |-> IF e \in events THEN None ELSE eventAt[e]]
          /\ UNCHANGED <<ref, hold>>
     ELSE /\ eventAt' = [e \in Event |-> IF e \in Kept THEN id ELSE eventAt[e]]
          /\ ref' = Referenced(Kept)
          /\ Insert(t, id, SetToSeq(Kept))

\* Object::AddToWorld: the object waits in the insert pool of map m
AddToWorld(t, m) ==
  /\ Free(t) /\ alive /\ instance = None
  /\ instance' = m
  /\ UNCHANGED <<alive, inWorld, holder, events, moves, event, hold, at, adding, crashed>>

\* Object::PushToWorld, by the thread of the map
PushToWorld(m) ==
  /\ Free(m) /\ alive /\ ~inWorld /\ instance \in {None, m} /\ moves < MaxMoves
  /\ instance' = m /\ inWorld' = TRUE /\ moves' = moves + 1
  /\ Relocate(m, m)
  /\ UNCHANGED <<alive, events, new, deleted, repeats, at, adding, crashed>>

\* Object::RemoveFromWorld, by the thread of the map, also while the object waits to be added
RemoveFromWorld(m) ==
  /\ Free(m) /\ alive /\ instance = m
  /\ instance' = None /\ inWorld' = FALSE
  /\ Relocate(m, None)
  /\ UNCHANGED <<alive, events, moves, new, deleted, repeats, at, adding, crashed>>

\* ~EventableObject of an object that is in no map; it takes no lock, so a thread
\* that is in event_AddEvent or in a callback of the object goes on with freed memory
Destroy(t) ==
  /\ Free(t) /\ alive /\ instance = None
  /\ IF \E u \in Holder \ {t} : adding[u] # None \/ at[u].pc = "call" THEN Crash
     ELSE /\ alive' = FALSE /\ events' = {}
          /\ deleted' = deleted \cup events
          /\ ref' = DecRef(events)
          /\ UNCHANGED <<instance, inWorld, holder, moves, new, eventAt, repeats,
                         hold, at, adding, crashed>>

Operations(t) ==
  \/ \E e \in Event : AddEvent(t, e)
  \/ \E es \in SUBSET Event : RemoveEvents(t, es)
  \/ \E m \in Map : AddToWorld(t, m)
  \/ t \in Map /\ (PushToWorld(t) \/ RemoveFromWorld(t))
  \/ Destroy(t)

-----------------------------------------------------------------------------
(* EventableObjectHolder::Update                                           *)

Wanted(h, e) == e \notin deleted /\ eventAt[e] = h

\* Mutant: the insert pool is cleared without being read.
Forgotten(h) == <<>>

Pending(h) ==
  LET keep == {i \in DOMAIN pool[h] : Wanted(h, pool[h][i])} IN
  [n \in 1..Cardinality(keep) |->
     pool[h][CHOOSE i \in keep : Cardinality({j \in keep : j <= i}) = n]]

\* It begins: pending insertions are merged, those of other holders dropped.
BeginUpdate(h) ==
  LET Dropped(e) == Cardinality({i \in DOMAIN pool[h] : pool[h][i] = e /\ ~Wanted(h, e)}) IN
  /\ at[h].pc = "idle" /\ adding[h] = None
  /\ at' = [at EXCEPT ![h] = At("scan", 1, None)]
  /\ list' = [list EXCEPT ![h] = @ \o Pending(h)]
  /\ pool' = [pool EXCEPT ![h] = <<>>]
  /\ ref' = [e \in Event |-> ref[e] - Dropped(e)]
  /\ UNCHANGED <<object, new, deleted, eventAt, repeats, adding, crashed>>

Scans(h)   == at[h].pc = "scan" /\ at[h].pos <= Len(list[h])
Current(h) == list[h][at[h].pos]
Stale(h)   == eventAt[Current(h)] # h \/ Current(h) \in deleted

\* it2 = itr++ has moved on already, to the entry that takes the erased one's place
NextEntry(h) == at[h].pos

\* m_events.erase(it2), and the reference of the list is given up
Erase(h, e) ==
  /\ list' = [list EXCEPT ![h] = RemoveAt(@, at[h].pos)]
  /\ ref' = DecRef({e})
  /\ at' = [at EXCEPT ![h] = At("scan", NextEntry(h), None)]

DropStale(h) ==
  /\ Scans(h) /\ Stale(h)
  /\ Erase(h, Current(h))
  /\ UNCHANGED <<object, new, deleted, eventAt, repeats, pool, adding, crashed>>

\* currTime > time_difference
NotDue(h) ==
  /\ Scans(h) /\ ~Stale(h)
  /\ at' = [at EXCEPT ![h].pos = @ + 1]
  /\ UNCHANGED <<object, event, hold, adding, crashed>>

Due(h) ==
  /\ Scans(h) /\ ~Stale(h)
  /\ at' = [at EXCEPT ![h] = At("due", @.pos, Current(h))]
  /\ UNCHANGED <<object, event, hold, adding, crashed>>

\* cb->execute(): what the callback does are operations of thread h, until it
\* returns
Execute(h) ==
  LET e == at[h].ev IN
  /\ at[h].pc = "due"
  /\ IF ~alive THEN Crash
     ELSE /\ at' = [at EXCEPT ![h].pc = "call"]
          /\ IF e \in Deletes
             THEN /\ list' = [list EXCEPT ![h] = RemoveAt(@, at[h].pos)]
                  /\ deleted' = deleted \cup {e}
             ELSE UNCHANGED <<list, deleted>>
          /\ UNCHANGED <<object, new, ref, eventAt, repeats, pool, adding, crashed>>

\* Mutant: the reference of the list is kept.
KeepsReference(e) == ref

GiveUpReference(e) == DecRef({e})

ExecuteReturns(h) ==
  LET e == at[h].ev IN
  /\ at[h].pc = "call" /\ adding[h] = None
  /\ IF e \in Deletes
     THEN /\ ref' = GiveUpReference(e)
          /\ at' = [at EXCEPT ![h] = At("scan", @.pos, None)]
          /\ UNCHANGED <<list, deleted, repeats>>
     ELSE IF repeats[e] = 1
     THEN /\ repeats' = [repeats EXCEPT ![e] = 0]
          /\ deleted' = deleted \cup {e}
          /\ Erase(h, e)
     ELSE IF e \in deleted
     THEN /\ Erase(h, e)
          /\ UNCHANGED <<deleted, repeats>>
     ELSE /\ at' = [at EXCEPT ![h] = At("scan", @.pos + 1, None)]
          /\ UNCHANGED <<list, ref, deleted, repeats>>
  /\ UNCHANGED <<object, new, eventAt, pool, adding, crashed>>

EndUpdate(h) ==
  /\ at[h].pc = "scan" /\ at[h].pos > Len(list[h])
  /\ at' = [at EXCEPT ![h] = At("idle", 1, None)]
  /\ UNCHANGED <<object, event, hold, adding, crashed>>

Update(h) ==
  \/ EndUpdate(h) \/ NotDue(h) \/ Due(h)
  \/ Execute(h) \/ DropStale(h) \/ ExecuteReturns(h) \/ BeginUpdate(h)

-----------------------------------------------------------------------------
Next ==
  /\ ~crashed
  /\ \E h \in Holder : Update(h) \/ AddToHolder(h) \/ Operations(h)

Spec == Init /\ [][Next]_vars

\* The threads of the holders go on updating, and finish what they began; each of
\* these steps changes one of the four variables.
FairSpec ==
  /\ Spec
  /\ \A h \in Holder : WF_<<at, list, adding, crashed>>(~crashed /\ (Update(h) \/ AddToHolder(h)))

-----------------------------------------------------------------------------
(* Properties.                                                             *)

\* Everything that refers to event e: the object, each entry of a list or a pool,
\* and an Update in the callback of an event it has erased already.
References(e) ==
  LET In(es) == {i \in DOMAIN es : es[i] = e} IN
  {<<None, "object", 0>> : x \in events \cap {e}}
  \cup (UNION {{h} \X {"list"} \X In(list[h]) : h \in Holder})
  \cup (UNION {{h} \X {"pool"} \X In(pool[h]) : h \in Holder})
  \cup {<<h, "call", 0>> : h \in {g \in Holder : at[g].pc = "call" /\ at[g].ev = e
                                                 /\ e \in Deletes}}

\* An event's count is the number of references to it, however adding, removing,
\* relocating and executing it interleave: it is never freed while it is listed.
RefsExact == ~crashed => \A e \in Event : ref[e] = Cardinality(References(e))

\* An event that belongs to the object's holder is in its list or its pool, or a
\* thread is about to add it: no relocation, and no Update at the same time, loses
\* one.
HeldIsListed ==
  ~crashed => \A e \in events \ deleted : eventAt[e] = holder /\ holder # None =>
    \/ e \in Range(list[holder]) \cup Range(pool[holder])
    \/ \E t \in Holder : adding[t] = e

\* WorldRunnable never executes an event flagged not to run there, also when the
\* object is relocated while the event is being added.
FlaggedNotInWorld == at[World].ev \notin Flagged

\* Each event that belongs to the holder of the object's map is come to by its
\* Update, through the list or the pool, unless it is removed or the object leaves the
\* map; whether it is due then is a matter of its time.
EventIsReached ==
  \A e \in Event :
    (inWorld /\ e \in events /\ eventAt[e] = instance)
      ~> (inWorld /\ ~crashed /\ e \notin deleted => Scans(instance) /\ Current(instance) = e)

\* A removed event is freed in the end, by whoever comes to its last entry.
RemovedIsFreed ==
  \A e \in Event : (e \in deleted /\ e \notin events) ~> (Freed(e) \/ crashed)

\* The events of an object that was taken out of its map are in the holder of the
\* map that has it next: "let's just wait till something will add us again to world"
\* (EventableObject.cpp:435).
EventsComeBack == ~crashed /\ inWorld => \A e \in events \ deleted : eventAt[e] = instance
=============================================================================
