--------------------------- MODULE GameCoordinator ---------------------------
(***************************************************************************)
(* The rooms of the server process: the class GameCoordinator, and main's  *)
(* signal handler and start.  Rooms are created, queued for eviction when  *)
(* nobody is connected to them, evicted once they have been idle for long  *)
(* enough, saved when a signal ends the process and loaded by the next.    *)
(*                                                                         *)
(* runEviction advances one entry of its queue per action: `pc' says who   *)
(* called it.  No callback runs meanwhile, but the signal may arrive, and  *)
(* the wall clock goes on.  What happens inside a room is module Game;     *)
(* here a room is who has a seat in it, who of them is connected and when  *)
(* a message was last handled.                                             *)
(***************************************************************************)
EXTENDS Integers, Sequences, FiniteSets

CONSTANTS
  Room,            \* room codes
  Session,         \* sessions of people
  generateCode,    \* generateCode(ROOM_LEN, seed) for each seed
  Bots,            \* the bots of a room, which come and go together
  NoSeed,          \* the empty seed
  MAX_PLAYERS, EVICTION_LIMIT,
  EVICT_AFTER,     \* in ticks of the clock
  MaxTime          \* bound: the clock stops here

ASSUME CoordinatorAssumption ==
  /\ generateCode \in [Room -> Room]
  /\ NoSeed \notin Room
  /\ Bots \notin Session
  /\ IsFiniteSet(Room) /\ IsFiniteSet(Session)
  /\ MAX_PLAYERS \in Nat \ {0}
  /\ EVICTION_LIMIT \in Nat \ {0}
  /\ EVICT_AFTER \in Nat
  /\ MaxTime \in Nat

Player == Session \cup {Bots}
Entry  == [at : Nat, room : Room]

VARIABLES
  games,           \* the rooms there are: members, online, updated
  eviction_queue, eviction_set,
  now,             \* system_clock::now()
  disk,            \* data/server_state.json: the members of each room saved
  pc,              \* "idle", the function that runs, or "down" without process
  popSet, kills,   \* locals of runEviction
  seed             \* parameter of createRoom

queues == <<eviction_queue, eviction_set>>
locals == <<popSet, kills, seed>>
rooms  == <<games, queues, now, disk, pc, locals>>

Empty == [r \in {} |-> {}]
Call  == {"createRoom", "save_to_disk"}        \* the callers of runEviction

returns(fn) == pc' = fn /\ popSet' = TRUE /\ kills' = 0 /\ seed' = NoSeed

CoordinatorInit ==
  /\ games = Empty /\ eviction_queue = <<>> /\ eviction_set = {}
  /\ now = 0 /\ disk = Empty
  /\ pc = "idle" /\ popSet = TRUE /\ kills = 0 /\ seed = NoSeed
-----------------------------------------------------------------------------
(* Players of a room *)

Abandoned(game) == game.online = {}            \* !connectedPlayerCount()
seats(game) == IF Bots \in game.members THEN MAX_PLAYERS
                                        ELSE Cardinality(game.members)

queue_eviction(r) ==
  IF r \in eviction_set THEN UNCHANGED queues
  ELSE /\ eviction_queue' = Append(eviction_queue, [at |-> now, room |-> r])
       /\ eviction_set' = eviction_set \cup {r}

enterOver(r, s) ==                                          \* faulty enter
  /\ pc = "idle"
  /\ r \in DOMAIN games
  /\ s \in games[r].members \/ seats(games[r]) =< MAX_PLAYERS
  /\ games' = [games EXCEPT ![r].members = @ \cup {s}, ![r].online = @ \cup {s}]
  /\ UNCHANGED <<queues, now, disk, pc, locals>>
\* addPlayer for a newcomer, reconnectPlayer for a member.
enter(r, s) ==
  /\ pc = "idle"
  /\ r \in DOMAIN games
  /\ s \in games[r].members \/ seats(games[r]) < MAX_PLAYERS
  /\ games' = [games EXCEPT ![r].members = @ \cup {s}, ![r].online = @ \cup {s}]
  /\ UNCHANGED <<queues, now, disk, pc, locals>>

leaveQuietly(r, gone) ==                                    \* faulty leave
  /\ pc = "idle"
  /\ r \in DOMAIN games
  /\ games' = [games EXCEPT ![r].online = @ \ gone]
  /\ UNCHANGED <<queues, now, disk, pc, locals>>
\* The close handler: the session, if it has a seat, is disconnected.
leave(r, gone) ==
  /\ pc = "idle"
  /\ r \in DOMAIN games
  /\ games' = [games EXCEPT ![r].online = @ \ gone]
  /\ IF Abandoned(games'[r]) THEN queue_eviction(r) ELSE UNCHANGED queues
  /\ UNCHANGED <<now, disk, pc, locals>>

\* handleMessage with a request that is not refused.  The first restart seats bots
\* in a room that is not full.
handleMessage(r, s) ==
  /\ pc = "idle"
  /\ r \in DOMAIN games
  /\ s \in games[r].members
  /\ \/ games' = [games EXCEPT ![r].updated = now]
     \/ /\ seats(games[r]) < MAX_PLAYERS
        /\ games' = [games EXCEPT ![r].members = @ \cup {Bots},
                                  ![r].online = @ \cup {Bots},
                                  ![r].updated = now]
  /\ UNCHANGED <<queues, now, disk, pc, locals>>
-----------------------------------------------------------------------------
(* runEviction *)

\* The loop goes on: an entry is due and a limited run has not killed enough.
due ==
  /\ eviction_queue # <<>>
  /\ pc = "createRoom" => kills < EVICTION_LIMIT
  /\ Head(eviction_queue).at < now - EVICT_AFTER

\* Only while nothing was queued again in this run, whatever room that was, does
\* a room that is taken off the queue leave the set.
forget(r) == eviction_set' = IF popSet' THEN eviction_set \ {r} ELSE eviction_set

evictsOccupied(entry) ==                                   \* faulty evicts
  /\ entry.room \in DOMAIN games
  /\ games[entry.room].updated =< entry.at
evicts(entry) ==
  /\ entry.room \in DOMAIN games
  /\ Abandoned(games[entry.room])
  /\ games[entry.room].updated =< entry.at

requeueAsOld(entry) ==                                    \* faulty requeue
  /\ eviction_queue' = Append(Tail(eviction_queue), entry)
  /\ popSet' = FALSE
  /\ UNCHANGED eviction_set
requeueUnmarked(entry) ==                                 \* faulty requeue
  /\ eviction_queue' = Append(Tail(eviction_queue), [at |-> now, room |-> entry.room])
  /\ popSet' = popSet
  /\ eviction_set' = eviction_set \ {entry.room}
\* The room was used since it was queued: it waits for another term.
requeue(entry) ==
  /\ eviction_queue' = Append(Tail(eviction_queue), [at |-> now, room |-> entry.room])
  /\ popSet' = FALSE
  /\ UNCHANGED eviction_set

\* One round of the loop.
EvictionStep ==
  /\ pc \in Call
  /\ due
  /\ LET entry == Head(eviction_queue)
     IN  \/ /\ evicts(entry)
            /\ games' = [r \in DOMAIN games \ {entry.room} |-> games[r]]
            /\ eviction_queue' = Tail(eviction_queue)
            /\ kills' = kills + 1 /\ popSet' = popSet
            /\ forget(entry.room)
         \/ /\ ~evicts(entry)
            /\ entry.room \in DOMAIN games /\ Abandoned(games[entry.room])
            /\ requeue(entry)
            /\ UNCHANGED <<games, kills>>
         \/ /\ entry.room \in DOMAIN games => ~Abandoned(games[entry.room])
            /\ eviction_queue' = Tail(eviction_queue)
            /\ UNCHANGED <<games, kills, popSet>>
            /\ forget(entry.room)
  /\ UNCHANGED <<now, disk, pc, seed>>
-----------------------------------------------------------------------------
(* createRoom *)

\* Bound: a room without a seed is asked for while a code is free.  The code
\* draws codes until it finds one.
createRoom(s) ==
  /\ pc = "idle"
  /\ s = NoSeed => Room \ DOMAIN games # {}
  /\ pc' = "createRoom" /\ popSet' = TRUE /\ kills' = 0 /\ seed' = s
  /\ UNCHANGED <<games, queues, now, disk>>

\* After its runEviction: the room with that code, which a seed may share with an
\* earlier redirect.
RoomCreated(id) ==
  /\ pc = "createRoom"
  /\ ~due
  /\ id \in IF seed = NoSeed THEN Room \ DOMAIN games ELSE {generateCode[seed]}
  /\ \/ id \in DOMAIN games /\ UNCHANGED <<games, queues>>
     \/ /\ id \notin DOMAIN games
        /\ games' = [r \in DOMAIN games \cup {id} |->
                       IF r = id THEN [members |-> {}, online |-> {}, updated |-> now]
                                 ELSE games[r]]
        /\ queue_eviction(id)
  /\ returns("idle")
  /\ UNCHANGED <<now, disk>>
-----------------------------------------------------------------------------
(* The end of the process, and the next one *)

\* SIGINT or SIGTERM: save_to_disk runs at once, whatever was running, the handler
\* of the other signal included.
Signal ==
  /\ pc # "down"
  /\ returns("save_to_disk")
  /\ UNCHANGED <<games, queues, now, disk>>

\* After its runEviction, save_to_disk removes the old file ...
RemoveFile ==
  /\ pc = "save_to_disk"
  /\ ~due
  /\ disk' = Empty
  /\ returns("ofstream")
  /\ UNCHANGED <<games, queues, now>>

exit == games' = Empty /\ eviction_queue' = <<>> /\ eviction_set' = {} /\ returns("down")

\* ... and writes a new one.  Then the process exits.
WriteFile ==
  /\ pc = "ofstream"
  /\ disk' = [r \in DOMAIN games |-> games[r].members]
  /\ exit
  /\ UNCHANGED now

\* An assert of a bot fails, or the process is killed.
Crash ==
  /\ pc # "down"
  /\ exit
  /\ UNCHANGED <<now, disk>>

\* A set in any order.  (The rooms of the file come in the order of their codes.)
Orders(S) == {q \in [1 .. Cardinality(S) -> S] :
                \A i, j \in DOMAIN q : q[i] = q[j] => i = j}

loadUnqueued ==                                   \* faulty load_persistence
  /\ pc = "down"
  /\ games' = [r \in DOMAIN disk |-> [members |-> disk[r], online |-> {}, updated |-> now]]
  /\ UNCHANGED queues
  /\ returns("idle")
  /\ UNCHANGED <<now, disk>>
\* main of the next process: every room of the file is back, nobody is connected
\* to it, bots included, and it is queued for eviction.
load_persistence ==
  /\ pc = "down"
  /\ games' = [r \in DOMAIN disk |-> [members |-> disk[r], online |-> {}, updated |-> now]]
  /\ \E order \in Orders(DOMAIN disk) :
       eviction_queue' = [i \in DOMAIN order |-> [at |-> now, room |-> order[i]]]
  /\ eviction_set' = DOMAIN disk
  /\ returns("idle")
  /\ UNCHANGED <<now, disk>>

Tick ==
  /\ now < MaxTime
  /\ now' = now + 1
  /\ UNCHANGED <<games, queues, disk, pc, locals>>
-----------------------------------------------------------------------------
\* What the callbacks of the server ask for: see GameServer.
Callback ==
  \/ \E r \in Room, s \in Session : enter(r, s) \/ handleMessage(r, s)
  \/ \E r \in Room, gone \in {{}} \cup {{s} : s \in Session} : leave(r, gone)
  \/ \E s \in Room \cup {NoSeed} : createRoom(s)

Running == EvictionStep \/ (\E id \in Room : RoomCreated(id)) \/ RemoveFile \/ WriteFile

CoordinatorNext == Callback \/ Running \/ Signal \/ Crash \/ load_persistence \/ Tick

CoordinatorSpec == CoordinatorInit /\ [][CoordinatorNext]_rooms

\* A call that runs goes on.
CoordinatorFairSpec == CoordinatorSpec /\ WF_rooms(Running)
-----------------------------------------------------------------------------
(* Properties *)

GameRecord == [members : SUBSET Player, online : SUBSET Player, updated : Nat]

\* Bots take a seat at least.
HasSeats(members) ==
  Cardinality(members \ {Bots}) + (IF Bots \in members THEN 1 ELSE 0) =< MAX_PLAYERS

\* The members of the class and the locals of its functions have their types, only
\* members of a room are connected to it, no room has more of them than seats, and
\* nothing happened in the future.
CoordinatorTypeOK ==
  /\ DOMAIN games \subseteq Room /\ games \in [DOMAIN games -> GameRecord]
  /\ \A r \in DOMAIN games : /\ games[r].online \subseteq games[r].members
                             /\ HasSeats(games[r].members)
                             /\ games[r].updated =< now
  /\ DOMAIN disk \subseteq Room /\ disk \in [DOMAIN disk -> SUBSET Player]
  /\ \A r \in DOMAIN disk : HasSeats(disk[r])
  /\ eviction_queue \in Seq(Entry) /\ eviction_set \subseteq Room
  /\ now \in Nat
  /\ pc \in {"idle", "down", "ofstream"} \cup Call
  /\ popSet \in BOOLEAN /\ kills \in Nat /\ seed \in Room \cup {NoSeed}

\* No room waits for its eviction twice, and the set knows every room that waits:
\* that is what queue_eviction and createRoom ask the set for.
QueuedOnce ==
  /\ \A i, j \in DOMAIN eviction_queue :
       eviction_queue[i].room = eviction_queue[j].room => i = j
  /\ \A i \in DOMAIN eviction_queue : eviction_queue[i].room \in eviction_set

\* The queue is in the order of time: runEviction stops at the first entry that is
\* not due, and what comes after it must not be due either.
QueueInOrder ==
  \A i, j \in DOMAIN eviction_queue :
    i =< j => /\ eviction_queue[i].at =< eviction_queue[j].at
              /\ eviction_queue[j].at =< now

\* A room nobody is connected to is marked for eviction, whether it was just
\* created, left or loaded.
AbandonedRoomsAreMarked ==
  \A r \in DOMAIN games : Abandoned(games[r]) => r \in eviction_set

\* A room nobody is connected to waits for its eviction ("All rehydrated games
\* start with 0 players, so we can schedule an eviction").
AbandonedRoomsAreQueued ==
  \A r \in DOMAIN games : Abandoned(games[r]) =>
    \E i \in DOMAIN eviction_queue : eviction_queue[i].room = r

\* While the process lives a room goes only when nobody is connected to it and it
\* has not been used for the time a room has.
EvictedWhenIdle ==
  [][pc' # "down" =>
       \A r \in DOMAIN games \ DOMAIN games' :
         Abandoned(games[r]) /\ games[r].updated < now - EVICT_AFTER]_rooms

\* runEviction ends, although it queues rooms at the end of the queue it empties.
EvictionEnds == pc \in Call ~> pc \notin Call
=============================================================================
