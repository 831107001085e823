------------------------- MODULE CoordinatorProofs --------------------------
(***************************************************************************)
(* The rooms, proved for any number of rooms, sessions and seats, and for  *)
(* any time a room is given.  The parts of CInv hold each other up: a room *)
(* may leave the set because it is in the queue once, it may be evicted    *)
(* because the queue knows when it was queued, and the set is right about  *)
(* rooms nobody is connected to because evicted rooms are gone.            *)
(***************************************************************************)
EXTENDS GameCoordinator, FiniteSetTheorems, TLAPS

GamesOK ==
  /\ DOMAIN games \subseteq Room /\ games \in [DOMAIN games -> GameRecord]
  /\ \A r \in DOMAIN games : /\ games[r].online \subseteq games[r].members
                             /\ HasSeats(games[r].members)
                             /\ games[r].updated =< now

FileOK ==
  /\ DOMAIN disk \subseteq Room /\ disk \in [DOMAIN disk -> SUBSET Player]
  /\ \A r \in DOMAIN disk : HasSeats(disk[r])

CallsOK ==
  /\ pc \in {"idle", "down", "ofstream"} \cup Call
  /\ popSet \in BOOLEAN /\ kills \in Nat /\ seed \in Room \cup {NoSeed}

\* The queue and the set by themselves.
QueueOK ==
  /\ eviction_queue \in Seq(Entry) /\ eviction_set \subseteq Room
  /\ QueuedOnce
  /\ QueueInOrder
CInv ==
  /\ GamesOK /\ FileOK /\ CallsOK /\ QueueOK
  /\ now \in Nat
  /\ AbandonedRoomsAreMarked
-----------------------------------------------------------------------------
(* The queue *)

\* A room that is not marked may be queued: it is in the queue once, at the end.
LEMMA QueueEvictionKeepsQueue ==
  ASSUME QueueOK, now \in Nat, now' = now, NEW r \in Room, queue_eviction(r)
  PROVE  QueueOK' /\ eviction_set' = eviction_set \cup {r}
<1>1. CASE r \in eviction_set
  BY <1>1 DEF queue_eviction, queues, QueueOK, QueuedOnce, QueueInOrder
<1>2. CASE r \notin eviction_set
  <2> DEFINE entry == [at |-> now, room |-> r]
  <2>1. /\ eviction_queue' = Append(eviction_queue, entry)
        /\ eviction_set' = eviction_set \cup {r}
    BY <1>2 DEF queue_eviction
  <2>2. entry \in Entry /\ entry.at = now /\ entry.room = r
    BY DEF Entry
  <2> HIDE DEF entry
  <2>3. eviction_queue' \in Seq(Entry)
    BY <2>1, <2>2 DEF QueueOK
  <2>4. /\ DOMAIN eviction_queue' = 1 .. Len(eviction_queue) + 1
        /\ DOMAIN eviction_queue = 1 .. Len(eviction_queue)
        /\ Len(eviction_queue) \in Nat
        /\ eviction_queue'[Len(eviction_queue) + 1] = entry
        /\ \A i \in DOMAIN eviction_queue : /\ eviction_queue'[i] = eviction_queue[i]
                                            /\ eviction_queue[i] \in Entry
    BY <2>1, <2>2 DEF QueueOK
  <2>5. QueuedOnce'
    BY <1>2, <2>1, <2>2, <2>4 DEF QueueOK, QueuedOnce
  <2>6. QueueInOrder'
    BY <2>1, <2>2, <2>4 DEF QueueOK, QueueInOrder, Entry
  <2> QED
    BY <2>1, <2>3, <2>5, <2>6 DEF QueueOK
<1> QED
  BY <1>1, <1>2

\* What is left of the queue when its head is popped: the room of the head is not
\* in it any more, so it may leave the set.
LEMMA PopKeepsQueue ==
  ASSUME QueueOK, now \in Nat, now' = now, eviction_queue # <<>>,
         eviction_queue' = Tail(eviction_queue),
         forget(Head(eviction_queue).room)
  PROVE  QueueOK' /\ eviction_set \ {Head(eviction_queue).room} \subseteq eviction_set'
<1> DEFINE r == Head(eviction_queue).room
<1>1. /\ Len(eviction_queue) \in Nat \ {0}
      /\ DOMAIN eviction_queue = 1 .. Len(eviction_queue)
      /\ DOMAIN eviction_queue' = 1 .. Len(eviction_queue) - 1
      /\ \A i \in DOMAIN eviction_queue' : eviction_queue'[i] = eviction_queue[i + 1]
      /\ r = eviction_queue[1].room
      /\ eviction_queue' \in Seq(Entry)
  BY DEF QueueOK
<1>2. /\ eviction_set \ {r} \subseteq eviction_set'
      /\ eviction_set' \subseteq eviction_set
  BY DEF forget
<1> HIDE DEF r
<1>3. QueuedOnce'
  BY <1>1, <1>2 DEF QueueOK, QueuedOnce
<1>4. QueueInOrder'
  BY <1>1 DEF QueueOK, QueueInOrder
<1> QED
  BY <1>1, <1>2, <1>3, <1>4 DEF QueueOK, r

\* What is left of the queue when its head is popped and queued again.
LEMMA RequeueKeepsQueue ==
  ASSUME QueueOK, now \in Nat, now' = now, eviction_queue # <<>>,
         requeue(Head(eviction_queue))
  PROVE  QueueOK'
<1> DEFINE r     == Head(eviction_queue).room
           entry == [at |-> now, room |-> r]
           n     == Len(eviction_queue)
<1>1. /\ n \in Nat \ {0}
      /\ DOMAIN eviction_queue = 1 .. n
      /\ \A i \in DOMAIN eviction_queue : eviction_queue[i] \in Entry
      /\ r = eviction_queue[1].room
  BY DEF QueueOK
<1>2. r \in Room /\ entry \in Entry /\ entry.at = now /\ entry.room = r
  BY <1>1 DEF Entry
<1>3. /\ eviction_queue' = Append(Tail(eviction_queue), entry)
      /\ eviction_set' = eviction_set
  BY DEF requeue
<1> HIDE DEF entry, r
<1>4. /\ eviction_queue' \in Seq(Entry)
      /\ DOMAIN eviction_queue' = 1 .. n
      /\ eviction_queue'[n] = entry
      /\ \A i \in 1 .. n - 1 : eviction_queue'[i] = eviction_queue[i + 1]
  BY <1>1, <1>2, <1>3 DEF QueueOK
<1> HIDE DEF n
<1>5. QueuedOnce'
  BY <1>1, <1>2, <1>3, <1>4 DEF QueueOK, QueuedOnce
<1>6. QueueInOrder'
  <2> SUFFICES ASSUME NEW i \in 1 .. n, NEW j \in 1 .. n, i =< j
               PROVE  /\ eviction_queue'[i].at =< eviction_queue'[j].at
                      /\ eviction_queue'[j].at =< now'
    BY <1>4 DEF QueueInOrder
  <2>1. \A k \in 1 .. n : eviction_queue[k].at \in Nat /\ eviction_queue[k].at =< now
    BY <1>1 DEF QueueOK, QueueInOrder, Entry
  <2>2. CASE j = n
    <3>1. eviction_queue'[i].at =< now
      BY <1>1, <1>2, <1>4, <2>1
    <3> QED
      BY <1>2, <1>4, <2>2, <3>1
  <2>3. CASE j # n
    <3>1. i + 1 \in 1 .. n /\ j + 1 \in 1 .. n /\ i + 1 =< j + 1
      BY <1>1, <2>3
    <3>2. eviction_queue[i + 1].at =< eviction_queue[j + 1].at
      BY <1>1, <3>1 DEF QueueOK, QueueInOrder
    <3>3. eviction_queue'[i] = eviction_queue[i + 1] /\ eviction_queue'[j] = eviction_queue[j + 1]
      BY <1>1, <1>4, <2>3
    <3> QED
      BY <2>1, <3>1, <3>2, <3>3
  <2> QED
    BY <2>2, <2>3
<1> QED
  BY <1>3, <1>4, <1>5, <1>6 DEF QueueOK
-----------------------------------------------------------------------------
(* The lobby *)

LEMMA PlayersAreFinite ==
  ASSUME NEW members \in SUBSET Player
  PROVE  IsFiniteSet(members) /\ Cardinality(members) \in Nat
<1> USE CoordinatorAssumption
<1>1. IsFiniteSet(Player)
  BY FS_AddElement DEF Player
<1> QED
  BY <1>1, FS_Subset, FS_CardinalityType

\* A newcomer finds a seat, or is no newcomer.
LEMMA EnterFindsSeat ==
  ASSUME NEW game \in GameRecord, HasSeats(game.members), NEW s \in Session,
         s \in game.members \/ seats(game) < MAX_PLAYERS
  PROVE  HasSeats(game.members \cup {s})
<1> USE CoordinatorAssumption
<1> DEFINE m == game.members
<1>1. m \in SUBSET Player /\ s # Bots
  BY DEF GameRecord
<1>2. CASE s \in m
  <2>1. m \cup {s} = m
    BY <1>2
  <2> QED
    BY <2>1
<1>3. CASE s \notin m
  <2>1. seats(game) < MAX_PLAYERS
    BY <1>3
  <2>2. Bots \notin m
    BY <2>1 DEF seats
  <2>3. Cardinality(m) < MAX_PLAYERS
    BY <2>1, <2>2 DEF seats
  <2>4. IsFiniteSet(m) /\ Cardinality(m) \in Nat
    BY <1>1, PlayersAreFinite
  <2>5. Cardinality(m \cup {s}) = Cardinality(m) + 1
    BY <1>3, <2>4, FS_AddElement
  <2>6. (m \cup {s}) \ {Bots} = m \cup {s} /\ Bots \notin m \cup {s}
    BY <1>1, <2>2
  <2> QED
    BY <2>3, <2>4, <2>5, <2>6 DEF HasSeats
<1> QED
  BY <1>2, <1>3

\* Bots find a seat in a room that is not full.
LEMMA BotsFindSeat ==
  ASSUME NEW game \in GameRecord, seats(game) < MAX_PLAYERS
  PROVE  HasSeats(game.members \cup {Bots})
<1> USE CoordinatorAssumption
<1> DEFINE m == game.members
<1>1. Bots \notin m /\ Cardinality(m) < MAX_PLAYERS
  BY DEF seats
<1>2. Cardinality(m) \in Nat
  BY PlayersAreFinite DEF GameRecord
<1>3. (m \cup {Bots}) \ {Bots} = m
  BY <1>1
<1>4. Bots \in m \cup {Bots}
  OBVIOUS
<1> HIDE DEF m
<1>5. HasSeats(m \cup {Bots})
  <2>1. Cardinality((m \cup {Bots}) \ {Bots}) = Cardinality(m)
    BY <1>3
  <2>2. (IF Bots \in m \cup {Bots} THEN 1 ELSE 0) = 1
    BY <1>4
  <2>3. Cardinality(m) + 1 =< MAX_PLAYERS
    BY <1>1, <1>2
  <2> QED
    BY <2>1, <2>2, <2>3, Zenon DEF HasSeats
<1> QED
  BY <1>5 DEF m

LEMMA EmptyHasSeats == HasSeats({})
<1>1. {} \ {Bots} = {}
  OBVIOUS
<1> QED
  BY <1>1, FS_EmptySet, CoordinatorAssumption DEF HasSeats
-----------------------------------------------------------------------------
(* The callbacks *)

\* What is not touched stays in order.
LEMMA QueueIsQuiet ==
  ASSUME QueueOK, UNCHANGED queues, now \in Nat, now' \in Nat, now' >= now
  PROVE  QueueOK'
<1>1. ASSUME NEW i \in DOMAIN eviction_queue
      PROVE  eviction_queue[i].at \in Nat
  <2>1. eviction_queue[i] \in Entry
    BY DEF QueueOK
  <2> QED
    BY <2>1 DEF Entry
<1>2. eviction_queue' = eviction_queue /\ eviction_set' = eviction_set
  BY DEF queues
<1>3. QueuedOnce'
  BY <1>2 DEF QueueOK, QueuedOnce
<1>4. QueueInOrder'
  BY <1>1, <1>2 DEF QueueOK, QueueInOrder
<1> QED
  BY <1>2, <1>3, <1>4 DEF QueueOK

LEMMA RestIsQuiet ==
  ASSUME CInv
  PROVE  /\ UNCHANGED disk => FileOK'
         /\ UNCHANGED <<pc, locals>> => CallsOK'
         /\ UNCHANGED now => (now \in Nat)'
         /\ UNCHANGED <<queues, now>> => QueueOK'
<1>1. UNCHANGED disk => FileOK'
  BY DEF CInv, FileOK, HasSeats
<1>2. UNCHANGED <<pc, locals>> => CallsOK'
  BY DEF CInv, CallsOK, locals
<1>3. UNCHANGED <<queues, now>> => QueueOK'
  BY QueueIsQuiet DEF CInv
<1> QED
  BY <1>1, <1>2, <1>3 DEF CInv

\* One room changes, nobody leaves it, and nothing else happens.
LEMMA RoomChanges ==
  ASSUME CInv, NEW r \in DOMAIN games, NEW game \in GameRecord,
         games' = [games EXCEPT ![r] = game],
         game.online \subseteq game.members, HasSeats(game.members),
         game.updated =< now,
         UNCHANGED now
  PROVE  GamesOK' /\ DOMAIN games' = DOMAIN games
<1>1. /\ DOMAIN games' = DOMAIN games
      /\ games'[r] = game
      /\ \A q \in DOMAIN games \ {r} : games'[q] = games[q]
      /\ games' \in [DOMAIN games' -> GameRecord]
  BY DEF CInv, GamesOK
<1> QED
  BY <1>1 DEF CInv, GamesOK, HasSeats

LEMMA EnterKeepsCInv ==
  ASSUME CInv, NEW r \in Room, NEW s \in Session, enter(r, s)
  PROVE  CInv'
<1> DEFINE old  == games[r]
           game == [old EXCEPT !.members = @ \cup {s}, !.online = @ \cup {s}]
<1>1. r \in DOMAIN games /\ old \in GameRecord
  BY DEF enter, CInv, GamesOK
<1>2. /\ game \in GameRecord
      /\ game.online = old.online \cup {s} /\ game.members = old.members \cup {s}
      /\ game.updated = old.updated
  BY <1>1 DEF GameRecord, Player
<1>3. /\ game.online \subseteq game.members /\ HasSeats(game.members)
      /\ game.updated =< now
  BY <1>1, <1>2, EnterFindsSeat DEF enter, CInv, GamesOK
<1>4. games' = [games EXCEPT ![r] = game] /\ UNCHANGED <<queues, now, disk, pc, locals>>
  BY <1>1 DEF enter
<1>5. GamesOK' /\ DOMAIN games' = DOMAIN games
  BY <1>1, <1>2, <1>3, <1>4, RoomChanges
<1>6. FileOK' /\ CallsOK' /\ QueueOK' /\ (now \in Nat)'
  BY <1>4, RestIsQuiet DEF CInv
<1>7. AbandonedRoomsAreMarked'
  BY <1>1, <1>2, <1>4, <1>5 DEF CInv, AbandonedRoomsAreMarked, Abandoned, queues
<1> QED
  BY <1>5, <1>6, <1>7 DEF CInv

\* The close handler: a room that nobody is connected to afterwards is queued.
LEMMA LeaveKeepsCInv ==
  ASSUME CInv, NEW r \in Room, NEW gone, leave(r, gone)
  PROVE  CInv'
<1> DEFINE old  == games[r]
           game == [old EXCEPT !.online = @ \ gone]
<1>1. r \in DOMAIN games /\ old \in GameRecord
  BY DEF leave, CInv, GamesOK
<1>2. /\ game \in GameRecord
      /\ game.online = old.online \ gone /\ game.members = old.members
      /\ game.updated = old.updated
  BY <1>1 DEF GameRecord
<1>3. /\ game.online \subseteq game.members /\ HasSeats(game.members)
      /\ game.updated =< now
  BY <1>1, <1>2 DEF CInv, GamesOK
<1>4. games' = [games EXCEPT ![r] = game] /\ UNCHANGED <<now, disk, pc, locals>>
  BY <1>1 DEF leave
<1>5. GamesOK' /\ DOMAIN games' = DOMAIN games
  BY <1>1, <1>2, <1>3, <1>4, RoomChanges
<1>6. FileOK' /\ CallsOK' /\ (now \in Nat)'
  BY <1>4, RestIsQuiet DEF CInv
<1>7. QueueOK' /\ eviction_set \subseteq eviction_set'
  BY <1>4, QueueIsQuiet, QueueEvictionKeepsQueue DEF leave, CInv, queues
<1>8. Abandoned(games'[r]) => r \in eviction_set'
  BY <1>4, QueueEvictionKeepsQueue DEF leave, CInv
<1>9. AbandonedRoomsAreMarked'
  BY <1>1, <1>4, <1>5, <1>7, <1>8 DEF CInv, AbandonedRoomsAreMarked, Abandoned
<1> QED
  BY <1>5, <1>6, <1>7, <1>9 DEF CInv

LEMMA HandleMessageKeepsCInv ==
  ASSUME CInv, NEW r \in Room, NEW s \in Session, handleMessage(r, s)
  PROVE  CInv'
<1> DEFINE old == games[r]
<1>1. r \in DOMAIN games /\ old \in GameRecord
  BY DEF handleMessage, CInv, GamesOK
<1>2. UNCHANGED <<queues, now, disk, pc, locals>>
  BY DEF handleMessage
<1>3. PICK game \in GameRecord :
        /\ games' = [games EXCEPT ![r] = game]
        /\ old.online \subseteq game.online /\ game.online \subseteq game.members
        /\ HasSeats(game.members) /\ game.updated =< now
  <2>1. /\ now \in Nat
        /\ old.online \subseteq old.members /\ HasSeats(old.members)
    BY <1>1 DEF CInv, GamesOK
  <2>2. CASE games' = [games EXCEPT ![r].updated = now]
    <3> DEFINE game == [old EXCEPT !.updated = now]
    <3>1. games' = [games EXCEPT ![r] = game]
      BY <1>1, <2>2
    <3>2. /\ game \in GameRecord
          /\ game.online = old.online /\ game.members = old.members
          /\ game.updated = now
      BY <1>1, <2>1 DEF GameRecord
    <3>3. /\ old.online \subseteq game.online /\ game.online \subseteq game.members
          /\ HasSeats(game.members) /\ game.updated =< now
      BY <2>1, <3>2
    <3> HIDE DEF game
    <3> QED
      BY <3>1, <3>2, <3>3, Zenon
  <2>3. CASE /\ seats(games[r]) < MAX_PLAYERS
             /\ games' = [games EXCEPT ![r].members = @ \cup {Bots},
                                       ![r].online = @ \cup {Bots},
                                       ![r].updated = now]
    <3> DEFINE game == [old EXCEPT !.members = @ \cup {Bots}, !.online = @ \cup {Bots},
                                   !.updated = now]
    <3>1. games' = [games EXCEPT ![r] = game]
      BY <1>1, <2>3
    <3>2. /\ game \in GameRecord
          /\ game.online = old.online \cup {Bots} /\ game.members = old.members \cup {Bots}
          /\ game.updated = now
      BY <1>1, <2>1 DEF GameRecord, Player
    <3>3. HasSeats(old.members \cup {Bots})
      BY <1>1, <2>3, BotsFindSeat
    <3>4. /\ old.online \subseteq game.online /\ game.online \subseteq game.members
          /\ HasSeats(game.members) /\ game.updated =< now
      BY <2>1, <3>2, <3>3
    <3> HIDE DEF game
    <3> QED
      BY <3>1, <3>2, <3>4, Zenon
  <2> QED
    BY <2>2, <2>3 DEF handleMessage
<1>4. GamesOK' /\ DOMAIN games' = DOMAIN games
  BY <1>1, <1>2, <1>3, RoomChanges
<1>5. FileOK' /\ CallsOK' /\ QueueOK' /\ (now \in Nat)'
  BY <1>2, RestIsQuiet DEF CInv
<1>6. AbandonedRoomsAreMarked'
  BY <1>1, <1>2, <1>3, <1>4 DEF CInv, AbandonedRoomsAreMarked, Abandoned, queues
<1> QED
  BY <1>4, <1>5, <1>6 DEF CInv
-----------------------------------------------------------------------------
(* runEviction *)

\* A room that is evicted was due: nobody was connected to it, and it had not been
\* used since it was queued, longer ago than a room is given.
LEMMA EvictsWhenIdle ==
  ASSUME CInv, due, evicts(Head(eviction_queue))
  PROVE  LET r == Head(eviction_queue).room
         IN  /\ r \in DOMAIN games
             /\ Abandoned(games[r])
             /\ games[r].updated < now - EVICT_AFTER
<1> USE CoordinatorAssumption
<1> DEFINE entry == Head(eviction_queue)
<1>1. entry \in Entry
  BY DEF CInv, QueueOK, due
<1>2. entry.at \in Nat /\ entry.at < now - EVICT_AFTER
  BY <1>1 DEF Entry, due
<1>3. /\ entry.room \in DOMAIN games /\ Abandoned(games[entry.room])
      /\ games[entry.room].updated =< entry.at
  BY DEF evicts
<1>4. games[entry.room].updated \in Nat
  <2>1. games[entry.room] \in GameRecord
    BY <1>3 DEF CInv, GamesOK
  <2> QED
    BY <2>1 DEF GameRecord
<1> HIDE DEF entry
<1>5. games[entry.room].updated < now - EVICT_AFTER
  BY <1>2, <1>3, <1>4 DEF CInv
<1> QED
  BY <1>3, <1>5 DEF entry

LEMMA EvictionStepKeepsCInv ==
  ASSUME CInv, EvictionStep
  PROVE  CInv'
<1> DEFINE entry == Head(eviction_queue)
<1>1. /\ eviction_queue # <<>> /\ now \in Nat /\ QueueOK
      /\ UNCHANGED <<now, disk, pc, seed>>
  BY DEF EvictionStep, due, CInv
<1>2. FileOK' /\ (now \in Nat)'
  BY <1>1, RestIsQuiet
<1>3. CallsOK'
  <2>1. kills' = kills \/ kills' = kills + 1
    BY Zenon DEF EvictionStep
  <2>2. popSet' = popSet \/ popSet' = FALSE
    BY Zenon DEF EvictionStep, requeue
  <2>3. popSet' \in BOOLEAN
    BY <2>2, Zenon DEF CInv, CallsOK
  <2>4. kills' \in Nat /\ pc' = pc /\ seed' = seed
    BY <1>1, <2>1 DEF CInv, CallsOK
  <2> QED
    BY <2>3, <2>4 DEF CInv, CallsOK
<1>4. CASE /\ games' = [r \in DOMAIN games \ {entry.room} |-> games[r]]
           /\ eviction_queue' = Tail(eviction_queue)
           /\ forget(entry.room)
  <2>1. QueueOK' /\ eviction_set \ {entry.room} \subseteq eviction_set'
    BY <1>1, <1>4, PopKeepsQueue
  <2>2. /\ DOMAIN games' = DOMAIN games \ {entry.room}
        /\ \A r \in DOMAIN games' : games'[r] = games[r]
    BY <1>4
  <2>3. GamesOK'
    BY <1>1, <1>4, <2>2 DEF CInv, GamesOK, HasSeats
  <2>4. AbandonedRoomsAreMarked'
    BY <2>1, <2>2 DEF CInv, AbandonedRoomsAreMarked, Abandoned
  <2> QED
    BY <1>2, <1>3, <2>1, <2>3, <2>4 DEF CInv
<1>5. CASE requeue(entry) /\ UNCHANGED games
  <2>1. QueueOK'
    BY <1>1, <1>5, RequeueKeepsQueue
  <2>2. UNCHANGED eviction_set
    BY <1>5 DEF requeue
  <2>3. GamesOK' /\ AbandonedRoomsAreMarked'
    BY <1>1, <1>5, <2>2 DEF CInv, GamesOK, AbandonedRoomsAreMarked, Abandoned, HasSeats
  <2> QED
    BY <1>2, <1>3, <2>1, <2>3 DEF CInv
<1>6. CASE /\ entry.room \in DOMAIN games => ~Abandoned(games[entry.room])
           /\ eviction_queue' = Tail(eviction_queue)
           /\ UNCHANGED games
           /\ forget(entry.room)
  <2>1. QueueOK' /\ eviction_set \ {entry.room} \subseteq eviction_set'
    BY <1>1, <1>6, PopKeepsQueue
  <2>2. GamesOK'
    BY <1>1, <1>6 DEF CInv, GamesOK, HasSeats
  <2>3. AbandonedRoomsAreMarked'
    BY <1>6, <2>1 DEF CInv, AbandonedRoomsAreMarked, Abandoned
  <2> QED
    BY <1>2, <1>3, <2>1, <2>2, <2>3 DEF CInv
<1> QED
  BY <1>4, <1>5, <1>6 DEF EvictionStep
-----------------------------------------------------------------------------
(* createRoom, the shutdown and the next process *)

LEMMA RoomCreatedKeepsCInv ==
  ASSUME CInv, NEW id \in Room, RoomCreated(id)
  PROVE  CInv'
<1> DEFINE new == [members |-> {}, online |-> {}, updated |-> now]
<1>1. now \in Nat /\ QueueOK /\ UNCHANGED <<now, disk>> /\ returns("idle")
  BY DEF RoomCreated, CInv
<1>2. FileOK' /\ (now \in Nat)' /\ CallsOK'
  BY <1>1, RestIsQuiet DEF returns, CallsOK
<1>3. CASE UNCHANGED <<games, queues>>
  <2>1. QueueOK'
    BY <1>1, <1>3, QueueIsQuiet
  <2>2. GamesOK' /\ AbandonedRoomsAreMarked'
    BY <1>1, <1>3 DEF CInv, GamesOK, AbandonedRoomsAreMarked, Abandoned, queues, HasSeats
  <2> QED
    BY <1>2, <2>1, <2>2 DEF CInv
<1>4. CASE /\ id \notin DOMAIN games
           /\ games' = [r \in DOMAIN games \cup {id} |-> IF r = id THEN new ELSE games[r]]
           /\ queue_eviction(id)
  <2>1. QueueOK' /\ eviction_set' = eviction_set \cup {id}
    BY <1>1, <1>4, QueueEvictionKeepsQueue
  <2>2. /\ DOMAIN games' = DOMAIN games \cup {id}
        /\ games'[id] = new
        /\ \A r \in DOMAIN games : games'[r] = games[r]
    BY <1>4
  <2>3. /\ new \in GameRecord /\ new.online \subseteq new.members
        /\ HasSeats(new.members) /\ new.updated = now
    BY <1>1, EmptyHasSeats DEF GameRecord
  <2> HIDE DEF new
  <2>4. GamesOK'
    <3>1. DOMAIN games' \subseteq Room /\ games' \in [DOMAIN games' -> GameRecord]
      BY <1>4, <2>2, <2>3 DEF CInv, GamesOK
    <3>2. \A r \in DOMAIN games' : /\ games'[r].online \subseteq games'[r].members
                                  /\ HasSeats(games'[r].members)
                                  /\ games'[r].updated =< now
      BY <1>1, <2>2, <2>3 DEF CInv, GamesOK
    <3> QED
      BY <1>1, <3>1, <3>2 DEF GamesOK, HasSeats
  <2>5. AbandonedRoomsAreMarked'
    BY <2>1, <2>2 DEF CInv, AbandonedRoomsAreMarked, Abandoned
  <2> QED
    BY <1>2, <2>1, <2>4, <2>5 DEF CInv
<1> QED
  BY <1>3, <1>4 DEF RoomCreated

\* Nothing is left of the rooms and the queue of a process that has ended.
LEMMA ExitKeepsCInv ==
  ASSUME CInv, exit, UNCHANGED now, FileOK'
  PROVE  CInv'
<1>1. /\ DOMAIN games' = {} /\ games' \in [DOMAIN games' -> GameRecord]
      /\ eviction_queue' = <<>> /\ eviction_set' = {}
      /\ returns("down")
  BY DEF exit, Empty
<1>2. GamesOK' /\ AbandonedRoomsAreMarked'
  BY <1>1 DEF GamesOK, AbandonedRoomsAreMarked
<1>3. QueueOK'
  BY <1>1 DEF QueueOK, QueuedOnce, QueueInOrder
<1>4. CallsOK'
  BY <1>1 DEF CallsOK, returns
<1> QED
  BY <1>2, <1>3, <1>4 DEF CInv

\* The next process has the rooms of the file, each queued once.
LEMMA LoadKeepsCInv ==
  ASSUME CInv, load_persistence
  PROVE  CInv'
<1> DEFINE room(r) == [members |-> disk[r], online |-> {}, updated |-> now]
<1>1. now \in Nat /\ UNCHANGED <<now, disk>> /\ returns("idle") /\ FileOK
  BY DEF load_persistence, CInv
<1>2. FileOK' /\ (now \in Nat)' /\ CallsOK'
  BY <1>1, RestIsQuiet DEF returns, CallsOK
<1>3. /\ DOMAIN games' = DOMAIN disk
      /\ \A r \in DOMAIN disk : games'[r] = room(r)
      /\ games' = [r \in DOMAIN disk |-> room(r)]
  BY DEF load_persistence
<1>4. ASSUME NEW r \in DOMAIN disk
      PROVE  /\ room(r) \in GameRecord /\ room(r).online \subseteq room(r).members
             /\ room(r).members = disk[r] /\ room(r).updated = now
  BY <1>1 DEF FileOK, GameRecord
<1> HIDE DEF room
<1>5. GamesOK'
  <2>1. DOMAIN games' \subseteq Room /\ games' \in [DOMAIN games' -> GameRecord]
    BY <1>1, <1>3, <1>4 DEF FileOK
  <2>2. \A r \in DOMAIN games' : /\ games'[r].online \subseteq games'[r].members
                                /\ HasSeats(games'[r].members)
                                /\ games'[r].updated =< now
    BY <1>1, <1>3, <1>4 DEF FileOK
  <2> QED
    BY <1>1, <2>1, <2>2 DEF GamesOK, HasSeats
<1>6. QueueOK' /\ eviction_set' = DOMAIN disk
  <2>1. PICK order \in Orders(DOMAIN disk) :
          eviction_queue' = [i \in DOMAIN order |-> [at |-> now, room |-> order[i]]]
    BY DEF load_persistence
  <2>2. Cardinality(DOMAIN disk) \in Nat
    BY <1>1, CoordinatorAssumption, FS_Subset, FS_CardinalityType DEF FileOK
  <2>3. /\ DOMAIN order = 1 .. Cardinality(DOMAIN disk)
        /\ \A i \in DOMAIN order : order[i] \in DOMAIN disk
        /\ \A i, j \in DOMAIN order : order[i] = order[j] => i = j
    BY <2>1 DEF Orders
  <2>4. \A i \in DOMAIN order : [at |-> now, room |-> order[i]] \in Entry
    BY <1>1, <2>3 DEF Entry, FileOK
  <2>5. eviction_queue' \in Seq(Entry)
    BY <2>1, <2>2, <2>3, <2>4
  <2>6. eviction_set' = DOMAIN disk
    BY DEF load_persistence
  <2>7. QueuedOnce'
    BY <2>1, <2>3, <2>6 DEF QueuedOnce
  <2>8. QueueInOrder'
    BY <1>1, <2>1, <2>3 DEF QueueInOrder
  <2> QED
    BY <1>1, <2>5, <2>6, <2>7, <2>8 DEF QueueOK, FileOK
<1>7. AbandonedRoomsAreMarked'
  BY <1>3, <1>6 DEF AbandonedRoomsAreMarked
<1> QED
  BY <1>2, <1>5, <1>6, <1>7 DEF CInv

\* The clock goes on.
LEMMA TickKeepsCInv ==
  ASSUME CInv, Tick
  PROVE  CInv'
<1>1. /\ now \in Nat /\ now' = now + 1 /\ QueueOK
      /\ UNCHANGED <<games, queues, disk, pc, locals>>
  BY DEF Tick, CInv
<1>2. QueueOK'
  BY <1>1, QueueIsQuiet
<1>3. ASSUME NEW r \in DOMAIN games
      PROVE  games[r].updated =< now'
  <2>1. games[r] \in GameRecord /\ games[r].updated =< now
    BY <1>3 DEF CInv, GamesOK
  <2> QED
    BY <1>1, <2>1 DEF GameRecord
<1>4. GamesOK'
  BY <1>1, <1>3 DEF CInv, GamesOK, HasSeats
<1>5. AbandonedRoomsAreMarked'
  BY <1>1 DEF CInv, AbandonedRoomsAreMarked, Abandoned, queues
<1> QED
  BY <1>1, <1>2, <1>4, <1>5, RestIsQuiet DEF CInv
-----------------------------------------------------------------------------
(* The coordinator as a whole *)

LEMMA InitCInv == CoordinatorInit => CInv
<1> SUFFICES ASSUME CoordinatorInit PROVE CInv
  OBVIOUS
<1>1. /\ DOMAIN games = {} /\ games \in [DOMAIN games -> GameRecord]
      /\ DOMAIN disk = {} /\ disk \in [DOMAIN disk -> SUBSET Player]
      /\ eviction_queue = <<>> /\ eviction_set = {} /\ now = 0
  BY DEF CoordinatorInit, Empty
<1>2. GamesOK /\ FileOK /\ AbandonedRoomsAreMarked
  BY <1>1 DEF GamesOK, FileOK, AbandonedRoomsAreMarked
<1>3. QueueOK
  BY <1>1 DEF QueueOK, QueuedOnce, QueueInOrder
<1>4. CallsOK
  BY DEF CoordinatorInit, CallsOK
<1> QED
  BY <1>1, <1>2, <1>3, <1>4 DEF CInv

\* Steps that move control only.
LEMMA ControlKeepsCInv ==
  ASSUME CInv, UNCHANGED <<games, queues, now, disk>>, CallsOK'
  PROVE  CInv'
<1>1. QueueOK' /\ FileOK'
  BY RestIsQuiet
<1>2. GamesOK' /\ AbandonedRoomsAreMarked'
  BY DEF CInv, GamesOK, AbandonedRoomsAreMarked, Abandoned, queues, HasSeats
<1> QED
  BY <1>1, <1>2 DEF CInv

LEMMA CallbackKeepsCInv ==
  ASSUME CInv, Callback
  PROVE  CInv'
<1>1. ASSUME NEW r \in Room, NEW s \in Session, enter(r, s) \/ handleMessage(r, s)
      PROVE  CInv'
  BY <1>1, EnterKeepsCInv, HandleMessageKeepsCInv
<1>2. ASSUME NEW r \in Room, NEW gone, leave(r, gone)
      PROVE  CInv'
  BY <1>2, LeaveKeepsCInv
<1>3. ASSUME NEW s \in Room \cup {NoSeed}, createRoom(s)
      PROVE  CInv'
  <2>1. CallsOK'
    BY <1>3 DEF createRoom, CallsOK, Call
  <2>2. UNCHANGED <<games, queues, now, disk>>
    BY <1>3 DEF createRoom
  <2> QED
    BY <2>1, <2>2, ControlKeepsCInv
<1> QED
  BY <1>1, <1>2, <1>3 DEF Callback

LEMMA RunningKeepsCInv ==
  ASSUME CInv, Running
  PROVE  CInv'
<1>1. CASE RemoveFile
  <2>1. /\ UNCHANGED <<games, queues, now>> /\ CallsOK'
        /\ DOMAIN disk' = {} /\ disk' \in [DOMAIN disk' -> SUBSET Player]
    BY <1>1 DEF RemoveFile, returns, CallsOK, Empty
  <2>2. FileOK' /\ QueueOK'
    BY <2>1, RestIsQuiet DEF FileOK
  <2>3. GamesOK' /\ AbandonedRoomsAreMarked'
    BY <2>1 DEF CInv, GamesOK, AbandonedRoomsAreMarked, Abandoned, queues, HasSeats
  <2> QED
    BY <2>1, <2>2, <2>3 DEF CInv
<1>2. CASE WriteFile
  <2>1. exit /\ UNCHANGED now /\ disk' = [r \in DOMAIN games |-> games[r].members]
    BY <1>2 DEF WriteFile
  <2>2. ASSUME NEW r \in DOMAIN games
        PROVE  games[r].members \in SUBSET Player /\ HasSeats(games[r].members)
    <3>1. games[r] \in GameRecord
      BY <2>2 DEF CInv, GamesOK
    <3> QED
      BY <2>2, <3>1 DEF CInv, GamesOK, GameRecord
  <2>3. DOMAIN games \subseteq Room
    BY DEF CInv, GamesOK
  <2>4. FileOK'
    BY <2>1, <2>2, <2>3 DEF FileOK, HasSeats
  <2> QED
    BY <2>1, <2>4, ExitKeepsCInv
<1>3. CASE EvictionStep
  BY <1>3, EvictionStepKeepsCInv
<1>4. ASSUME NEW id \in Room, RoomCreated(id)
      PROVE  CInv'
  BY <1>4, RoomCreatedKeepsCInv
<1> QED
  BY <1>1, <1>2, <1>3, <1>4 DEF Running

\* CInv is inductive.
LEMMA NextKeepsCInv == CInv /\ [CoordinatorNext]_rooms => CInv'
<1> SUFFICES ASSUME CInv, [CoordinatorNext]_rooms PROVE CInv'
  OBVIOUS
<1>1. CASE Signal
  <2>1. CallsOK' /\ UNCHANGED <<games, queues, now, disk>>
    BY <1>1 DEF Signal, returns, CallsOK, Call
  <2> QED
    BY <2>1, ControlKeepsCInv
<1>2. CASE Crash
  <2>1. exit /\ UNCHANGED <<now, disk>>
    BY <1>2 DEF Crash
  <2> QED
    BY <2>1, ExitKeepsCInv, RestIsQuiet
<1>3. CASE UNCHANGED rooms
  <2>1. UNCHANGED <<games, queues, now, disk, pc, locals>>
    BY <1>3 DEF rooms
  <2> QED
    BY <2>1, ControlKeepsCInv, RestIsQuiet
<1> QED
  BY <1>1, <1>2, <1>3, CallbackKeepsCInv, RunningKeepsCInv, LoadKeepsCInv, TickKeepsCInv
    DEF CoordinatorNext
-----------------------------------------------------------------------------
(* Theorems *)

\* CInv holds at every round of runEviction, createRoom and save_to_disk, whatever the
\* sockets do, and whenever the process ends and the next one loads its rooms.
THEOREM CoordinatorIsInOrder == CoordinatorSpec => []CInv
BY InitCInv, NextKeepsCInv, PTL DEF CoordinatorSpec

\* The rooms, the queue, the file and the locals have their types, and no lobby takes
\* more players than it has seats (addPlayer).
THEOREM RoomsHaveTheirTypes == CoordinatorSpec => []CoordinatorTypeOK
<1>1. CInv => CoordinatorTypeOK
  BY DEF CInv, GamesOK, FileOK, CallsOK, QueueOK, CoordinatorTypeOK
<1> QED
  BY <1>1, CoordinatorIsInOrder, PTL

\* No room is in the queue of evictions twice (queue_eviction, createRoom and
\* runEviction, whose popSet may keep rooms in the set that are not in the queue, but
\* never the other way round).
THEOREM RoomsAreQueuedOnce == CoordinatorSpec => []QueuedOnce
<1>1. CInv => QueuedOnce
  BY DEF CInv, QueueOK
<1> QED
  BY <1>1, CoordinatorIsInOrder, PTL

\* runEviction may stop at the first entry that is not due.
THEOREM TheQueueIsInOrder == CoordinatorSpec => []QueueInOrder
<1>1. CInv => QueueInOrder
  BY DEF CInv, QueueOK
<1> QED
  BY <1>1, CoordinatorIsInOrder, PTL

\* A room that nobody is connected to is in eviction_set (createRoom, the close
\* handler, load_persistence).
THEOREM AbandonedRoomsStayMarked == CoordinatorSpec => []AbandonedRoomsAreMarked
<1>1. CInv => AbandonedRoomsAreMarked
  BY DEF CInv
<1> QED
  BY <1>1, CoordinatorIsInOrder, PTL

\* Rooms are in the memory of a process.
NoProcessNoRooms == pc = "down" => DOMAIN games = {}

LEMMA NextKeepsNoProcess == NoProcessNoRooms /\ [CoordinatorNext]_rooms => NoProcessNoRooms'
<1> SUFFICES ASSUME NoProcessNoRooms, [CoordinatorNext]_rooms, pc' = "down"
             PROVE  DOMAIN games' = {}
  BY DEF NoProcessNoRooms
<1>1. CASE WriteFile \/ Crash
  BY <1>1 DEF WriteFile, Crash, exit, Empty
<1>2. CASE Tick \/ UNCHANGED rooms
  BY <1>2 DEF Tick, rooms, NoProcessNoRooms
<1>3. ~Callback
  BY DEF Callback, enter, leave, handleMessage, createRoom
<1>4. ~EvictionStep /\ ~RemoveFile /\ ~Signal /\ ~load_persistence
  BY DEF EvictionStep, RemoveFile, Signal, load_persistence, returns, Call
<1>5. \A id \in Room : ~RoomCreated(id)
  BY DEF RoomCreated, returns
<1> QED
  BY <1>1, <1>2, <1>3, <1>4, <1>5 DEF CoordinatorNext, Running

\* Only runEviction takes rooms away from a process that lives, and only rooms that
\* nobody is connected to and that were idle for as long as a room is given.
THEOREM IdleRoomsAreEvicted == CoordinatorSpec => EvictedWhenIdle
<1> DEFINE Idle == pc' # "down" =>
                     \A r \in DOMAIN games \ DOMAIN games' :
                       Abandoned(games[r]) /\ games[r].updated < now - EVICT_AFTER
<1>1. CInv /\ NoProcessNoRooms /\ [CoordinatorNext]_rooms => [Idle]_rooms
  <2> SUFFICES ASSUME CInv, NoProcessNoRooms, CoordinatorNext, pc' # "down",
                      NEW r \in DOMAIN games \ DOMAIN games'
               PROVE  Abandoned(games[r]) /\ games[r].updated < now - EVICT_AFTER
    OBVIOUS
  <2>1. EvictionStep
    <3>1. DOMAIN games \subseteq DOMAIN games' \/ EvictionStep
                                              \/ load_persistence \/ WriteFile \/ Crash
      BY DEF CoordinatorNext, Callback, Running, enter, leave, handleMessage, createRoom,
             RoomCreated, Signal, RemoveFile, Tick
    <3>2. ~WriteFile /\ ~Crash
      BY DEF WriteFile, Crash, exit, returns
    <3>3. ~load_persistence
      BY DEF load_persistence, NoProcessNoRooms
    <3> QED
      BY <3>1, <3>2, <3>3
  <2>2. due /\ evicts(Head(eviction_queue)) /\ r = Head(eviction_queue).room
    BY <2>1 DEF EvictionStep
  <2> QED
    BY <2>2, EvictsWhenIdle
<1>2. CoordinatorInit => NoProcessNoRooms
  BY DEF CoordinatorInit, NoProcessNoRooms
<1> QED
  BY <1>1, <1>2, NextKeepsNoProcess, CoordinatorIsInOrder, PTL DEF CoordinatorSpec, EvictedWhenIdle
=============================================================================
