---------------------------- MODULE ServerProofs -----------------------------
(***************************************************************************)
(* The sockets, proved for any number of sockets, people and rooms: what   *)
(* the server does to the rooms is what GameCoordinator allows, so all     *)
(* that CoordinatorProofs proves holds of the server; and who counts as    *)
(* connected has a socket, and the other way round but for the redirects.  *)
(* To the sockets a room is who counts as connected to it: few steps       *)
(* change that, and the rest of the rooms' state is not looked at.         *)
(***************************************************************************)
EXTENDS GameServer, CoordinatorProofs

\* A socket with a session that is neither a duplicate nor playing was redirected,
\* or is about to be, or the process is about to end.
Waits(c) ==
  /\ ~sockets[c].dedupe_conns /\ ~sockets[c].subscribed
  /\ sockets[c].session # NoSession

SocketsOK ==
  /\ DOMAIN sockets \subseteq Conn /\ sockets \in [DOMAIN sockets -> Socket]
  /\ redirected \subseteq Session \X Room
  /\ asker \in Conn \cup {NoConn}
  /\ asker \in Conn => pc = "createRoom" /\ asker \in DOMAIN sockets /\ Waits(asker)
  /\ pc = "down" => DOMAIN sockets = {}
  /\ \A c \in DOMAIN sockets :
       sockets[c].subscribed => ~sockets[c].dedupe_conns /\ sockets[c].session # NoSession

WhoWaits ==
  \A c \in DOMAIN sockets : Waits(c) =>
    \/ <<sockets[c].session, sockets[c].room>> \in redirected
    \/ c = asker
    \/ pc \in {"save_to_disk", "ofstream"}

\* No second socket but a duplicate names the room and the session of one that plays.
PlaysAlone ==
  \A c, d \in DOMAIN sockets :
    /\ sockets[c].subscribed
    /\ ~sockets[d].dedupe_conns
    /\ sockets[c].session = sockets[d].session /\ sockets[c].room = sockets[d].room
    => c = d \/ <<sockets[c].session, sockets[c].room>> \in redirected

NoGhostsHere == \A r \in Room, s \in Session :
                  isPlayerConnected(r, s) => \E c \in DOMAIN sockets : Serves(c, s, r)
ServedHere == \A c \in DOMAIN sockets : sockets[c].subscribed =>
                 \/ isPlayerConnected(sockets[c].room, sockets[c].session)
                 \/ <<sockets[c].session, sockets[c].room>> \in redirected

SInv == SocketsOK /\ WhoWaits /\ PlaysAlone /\ NoGhostsHere /\ ServedHere
-----------------------------------------------------------------------------
(* The server is a coordinator *)

LEMMA ConnectIsCallback ==
  ASSUME NEW c, NEW s \in Session, NEW r \in Room, connectNewPlayer(c, s, r)
  PROVE  Callback
BY DEF connectNewPlayer, Callback

LEMMA AdmitIsCallback ==
  ASSUME NEW c, NEW s \in Session, NEW r \in Room, admit(c, s, r)
  PROVE  Callback \/ UNCHANGED rooms
BY ConnectIsCallback DEF admit

\* Whatever the server does to its rooms, the coordinator can do.
LEMMA ServerNextIsCoordinatorNext ==
  ASSUME SocketsOK, [ServerNext]_<<rooms, server>>
  PROVE  [CoordinatorNext]_rooms
<1>1. ASSUME NEW c \in Conn, NEW s \in Session \cup {NoSession}, NEW r \in Room, open(c, s, r)
      PROVE  [CoordinatorNext]_rooms
  BY <1>1, AdmitIsCallback DEF open, CoordinatorNext
<1>2. ASSUME NEW c \in Conn, c \in DOMAIN sockets
      PROVE  sockets[c].room \in Room /\ sockets[c].session \in Session \cup {NoSession}
  <2>1. sockets[c] \in Socket
    BY <1>2 DEF SocketsOK
  <2> QED
    BY <2>1 DEF Socket
<1>3. ASSUME NEW c \in Conn, NEW s \in Session, cookie(c, s)
      PROVE  [CoordinatorNext]_rooms
  BY <1>2, <1>3, AdmitIsCallback DEF cookie, CoordinatorNext
<1>4. ASSUME NEW c \in Conn, message(c)
      PROVE  [CoordinatorNext]_rooms
  BY <1>2, <1>4 DEF message, CoordinatorNext, Callback
<1>5. ASSUME NEW c \in Conn, close(c)
      PROVE  [CoordinatorNext]_rooms
  <2>1. CASE UNCHANGED rooms
    BY <2>1
  <2>2. CASE leave(sockets[c].room, {sockets[c].session} \cap Session)
    <3>1. sockets[c].room \in Room
      BY <1>2, <1>5 DEF close
    <3>2. {sockets[c].session} \cap Session \in {{}} \cup {{s} : s \in Session}
      OBVIOUS
    <3> QED
      BY <2>2, <3>1, <3>2 DEF CoordinatorNext, Callback
  <2> QED
    BY <1>5, <2>1, <2>2 DEF close
<1>6. ASSUME create \/ (\E id \in Room : answer(id)) \/ terminate \/ exits \/ goesOn
      PROVE  [CoordinatorNext]_rooms
  BY <1>6 DEF create, answer, terminate, exits, goesOn, CoordinatorNext, Callback, Running
<1>7. CASE UNCHANGED <<rooms, server>>
  BY <1>7
<1> QED
  BY <1>1, <1>3, <1>4, <1>5, <1>6, <1>7 DEF ServerNext
-----------------------------------------------------------------------------
(* Who counts as connected *)

LEMMA EnterConnects ==
  ASSUME CInv, NEW r \in Room, NEW s \in Session, enter(r, s)
  PROVE  \A q \in Room, t \in Session :
           isPlayerConnected(q, t)' <=> isPlayerConnected(q, t) \/ (q = r /\ t = s)
<1>1. /\ r \in DOMAIN games
      /\ games' = [games EXCEPT ![r].members = @ \cup {s}, ![r].online = @ \cup {s}]
  BY DEF enter
<1>2. games[r] \in GameRecord
  BY <1>1 DEF CInv, GamesOK
<1>3. /\ DOMAIN games' = DOMAIN games
      /\ games'[r].online = games[r].online \cup {s}
      /\ \A q \in DOMAIN games \ {r} : games'[q] = games[q]
  BY <1>1, <1>2 DEF GameRecord
<1> QED
  BY <1>1, <1>3 DEF isPlayerConnected

LEMMA LeaveDisconnects ==
  ASSUME CInv, NEW r \in Room, NEW gone, leave(r, gone)
  PROVE  \A q \in Room, t \in Session :
           isPlayerConnected(q, t)' <=> isPlayerConnected(q, t) /\ ~(q = r /\ t \in gone)
<1>1. r \in DOMAIN games /\ games' = [games EXCEPT ![r].online = @ \ gone]
  BY DEF leave
<1>2. games[r] \in GameRecord
  BY <1>1 DEF CInv, GamesOK
<1>3. /\ DOMAIN games' = DOMAIN games
      /\ games'[r].online = games[r].online \ gone
      /\ \A q \in DOMAIN games \ {r} : games'[q] = games[q]
  BY <1>1, <1>2 DEF GameRecord
<1> QED
  BY <1>1, <1>3 DEF isPlayerConnected

\* A request seats bots at most.
LEMMA MessagesConnectNobody ==
  ASSUME CInv, NEW r \in Room, NEW s, handleMessage(r, s)
  PROVE  \A q \in Room, t \in Session : isPlayerConnected(q, t)' <=> isPlayerConnected(q, t)
<1>1. /\ r \in DOMAIN games
      /\ \/ games' = [games EXCEPT ![r].updated = now]
         \/ games' = [games EXCEPT ![r].members = @ \cup {Bots},
                                   ![r].online = @ \cup {Bots},
                                   ![r].updated = now]
  BY DEF handleMessage
<1>2. games[r] \in GameRecord
  BY <1>1 DEF CInv, GamesOK
<1>3. /\ DOMAIN games' = DOMAIN games
      /\ games'[r].online \in {games[r].online, games[r].online \cup {Bots}}
      /\ \A q \in DOMAIN games \ {r} : games'[q] = games[q]
  BY <1>1, <1>2 DEF GameRecord
<1> QED
  BY <1>1, <1>3, CoordinatorAssumption DEF isPlayerConnected

\* Nobody was connected to a room that is evicted, and nobody is to a new one.
LEMMA EvictionDisconnectsNobody ==
  ASSUME EvictionStep
  PROVE  \A q \in Room, t \in Session : isPlayerConnected(q, t)' <=> isPlayerConnected(q, t)
<1>1. \/ UNCHANGED games
      \/ \E r : /\ r \in DOMAIN games /\ Abandoned(games[r])
               /\ games' = [q \in DOMAIN games \ {r} |-> games[q]]
  BY DEF EvictionStep, evicts
<1>2. CASE UNCHANGED games
  BY <1>2 DEF isPlayerConnected
<1>3. ASSUME NEW r, r \in DOMAIN games, Abandoned(games[r]),
             games' = [q \in DOMAIN games \ {r} |-> games[q]]
      PROVE  \A q \in Room, t \in Session :
               isPlayerConnected(q, t)' <=> isPlayerConnected(q, t)
  BY <1>3 DEF isPlayerConnected, Abandoned
<1> QED
  BY <1>1, <1>2, <1>3

LEMMA CreationConnectsNobody ==
  ASSUME NEW id, RoomCreated(id)
  PROVE  \A q \in Room, t \in Session : isPlayerConnected(q, t)' <=> isPlayerConnected(q, t)
BY DEF RoomCreated, isPlayerConnected

\* Nobody is connected to a process that just ended, or just started.
LEMMA NobodyIsConnected ==
  ASSUME exit \/ load_persistence
  PROVE  \A q \in Room, t \in Session : ~isPlayerConnected(q, t)'
BY DEF exit, Empty, load_persistence, isPlayerConnected
-----------------------------------------------------------------------------
(* What happens to the sockets *)

\* Steps that touch neither the sockets nor who is connected.
LEMMA QuietKeepsSInv ==
  ASSUME SInv, UNCHANGED server,
         \A q \in Room, t \in Session : isPlayerConnected(q, t)' <=> isPlayerConnected(q, t),
         asker \in Conn => pc' = pc,
         pc' = "down" => pc = "down",
         pc \in {"save_to_disk", "ofstream"} => pc' \in {"save_to_disk", "ofstream"}
  PROVE  SInv'
<1>1. UNCHANGED <<sockets, asker, redirected>>
  BY DEF server
<1>2. ASSUME NEW c \in DOMAIN sockets
      PROVE  /\ sockets[c].room \in Room
             /\ sockets[c].subscribed => sockets[c].session \in Session
  <2>1. sockets[c] \in Socket
    BY <1>2 DEF SInv, SocketsOK
  <2> QED
    BY <1>2, <2>1 DEF SInv, SocketsOK, Socket
<1>3. SocketsOK'
  BY <1>1 DEF SInv, SocketsOK, Waits
<1>4. WhoWaits' /\ PlaysAlone'
  BY <1>1 DEF SInv, WhoWaits, PlaysAlone, Waits
<1>5. NoGhostsHere'
  BY <1>1 DEF SInv, NoGhostsHere, Serves
<1>6. ServedHere'
  BY <1>1, <1>2 DEF SInv, ServedHere
<1> QED
  BY <1>3, <1>4, <1>5, <1>6 DEF SInv

\* A socket that the server does not know yet, or that it asked for its cookie.
Nobody(c) == c \notin DOMAIN sockets \/ sockets[c].session = NoSession

LEMMA SocketIsPut ==
  ASSUME SocketsOK, NEW c \in Conn, NEW new \in Socket,
         sockets' = [d \in DOMAIN sockets \cup {c} |-> IF d = c THEN new ELSE sockets[d]]
  PROVE  /\ DOMAIN sockets' = DOMAIN sockets \cup {c}
         /\ DOMAIN sockets' \subseteq Conn /\ sockets' \in [DOMAIN sockets' -> Socket]
         /\ sockets'[c] = new
         /\ \A d \in DOMAIN sockets \ {c} : sockets'[d] = sockets[d]
BY DEF SocketsOK

\* What there is when a callback runs.
LEMMA NobodyAsks ==
  ASSUME SocketsOK, pc = "idle"
  PROVE  asker = NoConn
BY DEF SocketsOK

\* A socket that does not play yet and is not sent anywhere is put on the list: a
\* duplicate, or one that is asked for its cookie.
LEMMA BystandersKeepSInv ==
  ASSUME SInv, NEW c \in Conn, Nobody(c), pc = "idle",
         NEW s \in Session \cup {NoSession}, NEW r \in Room, NEW dedupe \in BOOLEAN,
         dedupe \/ s = NoSession,
         userData(c, s, r, dedupe, FALSE),
         UNCHANGED <<rooms, asker, redirected>>
  PROVE  SInv'
<1> DEFINE new == [session |-> s, room |-> r, dedupe_conns |-> dedupe, subscribed |-> FALSE]
<1>1. new \in Socket
  BY DEF Socket
<1>2. /\ new.session = s /\ new.room = r /\ ~new.subscribed
      /\ new.dedupe_conns \/ new.session = NoSession
  OBVIOUS
<1>3. sockets' = [d \in DOMAIN sockets \cup {c} |-> IF d = c THEN new ELSE sockets[d]]
  BY DEF userData
<1> HIDE DEF new
<1>4. /\ DOMAIN sockets' = DOMAIN sockets \cup {c}
      /\ DOMAIN sockets' \subseteq Conn /\ sockets' \in [DOMAIN sockets' -> Socket]
      /\ sockets'[c] = new
      /\ \A d \in DOMAIN sockets \ {c} : sockets'[d] = sockets[d]
  BY <1>1, <1>3, SocketIsPut DEF SInv
<1>5. /\ asker' = asker /\ redirected' = redirected /\ pc' = pc
      /\ \A q, t : isPlayerConnected(q, t)' <=> isPlayerConnected(q, t)
  <2>1. games' = games /\ pc' = pc
    BY DEF rooms
  <2> QED
    BY <2>1 DEF isPlayerConnected
<1>6. asker = NoConn /\ NoConn \notin Conn /\ NoSession \notin Session
  BY NobodyAsks, ServerAssumption DEF SInv, Player
<1>7. SocketsOK'
  BY <1>2, <1>4, <1>5, <1>6 DEF SInv, SocketsOK
<1>8. WhoWaits'
  BY <1>2, <1>4, <1>5, <1>6 DEF SInv, WhoWaits, Waits
<1>9. PlaysAlone'
  BY <1>2, <1>4, <1>5, <1>6 DEF SInv, PlaysAlone, SocketsOK
<1>10. NoGhostsHere'
  BY <1>2, <1>4, <1>5, <1>6 DEF SInv, NoGhostsHere, Serves, Nobody, SocketsOK
<1>11. ServedHere'
  BY <1>2, <1>4, <1>5, <1>6 DEF SInv, ServedHere
<1> QED
  BY <1>7, <1>8, <1>9, <1>10, <1>11 DEF SInv

\* A socket is let in.  A socket that plays already, or may, was sent here.
LEMMA WelcomeKeepsSInv ==
  ASSUME SInv, CInv, NEW c \in Conn, Nobody(c), NEW s \in Session, NEW r \in Room,
         ~isPlayerConnected(r, s),
         enter(r, s), userData(c, s, r, FALSE, TRUE),
         UNCHANGED <<asker, redirected>>
  PROVE  SInv'
<1> DEFINE new == [session |-> s, room |-> r, dedupe_conns |-> FALSE, subscribed |-> TRUE]
<1>1. new \in Socket
  BY DEF Socket
<1>2. /\ new.session = s /\ new.room = r /\ new.subscribed /\ ~new.dedupe_conns
  OBVIOUS
<1>3. sockets' = [d \in DOMAIN sockets \cup {c} |-> IF d = c THEN new ELSE sockets[d]]
  BY DEF userData
<1> HIDE DEF new
<1>4. /\ DOMAIN sockets' = DOMAIN sockets \cup {c}
      /\ DOMAIN sockets' \subseteq Conn /\ sockets' \in [DOMAIN sockets' -> Socket]
      /\ sockets'[c] = new
      /\ \A d \in DOMAIN sockets \ {c} : sockets'[d] = sockets[d]
  BY <1>1, <1>3, SocketIsPut DEF SInv
<1>5. \A q \in Room, t \in Session :
        isPlayerConnected(q, t)' <=> isPlayerConnected(q, t) \/ (q = r /\ t = s)
  BY EnterConnects
<1>6. pc = "idle" /\ pc' = "idle" /\ asker' = asker /\ redirected' = redirected
  BY DEF enter
<1>7. asker = NoConn /\ NoConn \notin Conn /\ NoSession \notin Session
  BY <1>6, NobodyAsks, ServerAssumption DEF SInv, Player
<1>8. \A d \in DOMAIN sockets : d # c \/ (~sockets[d].subscribed /\ ~Waits(d))
  BY <1>7 DEF SInv, SocketsOK, Nobody, Waits
<1>9. \A d \in DOMAIN sockets :
        /\ sockets[d].session \in Session \cup {NoSession} /\ sockets[d].room \in Room
        /\ sockets[d].subscribed => sockets[d].session \in Session
  BY DEF SInv, SocketsOK, Socket
<1>10. \A d \in DOMAIN sockets :
         /\ ~sockets[d].dedupe_conns
         /\ sockets[d].session = s /\ sockets[d].room = r
         => <<s, r>> \in redirected
  <2> SUFFICES ASSUME NEW d \in DOMAIN sockets, ~sockets[d].dedupe_conns,
                      sockets[d].session = s, sockets[d].room = r
               PROVE  <<s, r>> \in redirected
    OBVIOUS
  <2>1. CASE sockets[d].subscribed
    BY <2>1 DEF SInv, ServedHere
  <2>2. CASE ~sockets[d].subscribed
    <3>1. Waits(d)
      BY <1>7, <2>2 DEF Waits
    <3>2. d # asker
      BY <1>7 DEF SInv, SocketsOK
    <3> QED
      BY <1>6, <3>1, <3>2 DEF SInv, WhoWaits
  <2> QED
    BY <2>1, <2>2
<1>11. SocketsOK'
  BY <1>2, <1>4, <1>6, <1>7 DEF SInv, SocketsOK
<1>12. WhoWaits'
  BY <1>2, <1>4, <1>6, <1>7 DEF SInv, WhoWaits, Waits
<1>13. PlaysAlone'
  <2> SUFFICES ASSUME NEW x \in DOMAIN sockets', NEW d \in DOMAIN sockets',
                      sockets'[x].subscribed, ~sockets'[d].dedupe_conns,
                      sockets'[x].session = sockets'[d].session,
                      sockets'[x].room = sockets'[d].room, x # d
               PROVE  <<sockets'[x].session, sockets'[x].room>> \in redirected'
    BY DEF PlaysAlone
  <2>1. CASE x = c
    BY <1>2, <1>4, <1>6, <1>10, <2>1
  <2>2. CASE d = c
    BY <1>2, <1>4, <1>6, <1>10, <1>11, <2>2 DEF SocketsOK
  <2>3. CASE x # c /\ d # c
    BY <1>4, <1>6, <2>3 DEF SInv, PlaysAlone
  <2> QED
    BY <2>1, <2>2, <2>3
<1>14. NoGhostsHere'
  BY <1>2, <1>4, <1>5, <1>8 DEF SInv, NoGhostsHere, Serves
<1>15. ServedHere'
  BY <1>2, <1>4, <1>5, <1>6, <1>9 DEF SInv, ServedHere
<1> QED
  BY <1>11, <1>12, <1>13, <1>14, <1>15 DEF SInv

\* A room is created for a socket, which waits for it.
LEMMA AskingKeepsSInv ==
  ASSUME SInv, NEW c \in Conn, Nobody(c), NEW s \in Session, NEW r \in Room,
         r \notin DOMAIN games,
         createRoom(r), userData(c, s, r, FALSE, FALSE),
         asker' = c, UNCHANGED redirected
  PROVE  SInv'
<1> DEFINE new == [session |-> s, room |-> r, dedupe_conns |-> FALSE, subscribed |-> FALSE]
<1>1. new \in Socket
  BY DEF Socket
<1>2. /\ new.session = s /\ new.room = r /\ ~new.subscribed /\ ~new.dedupe_conns
  OBVIOUS
<1>3. sockets' = [d \in DOMAIN sockets \cup {c} |-> IF d = c THEN new ELSE sockets[d]]
  BY DEF userData
<1> HIDE DEF new
<1>4. /\ DOMAIN sockets' = DOMAIN sockets \cup {c}
      /\ DOMAIN sockets' \subseteq Conn /\ sockets' \in [DOMAIN sockets' -> Socket]
      /\ sockets'[c] = new
      /\ \A d \in DOMAIN sockets \ {c} : sockets'[d] = sockets[d]
  BY <1>1, <1>3, SocketIsPut DEF SInv
<1>5. \A q, t : isPlayerConnected(q, t)' <=> isPlayerConnected(q, t)
  <2>1. games' = games
    BY DEF createRoom
  <2> QED
    BY <2>1 DEF isPlayerConnected
<1>6. pc = "idle" /\ pc' = "createRoom" /\ asker' = c /\ redirected' = redirected
  BY DEF createRoom
<1>7. asker = NoConn /\ NoConn \notin Conn /\ NoSession \notin Session
  BY <1>6, NobodyAsks, ServerAssumption DEF SInv, Player
<1>8. \A d \in DOMAIN sockets : d # c \/ ~sockets[d].subscribed
  BY <1>7 DEF SInv, SocketsOK, Nobody
<1>9. \A d \in DOMAIN sockets : sockets[d].subscribed =>
        \/ ~(sockets[d].session = s /\ sockets[d].room = r)
        \/ <<s, r>> \in redirected
  BY DEF SInv, ServedHere, isPlayerConnected
<1>10. SocketsOK'
  BY <1>2, <1>4, <1>6, <1>7 DEF SInv, SocketsOK, Waits
<1>11. WhoWaits'
  BY <1>2, <1>4, <1>6, <1>7 DEF SInv, WhoWaits, Waits, SocketsOK
<1>12. PlaysAlone'
  <2> SUFFICES ASSUME NEW x \in DOMAIN sockets', NEW d \in DOMAIN sockets',
                      sockets'[x].subscribed, ~sockets'[d].dedupe_conns,
                      sockets'[x].session = sockets'[d].session,
                      sockets'[x].room = sockets'[d].room, x # d
               PROVE  <<sockets'[x].session, sockets'[x].room>> \in redirected'
    BY DEF PlaysAlone
  <2>1. x # c
    BY <1>2, <1>4
  <2>2. CASE d = c
    BY <1>2, <1>4, <1>6, <1>9, <2>1, <2>2
  <2>3. CASE d # c
    BY <1>4, <1>6, <2>1, <2>3 DEF SInv, PlaysAlone
  <2> QED
    BY <2>2, <2>3
<1>13. NoGhostsHere'
  BY <1>2, <1>4, <1>5, <1>8 DEF SInv, NoGhostsHere, Serves
<1>14. ServedHere'
  BY <1>2, <1>4, <1>5, <1>6 DEF SInv, ServedHere
<1> QED
  BY <1>10, <1>11, <1>12, <1>13, <1>14 DEF SInv

\* A socket is gone, and with it the player who played on it.
LEMMA HangUpKeepsSInv ==
  ASSUME SInv, NEW c, pc = "idle", pc' = "idle", hangUp(c), UNCHANGED <<asker, redirected>>,
         \A q \in Room, t \in Session :
           isPlayerConnected(q, t)' => isPlayerConnected(q, t) /\ ~Serves(c, t, q),
         \A d \in DOMAIN sockets \ {c}, q \in Room, t \in Session :
           Serves(d, t, q) => isPlayerConnected(q, t)' \/ <<t, q>> \in redirected
  PROVE  SInv'
<1>1. /\ DOMAIN sockets' = DOMAIN sockets \ {c}
      /\ \A d \in DOMAIN sockets' : sockets'[d] = sockets[d]
  BY DEF hangUp
<1>2. sockets' \in [DOMAIN sockets' -> Socket]
  BY <1>1 DEF hangUp, SInv, SocketsOK
<1>3. asker = NoConn /\ asker' = NoConn /\ redirected' = redirected /\ NoConn \notin Conn
  BY NobodyAsks, ServerAssumption DEF SInv
<1>4. SocketsOK'
  BY <1>1, <1>2, <1>3 DEF SInv, SocketsOK
<1>5. WhoWaits'
  BY <1>1, <1>3 DEF SInv, WhoWaits, Waits
<1>6. PlaysAlone'
  BY <1>1, <1>3 DEF SInv, PlaysAlone
<1>7. NoGhostsHere'
  BY <1>1 DEF SInv, NoGhostsHere, Serves
<1>8. ServedHere'
  <2> SUFFICES ASSUME NEW d \in DOMAIN sockets', sockets'[d].subscribed
               PROVE  \/ isPlayerConnected(sockets[d].room, sockets[d].session)'
                      \/ <<sockets'[d].session, sockets'[d].room>> \in redirected'
    BY DEF ServedHere
  <2>1. /\ sockets'[d].room \in Room /\ sockets'[d].session \in Session
        /\ Serves(d, sockets'[d].session, sockets'[d].room)
    BY <1>1 DEF SInv, SocketsOK, Socket, Serves
  <2> QED
    BY <1>1, <1>3, <2>1
<1> QED
  BY <1>4, <1>5, <1>6, <1>7, <1>8 DEF SInv

LEMMA AdmitKeepsSInv ==
  ASSUME SInv, CInv, NEW c \in Conn, Nobody(c), NEW s \in Session, NEW r \in Room,
         admit(c, s, r)
  PROVE  SInv'
<1>1. CASE isPlayerConnected(r, s)
  <2>1. pc = "idle" /\ userData(c, s, r, TRUE, FALSE) /\ UNCHANGED <<rooms, asker, redirected>>
    BY <1>1 DEF admit
  <2> QED
    BY <2>1, BystandersKeepSInv
<1>2. CASE ~isPlayerConnected(r, s)
  <2>1. connectNewPlayer(c, s, r)
    BY <1>2 DEF admit
  <2>2. CASE enter(r, s) /\ userData(c, s, r, FALSE, TRUE) /\ UNCHANGED <<asker, redirected>>
    BY <1>2, <2>2, WelcomeKeepsSInv
  <2>3. CASE leave(r, {s}) /\ hangUp(c) /\ UNCHANGED <<asker, redirected>>
    <3>1. \A q \in Room, t \in Session : isPlayerConnected(q, t)' <=> isPlayerConnected(q, t)
      BY <1>2, <2>3, LeaveDisconnects
    <3>2. pc = "idle" /\ pc' = "idle"
      BY <2>3 DEF leave
    <3>3. \A q \in Room, t \in Session : ~Serves(c, t, q)
      BY ServerAssumption DEF Nobody, Serves, Player
    <3>4. \A d \in DOMAIN sockets \ {c}, q \in Room, t \in Session :
            Serves(d, t, q) => isPlayerConnected(q, t)' \/ <<t, q>> \in redirected
      BY <3>1 DEF SInv, ServedHere, Serves
    <3> QED
      BY <2>3, <3>1, <3>2, <3>3, <3>4, HangUpKeepsSInv
  <2>4. CASE /\ r \notin DOMAIN games /\ createRoom(r)
             /\ userData(c, s, r, FALSE, FALSE) /\ asker' = c /\ UNCHANGED redirected
    BY <2>4, AskingKeepsSInv
  <2> QED
    BY <2>1, <2>2, <2>3, <2>4 DEF connectNewPlayer
<1> QED
  BY <1>1, <1>2

LEMMA OpenKeepsSInv ==
  ASSUME SInv, CInv, NEW c \in Conn, NEW s \in Session \cup {NoSession}, NEW r \in Room,
         open(c, s, r)
  PROVE  SInv'
<1>1. Nobody(c)
  BY DEF open, Nobody
<1>2. CASE s # NoSession
  BY <1>1, <1>2, AdmitKeepsSInv DEF open
<1>3. CASE s = NoSession
  <2>1. pc = "idle" /\ userData(c, s, r, FALSE, FALSE) /\ UNCHANGED <<rooms, asker, redirected>>
    BY <1>3 DEF open
  <2> QED
    BY <1>1, <1>3, <2>1, BystandersKeepSInv
<1> QED
  BY <1>2, <1>3

LEMMA SocketsAreTyped ==
  ASSUME SInv, NEW c \in DOMAIN sockets
  PROVE  sockets[c].room \in Room /\ sockets[c].session \in Session \cup {NoSession}
BY DEF SInv, SocketsOK, Socket

LEMMA CookieKeepsSInv ==
  ASSUME SInv, CInv, NEW c \in Conn, NEW s \in Session, cookie(c, s)
  PROVE  SInv'
<1>1. Nobody(c) /\ admit(c, s, sockets[c].room) /\ c \in DOMAIN sockets
  BY DEF cookie, Nobody
<1> QED
  BY <1>1, SocketsAreTyped, AdmitKeepsSInv

LEMMA MessageKeepsSInv ==
  ASSUME SInv, CInv, NEW c \in Conn, message(c)
  PROVE  SInv'
<1>1. /\ c \in DOMAIN sockets /\ UNCHANGED server
      /\ handleMessage(sockets[c].room, sockets[c].session)
  BY DEF message
<1>2. \A q \in Room, t \in Session : isPlayerConnected(q, t)' <=> isPlayerConnected(q, t)
  BY <1>1, SocketsAreTyped, MessagesConnectNobody
<1>3. pc = "idle" /\ pc' = "idle"
  BY <1>1 DEF handleMessage
<1> QED
  BY <1>1, <1>2, <1>3, QuietKeepsSInv DEF SInv, SocketsOK

\* The player of the socket leaves the room; who else plays there has been sent here.
LEMMA CloseKeepsSInv ==
  ASSUME SInv, CInv, NEW c \in Conn, close(c)
  PROVE  SInv'
<1> DEFINE r == sockets[c].room
           s == sockets[c].session
<1>1. /\ c \in DOMAIN sockets /\ pc = "idle" /\ hangUp(c) /\ UNCHANGED <<asker, redirected>>
      /\ \/ (sockets[c].dedupe_conns \/ r \notin DOMAIN games) /\ UNCHANGED rooms
         \/ ~sockets[c].dedupe_conns /\ leave(r, {s} \cap Session)
  BY DEF close
<1>2. r \in Room
  BY <1>1, SocketsAreTyped
<1>3. sockets[c].subscribed => ~sockets[c].dedupe_conns
  BY <1>1 DEF SInv, SocketsOK
<1>4. CASE (sockets[c].dedupe_conns \/ r \notin DOMAIN games) /\ UNCHANGED rooms
  <2>1. games' = games /\ pc' = pc
    BY <1>4 DEF rooms
  <2>2. \A q, t : isPlayerConnected(q, t)' <=> isPlayerConnected(q, t)
    BY <2>1 DEF isPlayerConnected
  <2>3. \A q \in Room, t \in Session : isPlayerConnected(q, t) => ~Serves(c, t, q)
    BY <1>1, <1>3, <1>4 DEF isPlayerConnected, Serves
  <2>4. \A d \in DOMAIN sockets \ {c}, q \in Room, t \in Session :
          Serves(d, t, q) => isPlayerConnected(q, t)' \/ <<t, q>> \in redirected
    BY <2>2 DEF SInv, ServedHere, Serves
  <2> QED
    BY <1>1, <2>1, <2>2, <2>3, <2>4, HangUpKeepsSInv
<1>5. CASE ~sockets[c].dedupe_conns /\ leave(r, {s} \cap Session)
  <2>1. \A q \in Room, t \in Session :
          isPlayerConnected(q, t)' <=> isPlayerConnected(q, t) /\ ~(q = r /\ t = s)
    <3>1. \A q \in Room, t \in Session :
            isPlayerConnected(q, t)'
              <=> isPlayerConnected(q, t) /\ ~(q = r /\ t \in {s} \cap Session)
      BY <1>2, <1>5, LeaveDisconnects
    <3> QED
      BY <3>1
  <2>2. pc' = "idle"
    BY <1>1, <1>5 DEF leave
  <2>3. \A d \in DOMAIN sockets \ {c}, q \in Room, t \in Session :
          Serves(d, t, q) => isPlayerConnected(q, t)' \/ <<t, q>> \in redirected
    <3> SUFFICES ASSUME NEW d \in DOMAIN sockets \ {c}, NEW q \in Room, NEW t \in Session,
                        Serves(d, t, q), <<t, q>> \notin redirected
                 PROVE  isPlayerConnected(q, t)'
      OBVIOUS
    <3>1. isPlayerConnected(q, t)
      BY DEF SInv, ServedHere, Serves
    <3>2. ~(q = r /\ t = s)
      BY <1>1, <1>5 DEF SInv, PlaysAlone, Serves
    <3> QED
      BY <2>1, <3>1, <3>2
  <2>4. \A q \in Room, t \in Session :
          isPlayerConnected(q, t)' => isPlayerConnected(q, t) /\ ~Serves(c, t, q)
    BY <2>1 DEF Serves
  <2> QED
    BY <1>1, <2>2, <2>3, <2>4, HangUpKeepsSInv
<1> QED
  BY <1>1, <1>4, <1>5
-----------------------------------------------------------------------------
(* createRoom, the shutdown and the next process *)

LEMMA CreateKeepsSInv ==
  ASSUME SInv, create
  PROVE  SInv'
<1>1. createRoom(NoSeed) /\ asker' = NoConn /\ UNCHANGED <<sockets, redirected>>
  BY DEF create
<1>2. pc = "idle" /\ pc' = "createRoom" /\ games' = games
  BY <1>1 DEF createRoom
<1>3. asker = NoConn /\ NoConn \notin Conn
  BY <1>2, NobodyAsks, ServerAssumption DEF SInv
<1>4. UNCHANGED server
  BY <1>1, <1>3 DEF server
<1>5. \A q, t : isPlayerConnected(q, t)' <=> isPlayerConnected(q, t)
  BY <1>2 DEF isPlayerConnected
<1> QED
  BY <1>2, <1>3, <1>4, <1>5, QuietKeepsSInv

\* Who waited is sent to the room.
LEMMA AnswerKeepsSInv ==
  ASSUME SInv, NEW id \in Room, answer(id)
  PROVE  SInv'
<1>1. pc = "createRoom" /\ pc' = "idle" /\ asker' = NoConn /\ NoConn \notin Conn
  BY ServerAssumption DEF answer, RoomCreated, returns
<1>2. \A q \in Room, t \in Session : isPlayerConnected(q, t)' <=> isPlayerConnected(q, t)
  BY CreationConnectsNobody DEF answer
<1>3. CASE asker = NoConn
  <2>1. UNCHANGED server
    BY <1>1, <1>3 DEF answer, server
  <2> QED
    BY <1>1, <1>2, <1>3, <2>1, QuietKeepsSInv
<1>4. CASE asker # NoConn
  <2>1. /\ sockets' = [sockets EXCEPT ![asker].room = id]
        /\ redirected' = redirected \cup {<<sockets[asker].session, id>>}
    BY <1>4 DEF answer
  <2>2. asker \in DOMAIN sockets /\ Waits(asker) /\ sockets[asker] \in Socket
    BY <1>4 DEF SInv, SocketsOK
  <2>3. /\ sockets[asker].session \in Session
        /\ ~sockets[asker].dedupe_conns /\ ~sockets[asker].subscribed
    BY <2>2 DEF Waits, Socket
  <2>4. /\ DOMAIN sockets' = DOMAIN sockets
        /\ sockets' \in [DOMAIN sockets' -> Socket]
        /\ \A d \in DOMAIN sockets \ {asker} : sockets'[d] = sockets[d]
        /\ sockets'[asker].session = sockets[asker].session
        /\ sockets'[asker].room = id
        /\ ~sockets'[asker].dedupe_conns /\ ~sockets'[asker].subscribed
    <3> DEFINE new == [sockets[asker] EXCEPT !.room = id]
    <3>1. sockets' = [sockets EXCEPT ![asker] = new]
      BY <2>1
    <3>2. /\ new \in Socket /\ new.session = sockets[asker].session /\ new.room = id
          /\ ~new.dedupe_conns /\ ~new.subscribed
      BY <2>2, <2>3 DEF Socket
    <3> HIDE DEF new
    <3>3. sockets'[asker] = new
      BY <2>2, <3>1
    <3> QED
      BY <2>2, <3>1, <3>2, <3>3 DEF SInv, SocketsOK
  <2>5. SocketsOK'
    BY <1>1, <2>1, <2>3, <2>4 DEF SInv, SocketsOK
  <2>6. WhoWaits'
    BY <1>1, <2>1, <2>4 DEF SInv, WhoWaits, Waits
  <2>7. PlaysAlone'
    BY <2>1, <2>4 DEF SInv, PlaysAlone
  <2>8. NoGhostsHere'
    BY <1>2, <2>3, <2>4 DEF SInv, NoGhostsHere, Serves
  <2>9. ServedHere'
    <3> SUFFICES ASSUME NEW d \in DOMAIN sockets', sockets'[d].subscribed
                 PROVE  \/ isPlayerConnected(sockets[d].room, sockets[d].session)'
                        \/ <<sockets'[d].session, sockets'[d].room>> \in redirected'
      BY DEF ServedHere
    <3>1. d \in DOMAIN sockets /\ sockets'[d] = sockets[d] /\ sockets[d].subscribed
      BY <2>4
    <3>2. sockets[d].room \in Room /\ sockets[d].session \in Session
      BY <3>1 DEF SInv, SocketsOK, Socket
    <3>3. \/ isPlayerConnected(sockets[d].room, sockets[d].session)
          \/ <<sockets[d].session, sockets[d].room>> \in redirected
      BY <3>1 DEF SInv, ServedHere
    <3> QED
      BY <1>2, <2>1, <3>1, <3>2, <3>3
  <2> QED
    BY <2>5, <2>6, <2>7, <2>8, <2>9 DEF SInv
<1> QED
  BY <1>3, <1>4

\* Who waited waits for nothing now.
LEMMA TerminateKeepsSInv ==
  ASSUME SInv, terminate
  PROVE  SInv'
<1>1. /\ pc # "down" /\ pc' = "save_to_disk" /\ games' = games
      /\ asker' = NoConn /\ sockets' = sockets /\ redirected' = redirected
  BY DEF terminate, Signal, returns
<1>2. \A q, t : isPlayerConnected(q, t)' <=> isPlayerConnected(q, t)
  BY <1>1 DEF isPlayerConnected
<1>3. SocketsOK' /\ WhoWaits' /\ PlaysAlone'
  BY <1>1, ServerAssumption DEF SInv, SocketsOK, WhoWaits, PlaysAlone
<1>4. NoGhostsHere'
  BY <1>1, <1>2 DEF SInv, NoGhostsHere, Serves
<1>5. ServedHere'
  BY <1>1, <1>2 DEF SInv, ServedHere
<1> QED
  BY <1>3, <1>4, <1>5 DEF SInv

LEMMA ExitsKeepsSInv ==
  ASSUME SInv, exits
  PROVE  SInv'
<1>1. exit /\ DOMAIN sockets' = {} /\ sockets' \in [DOMAIN sockets' -> Socket]
      /\ asker' = NoConn /\ redirected' = {}
  BY DEF exits, WriteFile, Crash, Empty
<1>2. \A q \in Room, t \in Session : ~isPlayerConnected(q, t)'
  BY <1>1, NobodyIsConnected
<1> QED
  BY <1>1, <1>2, ServerAssumption
     DEF SInv, SocketsOK, WhoWaits, PlaysAlone, NoGhostsHere, ServedHere

\* runEviction, the file and the clock know no sockets; a process that starts has none.
LEMMA GoesOnKeepsSInv ==
  ASSUME SInv, goesOn
  PROVE  SInv'
<1>1. UNCHANGED server
  BY DEF goesOn
<1>2. CASE EvictionStep
  <2>1. pc' = pc /\ pc # "down"
    BY <1>2 DEF EvictionStep, Call
  <2> QED
    BY <1>1, <1>2, <2>1, EvictionDisconnectsNobody, QuietKeepsSInv
<1>3. CASE RemoveFile
  <2>1. pc = "save_to_disk" /\ pc' = "ofstream" /\ games' = games
    BY <1>3 DEF RemoveFile, returns
  <2>2. \A q, t : isPlayerConnected(q, t)' <=> isPlayerConnected(q, t)
    BY <2>1 DEF isPlayerConnected
  <2>3. asker \notin Conn
    BY <2>1 DEF SInv, SocketsOK
  <2> QED
    BY <1>1, <2>1, <2>2, <2>3, QuietKeepsSInv
<1>4. CASE load_persistence
  <2>1. pc = "down" /\ pc' = "idle"
    BY <1>4 DEF load_persistence, returns
  <2>2. DOMAIN sockets = {} /\ asker \notin Conn
    BY <2>1 DEF SInv, SocketsOK
  <2>3. \A q \in Room, t \in Session : ~isPlayerConnected(q, t)
    BY <2>2 DEF SInv, NoGhostsHere
  <2> QED
    BY <1>1, <1>4, <2>1, <2>2, <2>3, NobodyIsConnected, QuietKeepsSInv
<1>5. CASE Tick
  <2>1. pc' = pc /\ games' = games
    BY <1>5 DEF Tick
  <2>2. \A q, t : isPlayerConnected(q, t)' <=> isPlayerConnected(q, t)
    BY <2>1 DEF isPlayerConnected
  <2> QED
    BY <1>1, <2>1, <2>2, QuietKeepsSInv
<1> QED
  BY <1>2, <1>3, <1>4, <1>5 DEF goesOn
-----------------------------------------------------------------------------
(* The server as a whole *)

LEMMA ServerInitSInv == ServerInit => SInv
<1> SUFFICES ASSUME ServerInit PROVE SInv
  OBVIOUS
<1>1. /\ DOMAIN sockets = {} /\ sockets \in [DOMAIN sockets -> Socket]
      /\ DOMAIN games = {} /\ asker = NoConn /\ redirected = {} /\ pc = "idle"
  BY DEF ServerInit, CoordinatorInit, Empty
<1> QED
  BY <1>1, ServerAssumption DEF SInv, SocketsOK, WhoWaits, PlaysAlone, NoGhostsHere,
                                ServedHere, isPlayerConnected

\* SInv is inductive, given what is known of the rooms.
LEMMA ServerNextKeepsSInv == SInv /\ CInv /\ [ServerNext]_<<rooms, server>> => SInv'
<1> SUFFICES ASSUME SInv, CInv, [ServerNext]_<<rooms, server>> PROVE SInv'
  OBVIOUS
<1>1. CASE UNCHANGED <<rooms, server>>
  <2>1. UNCHANGED server /\ games' = games /\ pc' = pc
    BY <1>1 DEF rooms
  <2>2. \A q, t : isPlayerConnected(q, t)' <=> isPlayerConnected(q, t)
    BY <2>1 DEF isPlayerConnected
  <2> QED
    BY <2>1, <2>2, QuietKeepsSInv
<1>2. CASE ServerNext
  BY <1>2, OpenKeepsSInv, CookieKeepsSInv, MessageKeepsSInv, CloseKeepsSInv,
     CreateKeepsSInv, AnswerKeepsSInv, TerminateKeepsSInv, ExitsKeepsSInv, GoesOnKeepsSInv
     DEF ServerNext
<1> QED
  BY <1>1, <1>2

\* The server as a whole: the sockets are in order, and so are the rooms.
LEMMA ServerIsInOrder == ServerSpec => [](SInv /\ CInv)
<1>1. ServerInit => SInv /\ CInv
  BY ServerInitSInv, InitCInv DEF ServerInit
<1>2. SInv /\ CInv /\ [ServerNext]_<<rooms, server>> => (SInv /\ CInv)'
  <2>1. SInv /\ [ServerNext]_<<rooms, server>> => [CoordinatorNext]_rooms
    BY ServerNextIsCoordinatorNext DEF SInv
  <2> QED
    BY <2>1, ServerNextKeepsSInv, NextKeepsCInv
<1> QED
  BY <1>1, <1>2, PTL DEF ServerSpec
-----------------------------------------------------------------------------
(* Theorems *)

\* What the handlers of GameServer.cpp do to the rooms is what GameCoordinator allows:
\* all that CoordinatorProofs proves holds of the whole server.
THEOREM ServerIsACoordinator == ServerSpec => CoordinatorSpec
<1>1. SInv /\ [ServerNext]_<<rooms, server>> => [CoordinatorNext]_rooms
  BY ServerNextIsCoordinatorNext DEF SInv
<1>2. ServerInit => CoordinatorInit
  BY DEF ServerInit
<1> QED
  BY <1>1, <1>2, ServerIsInOrder, PTL DEF ServerSpec, CoordinatorSpec

\* The sockets have their types, and only createRoom keeps a socket waiting (connect).
THEOREM SocketsHaveTheirTypes == ServerSpec => []ServerTypeOK
<1>1. SInv /\ CInv => ServerTypeOK
  <2>1. CInv => CoordinatorTypeOK
    BY DEF CInv, GamesOK, FileOK, CallsOK, QueueOK, CoordinatorTypeOK
  <2> QED
    BY <2>1 DEF SInv, SocketsOK, ServerTypeOK
<1> QED
  BY <1>1, ServerIsInOrder, PTL

\* Who counts as connected (isPlayerConnected) has a socket that was welcomed: open and
\* close leave no ghosts behind.
THEOREM NobodyIsAGhost == ServerSpec => []NoGhosts
<1>1. SInv /\ CInv => NoGhosts
  BY DEF SInv, NoGhostsHere, CInv, GamesOK, NoGhosts, isPlayerConnected
<1> QED
  BY <1>1, ServerIsInOrder, PTL

\* Who plays counts as connected, but for those this process sent to the room: the
\* close of the socket they were sent from takes them out of the room.
THEOREM WhoIsServedIsConnected == ServerSpec => []ServedIsConnected
<1>1. SInv => ServedIsConnected
  BY DEF SInv, ServedHere, ServedIsConnected
<1> QED
  BY <1>1, ServerIsInOrder, PTL
=============================================================================
