----------------------------- MODULE GameServer -----------------------------
(***************************************************************************)
(* The sockets of the server process (GameServer.cpp) and the rooms they   *)
(* lead to (GameCoordinator).  A person may have several sockets: tabs,    *)
(* and connections whose end the server has not heard of yet, so requests  *)
(* and the close of a socket come at any time, in any order.               *)
(*                                                                         *)
(* One callback runs at a time.  The upgrade handler opens the socket      *)
(* before it returns: the two are one action.  A callback that creates a   *)
(* room waits for createRoom: `asker' is the socket it then redirects.     *)
(***************************************************************************)
EXTENDS GameCoordinator

CONSTANTS
  Conn,            \* bound: the sockets there may be at a time
  NoConn,          \* the asker of GET /create, which has no socket
  NoSession        \* "guest:", the session of a socket without a cookie

ASSUME ServerAssumption ==
  /\ NoConn \notin Conn
  /\ NoSession \notin Player

VARIABLES
  sockets,         \* PerSocketData of the sockets there are, and `subscribed'
  asker,
  redirected       \* history: who was sent to which room by this process

server == <<sockets, asker, redirected>>

ServerInit ==
  /\ CoordinatorInit
  /\ sockets = Empty /\ asker = NoConn /\ redirected = {}
-----------------------------------------------------------------------------
hangUp(c) == sockets' = [d \in DOMAIN sockets \ {c} |-> sockets[d]]

\* `subscribed': the socket was welcomed, and hears what is published in its room.
userData(c, s, r, dedupe, subscribed) ==
  sockets' = [d \in DOMAIN sockets \cup {c} |->
                IF d = c THEN [session |-> s, room |-> r, dedupe_conns |-> dedupe,
                               subscribed |-> subscribed]
                         ELSE sockets[d]]

connectNewPlayer(c, s, r) ==
  \/ /\ enter(r, s)
     /\ userData(c, s, r, FALSE, TRUE)
     /\ UNCHANGED <<asker, redirected>>
  \/ /\ r \in DOMAIN games                              \* "lobby is full": closed
     /\ s \notin games[r].members /\ seats(games[r]) >= MAX_PLAYERS
     /\ leave(r, {s})
     /\ hangUp(c)
     /\ UNCHANGED <<asker, redirected>>
  \/ /\ r \notin DOMAIN games
     /\ createRoom(r)
     /\ userData(c, s, r, FALSE, FALSE)
     /\ asker' = c
     /\ UNCHANGED redirected

isPlayerConnected(r, s) == r \in DOMAIN games /\ s \in games[r].online

admitAgain(c, s, r) == connectNewPlayer(c, s, r)               \* faulty admit
\* "already connected", or in.
admit(c, s, r) ==
  \/ /\ isPlayerConnected(r, s)
     /\ pc = "idle"
     /\ userData(c, s, r, TRUE, FALSE)
     /\ UNCHANGED <<rooms, asker, redirected>>
  \/ /\ ~isPlayerConnected(r, s)
     /\ connectNewPlayer(c, s, r)

\* upgrade and open.  Without a cookie the socket is asked for one.
open(c, s, r) ==
  /\ c \notin DOMAIN sockets
  /\ IF s # NoSession THEN admit(c, s, r)
     ELSE /\ pc = "idle"
          /\ userData(c, s, r, FALSE, FALSE)
          /\ UNCHANGED <<rooms, asker, redirected>>

\* message, of type "cookie", on a socket without a session.
cookie(c, s) ==
  /\ c \in DOMAIN sockets
  /\ sockets[c].session = NoSession
  /\ admit(c, s, sockets[c].room)

\* message on any other socket.  What is refused, or comes when the room is gone,
\* is answered with an error and changes nothing.
message(c) ==
  /\ c \in DOMAIN sockets
  /\ ~sockets[c].dedupe_conns
  /\ sockets[c].session # NoSession
  /\ handleMessage(sockets[c].room, sockets[c].session)
  /\ UNCHANGED server

closeStaysSeated(c) ==                                        \* faulty close
  /\ c \in DOMAIN sockets
  /\ pc = "idle"
  /\ hangUp(c)
  /\ UNCHANGED <<rooms, asker, redirected>>
closeAll(c) ==                                                \* faulty close
  /\ c \in DOMAIN sockets
  /\ pc = "idle"
  /\ LET r == sockets[c].room
     IN  IF r \notin DOMAIN games THEN UNCHANGED rooms
         ELSE leave(r, {sockets[c].session} \cap Session)
  /\ hangUp(c)
  /\ UNCHANGED <<asker, redirected>>
\* The session of the socket is disconnected from the room of the socket, unless
\* it was refused as a duplicate.
close(c) ==
  /\ c \in DOMAIN sockets
  /\ pc = "idle"
  /\ LET r == sockets[c].room
     IN  IF sockets[c].dedupe_conns \/ r \notin DOMAIN games THEN UNCHANGED rooms
         ELSE leave(r, {sockets[c].session} \cap Session)
  /\ hangUp(c)
  /\ UNCHANGED <<asker, redirected>>

\* GET /create
create == createRoom(NoSeed) /\ asker' = NoConn /\ UNCHANGED <<sockets, redirected>>

\* createRoom returns.  Who asked for a room that is not there is sent to the new
\* one; the socket stays open, and names that room from now on.
answer(id) ==
  /\ RoomCreated(id)
  /\ asker' = NoConn
  /\ IF asker = NoConn THEN UNCHANGED <<sockets, redirected>>
     ELSE /\ sockets' = [sockets EXCEPT ![asker].room = id]
          /\ redirected' = redirected \cup {<<sockets[asker].session, id>>}

\* The callback that is interrupted by the signal does not go on.
terminate == Signal /\ asker' = NoConn /\ UNCHANGED <<sockets, redirected>>

\* The sockets end with the process; their close handlers are not called.
exits ==
  /\ WriteFile \/ Crash
  /\ sockets' = Empty /\ asker' = NoConn /\ redirected' = {}

goesOn == (EvictionStep \/ RemoveFile \/ load_persistence \/ Tick) /\ UNCHANGED server
-----------------------------------------------------------------------------
ServerNext ==
  \/ \E c \in Conn : \/ \E s \in Session \cup {NoSession}, r \in Room : open(c, s, r)
                     \/ \E s \in Session : cookie(c, s)
                     \/ message(c)
                     \/ close(c)
  \/ create
  \/ \E id \in Room : answer(id)
  \/ terminate \/ exits \/ goesOn

ServerSpec == ServerInit /\ [][ServerNext]_<<rooms, server>>
-----------------------------------------------------------------------------
(* Properties *)

Socket == [session : Session \cup {NoSession}, room : Room,
           dedupe_conns : BOOLEAN, subscribed : BOOLEAN]

\* Sockets are what PerSocketData says, and a callback waits for a room that is
\* created only while createRoom runs.
ServerTypeOK ==
  /\ CoordinatorTypeOK
  /\ DOMAIN sockets \subseteq Conn /\ sockets \in [DOMAIN sockets -> Socket]
  /\ redirected \subseteq Session \X Room
  /\ asker \in Conn => pc = "createRoom" /\ asker \in DOMAIN sockets
  /\ asker \in Conn \cup {NoConn}

Serves(c, s, r) ==
  c \in DOMAIN sockets /\ sockets[c].subscribed
    /\ sockets[c].session = s /\ sockets[c].room = r

\* A person who counts as connected to a room has a socket that was welcomed to it:
\* no ghost keeps a room from its eviction or its seat from its owner.
NoGhosts ==
  \A r \in DOMAIN games : \A s \in games[r].online \cap Session :
    \E c \in DOMAIN sockets : Serves(c, s, r)

\* Who plays on a socket counts as connected, so that the room is not evicted under
\* them and no second socket is let in, unless this process sent them to the room:
\* then the socket on which they had asked names it too, and its close comes late.
ServedIsConnected ==
  \A c \in DOMAIN sockets : sockets[c].subscribed =>
    \/ isPlayerConnected(sockets[c].room, sockets[c].session)
    \/ <<sockets[c].session, sockets[c].room>> \in redirected

\* "already connected": a session has one socket at most that plays in a room.
OneSocketPerSession ==
  \A r \in Room, s \in Session, c, d \in Conn :
    Serves(c, s, r) /\ Serves(d, s, r) => c = d
=============================================================================
