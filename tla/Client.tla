------------------------------- MODULE Client -------------------------------
(***************************************************************************)
(* The Godot client of one person in a room: what it shows of the room     *)
(* (client.gd), the animations it waits for (char.gd) and the cards that   *)
(* are pressed (card.gd).                                                  *)
(*                                                                         *)
(* Messages wait in `queue' and are applied one at a time: most of them    *)
(* start an animation, and the next one waits until `resume' is emitted at *)
(* its end.  Meanwhile the room goes on, the person presses cards as they  *)
(* are shown, whether the room still holds them or not, and the connection *)
(* may be lost, with requests and answers on their way, and made again.    *)
(***************************************************************************)
EXTENDS Game

CONSTANTS
  Me,              \* the seat of the person
  MaxBehind,       \* bound: messages waiting when the room goes on
  MaxSent,         \* bound: requests on their way
  MaxDrops         \* bound: connections lost

ASSUME ClientAssumption ==
  /\ Me \in Seat /\ \A n \in HumanCounts : n > Me
  /\ MaxBehind \in Nat /\ MaxSent \in Nat /\ MaxDrops \in Nat

VARIABLES
  state,           \* what is shown of the room
  card_nodes,      \* per other seat: the cards lying in front of it
  mine,            \* the cards that can be pressed, by their faces, and the top card
  queue,
  cooling_down,
  running,         \* animations and timers that will emit `resume'
  thinking,        \* the seats shown thinking
  hung,            \* on_welcome does not return
  online,
  outbox,          \* requests the room has not handled yet
  drops, tardy,    \* history: connections lost; an answer came too late
  refused          \* history: a card was refused and the turn not told since

client == <<state, card_nodes, mine, queue, cooling_down, running, thinking, hung, online,
            outbox, drops, tardy, refused>>

Others == Seat \ {Me}

\* What there is to show.  Of the cards on the table: whose they are.
room ==
  [phase |-> phase, dealer |-> dealer, turn |-> turn, trump |-> trump,
   scores |-> scores, tricks |-> tricks, sitting_out |-> sitting_out,
   trick |-> [i \in DOMAIN trick |-> trick[i].id],
   card_count |-> [s \in Seat |-> Len(cards[s])]]

ClientInit ==
  /\ Init
  /\ state = room
  /\ card_nodes = [s \in Others |-> 0] /\ mine = [nodes |-> <<>>, top |-> NoCard]
  /\ queue = <<>> /\ cooling_down = FALSE /\ running = 0 /\ thinking = {}
  /\ hung = FALSE /\ online = FALSE /\ outbox = <<>> /\ drops = 0 /\ tardy = FALSE /\ refused = FALSE
-----------------------------------------------------------------------------
(* What the room publishes in a step, in the order in which it does.  What the *)
(* client takes no notice of is left out: pass, win_game, premoves, the cards  *)
(* laid down, who joins.                                                       *)

welcome == [type |-> "welcome", room |-> room, hand |-> cards[Me], top |-> top_card]

update ==
  [type |-> "update", room |-> [phase |-> phase', dealer |-> dealer', turn |-> turn',
                                trump |-> trump', scores |-> scores']]

deal == [type |-> "deal", hand |-> cards'[Me], top |-> top_card']
dealt == IF phase' = "ENDED" THEN <<>> ELSE <<deal>>

CardIsPlayed == phase = "PLAYING" /\ trick' # trick

\* Of the cards played only this person's matter: the one that a request or the
\* cascade plays, and the last one, which the server plays.
ownCard ==
  IF turn # Me THEN NoCard
  ELSE IF pc = "cascade" THEN fetched(premoves[Me]) ELSE Head(outbox).card
ownLastCard ==
  LET mine_last == {p \in played_cards' \ played_cards : p.id = Me /\ p.card # ownCard}
  IN  IF mine_last = {} THEN NoCard ELSE (CHOOSE p \in mine_last : TRUE).card

playedCard == [type |-> "play_card", id |-> turn, card |-> ownCard]

\* The last trick and the end of the hand.  Who wins that trick is told, and
\* forgotten with the next message.
handEnds ==
  <<[type |-> "win_trick", id |-> trick_leader'],
    [type |-> "last_card", ids |-> SubSeq(TurnOrder(trick_leader'), 1, Active),
     card |-> ownLastCard],
    [type |-> "win_trick", id |-> trick_leader'],
    [type |-> "win_hand"]>> \o dealt

ordered == [type |-> "order", id |-> turn, alone |-> sitting_out' # {}]

sent ==
  CASE phase \in Voting /\ phase' \notin Voting -> <<ordered, update>>
    [] phase \in Voting /\ phase' \in Voting /\ turn' # turn -> <<update>>
    [] phase \in Waiting /\ phase' \in Voting -> dealt \o <<update>>
    [] phase = "DISCARDING" /\ phase' = "PLAYING" ->
         <<[type |-> "discarded", id |-> turn], update>>
    [] CardIsPlayed ->
         <<playedCard>>
           \o (IF phase' # "PLAYING" THEN handEnds
               ELSE IF trick' = <<>> THEN <<[type |-> "win_trick", id |-> turn']>>
               ELSE <<>>)
           \o <<update>>
    [] phase = "PLAYING" /\ phase' # "PLAYING" /\ trick' = trick ->    \* laid down
         <<[type |-> "win_hand"]>> \o dealt \o <<update>>
    [] OTHER -> <<>>

\* What is requested with a press on a card, below, and with the buttons for the vote.
\* Of the others whatever they may.  Nobody plays for this person while cascading
\* is stale (bound).
Requests(s) ==
  \/ Order(s) \/ Pass(s)
  \/ s # Me /\ turn # Me /\ PlayCard(s)
  \/ s # Me /\ (Discard(s) \/ Premove(s) \/ UndoPremove(s) \/ LayDown(s))

playable(card) ==
  /\ phase = "PLAYING"
  /\ cascading \/ (turn_token = Me /\ CardCount(turn) # 1 /\ Holds(cards[turn], card))

\* What discard, play_card and premove throw at, negated.
accepts(req) ==
  CASE req.type = "discard" ->
         /\ phase = "DISCARDING" /\ dealer = Me
         /\ req.card # top_card /\ Holds(cards[dealer], req.card)
    [] req.type = "play_card" -> playable(req.card)
    [] req.type = "premove" ->
         IF turn_token = Me THEN playable(req.card)
         ELSE phase = "PLAYING" /\ Me \notin sitting_out /\ Holds(cards[Me], req.card)

\* The handler runs with the card of the request, within the bounds of Game.
handles(req) ==
  \/ req.type = "discard" /\ Discard(Me) /\ discard(Me, req.card)
  \/ req.type = "play_card" /\ PlayCard(Me) /\ play_card(Me, req.card)
  \/ /\ req.type = "premove"
     /\ IF turn_token = Me THEN PlayCard(Me) /\ play_card(Me, req.card)
                           ELSE Premove(Me) /\ premove(Me, req.card)

\* What was requested before the connection was lost may still be read after it.
RoomSteps ==
  /\ Len(queue) =< MaxBehind
  /\ \/ /\ Restart \/ Chat \/ Loop \/ \E s \in Human : Requests(s)
        /\ UNCHANGED outbox
     \/ /\ outbox # <<>> /\ Me \in Human /\ handles(Head(outbox))
        /\ outbox' = Tail(outbox)
  /\ queue' = IF online THEN queue \o sent ELSE queue
  /\ refused' = (refused /\ sent = <<>>)
  /\ UNCHANGED <<state, card_nodes, mine, cooling_down, running, thinking, hung, online,
                 drops, tardy>>

\* The room answers with an error, which is printed.
RoomRefuses ==
  /\ pc = "idle"
  /\ outbox # <<>> /\ ~accepts(Head(outbox))
  /\ outbox' = Tail(outbox)
  /\ refused' = (refused \/ Head(outbox).type # "premove")
  /\ UNCHANGED <<vars, state, card_nodes, mine, queue, cooling_down, running, thinking,
                 hung, online, drops, tardy>>
-----------------------------------------------------------------------------
(* The connection *)

\* People join one after the other, this one when its seat is the next.
Joins ==
  /\ Join
  /\ IF seated = Me
     THEN online' = TRUE /\ queue' = Append(queue, welcome')
     ELSE UNCHANGED <<online, queue>>
  /\ UNCHANGED <<state, card_nodes, mine, cooling_down, running, thinking, hung, outbox,
                 drops, tardy, refused>>

\* What was received still waits, what was sent may be on its way.
Drops ==
  /\ online /\ drops < MaxDrops
  /\ online' = FALSE /\ drops' = drops + 1
  /\ UNCHANGED <<vars, state, card_nodes, mine, queue, cooling_down, running, thinking,
                 hung, outbox, tardy, refused>>

\* Three seconds later, or more.  The server has seen the end of the old connection;
\* what it has not read of it is lost.
Reconnects ==
  /\ ~online /\ seated > Me
  /\ pc = "idle"
  /\ online' = TRUE
  /\ queue' = Append(queue, welcome)
  /\ outbox' = <<>> /\ refused' = FALSE
  /\ UNCHANGED <<vars, state, card_nodes, mine, cooling_down, running, thinking, hung,
                 drops, tardy>>
-----------------------------------------------------------------------------
(* Messages are applied *)

bump(f, s, n) == [f EXCEPT ![s] = @ + n]
less(f, s) == [f EXCEPT ![s] = IF @ > 0 THEN @ - 1 ELSE 0]   \* a node, if there is one

\* The handlers of the signals start k animations which emit `resume' at their end.
animates(k) == running' = running + k
waits == cooling_down' = TRUE

set_thinkOn(s, seats) == seats \cup {s}                 \* faulty set_think
\* set_think of every seat.
set_think(s, seats) == {s}

\* A seat that thinks already starts no timer.
startsThinking(s) == animates(IF s \in thinking THEN 0 ELSE 1)

(* What is shown after a message, `view' having been shown. *)

updated(m, view) ==
  [view EXCEPT !.phase = m.room.phase, !.dealer = m.room.dealer, !.turn = m.room.turn,
               !.trump = m.room.trump, !.scores = m.room.scores]

pickedUp(m, view) ==
  [view EXCEPT
     !.sitting_out = @ \cup IF m.alone THEN {Partner(m.id)} ELSE {},
     !.card_count = IF view.phase = "VOTE_ROUND1" /\ view.dealer # Me
                    THEN bump(@, view.dealer, 1) ELSE @]

\* Who dealt has seen the discard already, when it was pressed.
discarded(m, view) ==
  IF view.dealer = Me THEN view ELSE [view EXCEPT !.card_count = bump(@, m.id, -1)]

cardPlayed(m, view) ==
  [view EXCEPT !.card_count = bump(@, m.id, -1), !.trick = Append(@, m.id)]

trickWonKeepsTable(m, view) ==                         \* faulty trickWon
  [view EXCEPT !.tricks = bump(@, m.id, 1)]
trickWon(m, view) == [view EXCEPT !.trick = <<>>, !.tricks = bump(@, m.id, 1)]

shows(m, view) ==
  CASE m.type = "welcome"   -> m.room
    [] m.type = "update"    -> updated(m, view)
    [] m.type = "deal"      -> [view EXCEPT !.card_count = [s \in Seat |-> CardsPerHand]]
    [] m.type = "order"     -> pickedUp(m, view)
    [] m.type = "discarded" -> discarded(m, view)
    [] m.type = "play_card" -> cardPlayed(m, view)
    [] m.type = "last_card" -> [view EXCEPT !.trick = m.ids]
    [] m.type = "win_trick" -> trickWon(m, view)
    [] m.type = "win_hand"  -> [view EXCEPT !.sitting_out = {}, !.tricks = Nobody]

votes(m) == m.type \in {"welcome", "update"} /\ m.room.phase \in Voting

\* Who is shown thinking after it, `seats' having been.
thinks(m, seats) ==
  CASE m.type = "order"                -> {}
    [] m.type = "update" /\ votes(m)  -> set_think(m.room.turn, seats)
    [] m.type = "welcome" /\ votes(m) -> seats \cup {m.room.turn}
    [] OTHER                           -> seats

(* The cards of this person. *)

\* Every card with that face goes.
hide(nodes, card) == erase(nodes, card)

\* The first cards get the faces of the hand; what lies behind keeps its own.
deals(m, was) ==
  [nodes |-> m.hand \o SubSeq(was.nodes, Len(m.hand) + 1, Len(was.nodes)), top |-> m.top]

keeps(m, view, was) ==
  CASE m.type \in {"welcome", "deal"} -> deals(m, was)
    [] m.type = "order" /\ view.phase = "VOTE_ROUND1" /\ view.dealer = Me ->
         [was EXCEPT !.nodes = Append(@, was.top)]
    [] m.type \in {"play_card", "last_card"} -> [was EXCEPT !.nodes = hide(@, m.card)]
    [] OTHER -> was

(* The cards in front of the other seats, and the animations. *)

\* Cards that are too many in front of somebody else are freed at the end of the
\* frame, and counted again until they are gone: that frame does not end.
tooMany(count) == \E s \in Others : card_nodes[s] > count[s]

atLeast(count) ==
  card_nodes' = [s \in Others |-> IF card_nodes[s] > count[s] THEN card_nodes[s] ELSE count[s]]

onWelcome(m) ==
  /\ hung' = tooMany(m.room.card_count)
  /\ atLeast(m.room.card_count)
  /\ IF votes(m) THEN startsThinking(m.room.turn) ELSE UNCHANGED running
  /\ UNCHANGED cooling_down

onUpdate(m) ==
  /\ IF votes(m) THEN waits /\ startsThinking(m.room.turn) ELSE UNCHANGED <<cooling_down, running>>
  /\ UNCHANGED <<card_nodes, hung>>

onDeal ==
  /\ atLeast([s \in Seat |-> CardsPerHand])
  /\ waits /\ animates(1)
  /\ UNCHANGED hung

\* The dealer picks up the card, a dealer who sits out too.
onOrder ==
  /\ card_nodes' = IF state.phase = "VOTE_ROUND1" /\ state.dealer # Me
                   THEN bump(card_nodes, state.dealer, 1) ELSE card_nodes
  /\ UNCHANGED <<cooling_down, running, hung>>

onDiscarded ==
  /\ waits
  /\ IF state.dealer = Me THEN UNCHANGED <<card_nodes, running>>
     ELSE card_nodes' = less(card_nodes, state.dealer) /\ animates(1)
  /\ UNCHANGED hung

onPlayCard(m) ==
  /\ card_nodes' = IF m.id = Me THEN card_nodes ELSE less(card_nodes, m.id)
  /\ waits /\ animates(1)
  /\ UNCHANGED hung

onLastCard(m) ==
  /\ card_nodes' = [s \in Others |-> IF s \in Range(m.ids) THEN less(card_nodes, s)[s]
                                   ELSE card_nodes[s]]
  /\ waits /\ animates(1)
  /\ UNCHANGED hung

onWinTrick ==
  /\ waits /\ animates(1)
  /\ UNCHANGED <<card_nodes, hung>>

onWinHand == UNCHANGED <<card_nodes, cooling_down, running, hung>>

apply_queued_action ==
  /\ queue # <<>> /\ ~cooling_down /\ ~hung
  /\ queue' = Tail(queue)
  /\ LET m == Head(queue)
     IN  /\ state' = shows(m, state)
         /\ thinking' = thinks(m, thinking)
         /\ mine' = keeps(m, state, mine)
         /\ CASE m.type = "welcome"   -> onWelcome(m)
              [] m.type = "update"    -> onUpdate(m)
              [] m.type = "deal"      -> onDeal
              [] m.type = "order"     -> onOrder
              [] m.type = "discarded" -> onDiscarded
              [] m.type = "play_card" -> onPlayCard(m)
              [] m.type = "last_card" -> onLastCard(m)
              [] m.type = "win_trick" -> onWinTrick
              [] m.type = "win_hand"  -> onWinHand
  /\ UNCHANGED <<vars, online, outbox, drops, tardy, refused>>

\* The answer to a discard of this person is still to come.
AnswerDue ==
  \/ \E i \in DOMAIN outbox : outbox[i].type = "discard"
  \/ \E i \in DOMAIN queue : queue[i].type = "discarded" /\ queue[i].id = Me

\* An animation ends, and on_resume runs.
Resume ==
  /\ running > 0 /\ ~hung
  /\ running' = running - 1
  /\ cooling_down' = FALSE
  /\ tardy' = (tardy \/ (running = 1 /\ AnswerDue))
  /\ UNCHANGED <<vars, state, card_nodes, mine, queue, thinking, hung, online, outbox,
                 drops, refused>>
-----------------------------------------------------------------------------
(* A card is pressed (card.gd) *)

\* What a press on the i-th card requests, if anything.
asks(i) ==
  CASE state.phase = "DISCARDING" ->
         IF state.dealer = Me /\ mine.nodes[i] # mine.top /\ i =< CardsPerHand
         THEN "discard" ELSE "nothing"
    [] state.phase = "PLAYING" -> IF state.turn = Me THEN "play_card" ELSE "premove"
    [] OTHER -> "nothing"
request(i) == [type |-> asks(i), card |-> mine.nodes[i]]

PressDiscard(i) ==
  /\ asks(i) = "discard"
  /\ state' = [state EXCEPT !.phase = "PLAYING"]
  /\ mine' = [mine EXCEPT !.nodes = hide(@, mine.nodes[i])]
  /\ animates(1)

PressCard(i) ==
  /\ asks(i) = "play_card"
  /\ state' = [state EXCEPT !.turn = @ + 1]
  /\ UNCHANGED <<mine, running>>

PressPremove(i) ==
  /\ asks(i) = "premove"
  /\ UNCHANGED <<state, mine, running>>

\* Without a connection nothing is sent.
Press ==
  /\ ~hung
  /\ Len(outbox) < MaxSent
  /\ \E i \in DOMAIN mine.nodes :
       /\ PressDiscard(i) \/ PressCard(i) \/ PressPremove(i)
       /\ outbox' = IF online THEN Append(outbox, request(i)) ELSE outbox
  /\ UNCHANGED <<vars, card_nodes, queue, cooling_down, thinking, hung, online, drops,
                 tardy, refused>>
-----------------------------------------------------------------------------
ClientNext ==
  \/ RoomSteps \/ RoomRefuses \/ Joins \/ Drops \/ Reconnects
  \/ apply_queued_action \/ Resume \/ Press

ClientSpec == ClientInit /\ [][ClientNext]_<<vars, client>>
-----------------------------------------------------------------------------
(* Properties *)

\* Nothing is on its way, in either direction.
Quiet == online /\ queue = <<>> /\ outbox = <<>>

\* The others are shown with the cards they have, queued ones included; after a new
\* connection those are forgotten.  Who sits out is shown with the card picked up too.
CountsAgree(view) ==
  \A s \in Others \ sitting_out :
    /\ view.card_count[s] =< CardCount(s)
    /\ drops = 0 => view.card_count[s] = CardCount(s)

\* The view is one card ahead of the room, which waits for one of this person's.
AheadOfRoom(view) ==
  /\ phase \in {"DISCARDING", "PLAYING"} /\ turn = Me
  /\ view.phase = "PLAYING" /\ view.turn \in {Me, Me + 1}

\* A client that has applied what it received shows the room as it is: the score, the
\* tricks, who sits out, the cards on the table; and the phase and whose turn it is
\* too, unless the room has refused a card of this person's and still waits for one.
ViewAgrees ==
  Quiet => /\ \A field \in DOMAIN room \ {"phase", "turn", "card_count"} :
                state[field] = room[field]
           /\ phase \notin Waiting => CountsAgree(state)
           /\ \/ state.phase = phase /\ state.turn = turn
              \/ AheadOfRoom(state) /\ refused


\* Nothing is shown any more: no animation runs that ends the wait.
Frozen == hung \/ (cooling_down /\ running = 0)

\* A client that never lost its connection does not freeze, unless the answer to a
\* discard of its own takes longer than the animation that shows it.
NeverFreezes == Frozen => drops > 0 \/ tardy
-----------------------------------------------------------------------------
(* The messages on their way, and what is shown when they have been applied *)

View == [phase : Phase, dealer : Seat, turn : Int, trump : Suit, scores : [Team -> Nat],
         tricks : [Seat -> Int], sitting_out : SUBSET Seat, trick : Seq(Seat),
         card_count : [Seat -> Int]]
Update  == [phase : Phase, dealer : Seat, turn : Seat, trump : Suit, scores : [Team -> Nat]]
AnyCard == Card \cup {NoCard}
Message == [type : {"welcome"}, room : View, hand : Seq(Card), top : AnyCard]
             \cup [type : {"update"}, room : Update]
             \cup [type : {"deal"}, hand : Seq(Card), top : AnyCard]
             \cup [type : {"win_hand"}]
             \cup [type : {"order"}, id : Seat, alone : BOOLEAN]
             \cup [type : {"discarded", "win_trick"}, id : Seat]
             \cup [type : {"play_card"}, id : Seat, card : AnyCard]
             \cup [type : {"last_card"}, ids : Seq(Seat), card : AnyCard]

\* Every variable has its type (the members of client.gd and char.gd).
ClientTypeOK ==
  /\ state \in View /\ queue \in Seq(Message)
  /\ card_nodes \in [Others -> Int] /\ running \in Nat /\ drops \in Nat
  /\ mine \in [nodes : Seq(AnyCard), top : AnyCard]
  /\ outbox \in Seq([type : {"discard", "play_card", "premove"}, card : AnyCard])
  /\ cooling_down \in BOOLEAN /\ hung \in BOOLEAN /\ online \in BOOLEAN /\ tardy \in BOOLEAN
  /\ refused \in BOOLEAN

\* This person plays in every game that has started.
GamesSeatMe ==
  IF phase = "LOBBY" THEN seated = humans ELSE humans \in HumanCounts

after(m, was) == [view |-> shows(m, was.view), seats |-> thinks(m, was.seats)]

\* What is shown after each of the messages of q.
showing(first, q) ==
  LET at[k \in 0 .. Len(q)] == IF k = 0 THEN first ELSE after(q[k], at[k - 1])
  IN  at
shown == showing([view |-> state, seats |-> thinking], queue)

\* A card was pressed that is shown as played, and the room has not answered.
CardIsAsked == \E i \in DOMAIN outbox : outbox[i].type # "premove"

\* What no request changes before the room has answered.
Settled(view) ==
  /\ \A field \in DOMAIN room \ {"phase", "turn", "card_count"} : view[field] = room[field]
  /\ view.phase = "VOTE_ROUND1" <=> phase = "VOTE_ROUND1"
  /\ phase \notin Waiting => CountsAgree(view)

\* When it has applied everything, a client that is connected will show the room as
\* it is; but for a card pressed that is not answered yet, or was refused.
ShowsTheRoom(view) ==
  /\ Settled(view)
  /\ \/ view.phase = phase /\ view.turn = turn
     \/ AheadOfRoom(view) /\ (CardIsAsked \/ refused)

\* Who is shown thinking in the end: whoever votes.
Thinkers == IF phase \in Voting THEN {turn} ELSE {}

\* A message can be applied where `was' is shown: no vote names a seat that is shown
\* thinking already, a discard that is told is of the dealer that is shown.
fits(m, was) ==
  /\ votes(m) => m.room.turn \notin was.seats
  /\ m.type = "discarded" => was.view.dealer = m.id

\* While no connection is lost every message fits, and the only welcome comes first,
\* in front of nobody lying cards then.
MessagesFit(at) ==
  /\ seated > Me => online
  /\ ~online => queue = <<>> /\ \A s \in Others : card_nodes[s] = 0
  /\ at[Len(queue)].seats = Thinkers
  /\ \A i \in DOMAIN queue :
       /\ fits(queue[i], at[i - 1])
       /\ queue[i].type = "welcome" => i = 1 /\ ~tooMany(queue[i].room.card_count)

\* Whoever waits, or will have to for the answer to a discard, waits for an animation.
WaitsEnd == ~hung /\ ((cooling_down \/ AnswerDue) => running > 0)

\* What makes the client show the room and go on, step by step (ClientProofs).
ClientIInv ==
  /\ ClientTypeOK /\ GamesSeatMe
  /\ \E at \in {shown} :
       /\ online => seated > Me /\ ShowsTheRoom(at[Len(queue)].view)
       /\ drops = 0 => MessagesFit(at)
       /\ drops = 0 /\ ~tardy => WaitsEnd
=============================================================================
