-------------------------------- MODULE Game --------------------------------
(***************************************************************************)
(* One room of the game server: the class Game (Game.h, Game.cpp), its     *)
(* four seats and the bots that fill the empty ones.                       *)
(*                                                                         *)
(* A client's request is handled to its end before the next is read, so a  *)
(* handler is one action.  The two loops a handler may enter, playing      *)
(* premoved cards (cascadePremoves) and letting bots act                   *)
(* (handleBotUpdates), advance one card or decision per action: `pc' says  *)
(* which loop runs, and only the shutdown signal can interrupt it.         *)
(***************************************************************************)
EXTENDS Bot, FiniteSets

CONSTANTS
  CardsPerHand,   \* 5 in the code: cards dealt to a seat, tricks of a hand
  WinningScore,   \* 10 in the code
  Deals,          \* outcomes of shuffle and dealCards: [top, hands]
  OrderSuits,     \* bound: the suits a person names in the second round
  HumanCounts,    \* bound: how many people are seated when a game starts
  MaxPremoves,    \* bound: cards a person premoves at a time
  ForeignCards,   \* bound: what people play while nobody asks for their hand
  MaxTable,       \* bound: people add no card to a trick of this length
  Allowed         \* bound: the optional requests clients make in a run

Seat     == 0 .. 3
NoSeat   == -1                            \* an empty turn_token
Team     == 0 .. 1
NoCard   == [suit |-> -1, rank |-> -1]    \* std::nullopt
Optional == {"alone", "renege", "premove", "lay_down", "rematch", "signal"}

Voting  == {"VOTE_ROUND1", "VOTE_ROUND2"}
Waiting == {"LOBBY", "ENDED"}
Phase   == Voting \cup Waiting \cup {"DISCARDING", "PLAYING"}

ASSUME GameAssumption ==
  /\ CardsPerHand \in Nat /\ CardsPerHand > 1 /\ CardsPerHand % 2 = 1
  /\ WinningScore \in Nat \ {0}
  /\ Deals \subseteq [top : Card, hands : [Seat -> Seq(Card)]]
  /\ Deals # {}
  /\ OrderSuits \subseteq Suit
  /\ HumanCounts \subseteq 1 .. 4
  /\ MaxPremoves \in Nat
  /\ ForeignCards \subseteq Card
  /\ MaxTable \in Nat
  /\ Allowed \subseteq Optional

\* The deck (Deck.h) has no card twice: the top card and the cards of the four
\* hands are all different.
ASSUME DealAssumption ==
  \A deal \in Deals : \A s \in Seat :
    /\ Len(deal.hands[s]) = CardsPerHand
    /\ \A i \in DOMAIN deal.hands[s] :
         /\ deal.hands[s][i] # deal.top
         /\ \A t \in Seat : \A j \in DOMAIN deal.hands[t] :
              deal.hands[s][i] = deal.hands[t][j] => s = t /\ i = j

VARIABLES
  seated,        \* number of seats taken, from seat 0 up
  humans,        \* the first of them are people, the rest bots
  phase, dealer, turn, trump, caller, top_card,
  scores,        \* per team
  cards,         \* per seat: the hand, in order
  premoves,      \* per seat: cards queued for its next turns
  tricks,        \* per seat: tricks won in this hand
  sitting_out,   \* the seats that sit this hand out
  trick,         \* the cards on the table, tagged with their seats, in order
  trick_leader,
  played_cards,  \* this hand's cards so far, with the server's verdict on each
  turn_token,    \* the seat whose session may act
  cascading,     \* play_card runs for a premove: whose turn it is goes unasked
  pc             \* "idle", or the loop the running handler is in

people   == <<seated, humans>>
table    == <<trick, trick_leader, played_cards>>
hands    == <<cards, premoves>>
contract == <<trump, caller>>
vars == <<people, phase, dealer, turn, contract, top_card, scores, hands,
          tricks, sitting_out, table, turn_token, cascading, pc>>

Nobody == [s \in Seat |-> 0]

Init ==
  /\ seated = 0 /\ humans = 0
  /\ phase = "LOBBY" /\ dealer = 0 /\ turn = 0 /\ turn_token = NoSeat
  /\ trump = HEARTS /\ top_card = NoCard
  /\ caller = 0 /\ trick_leader = 0     \* not initialised: set before first read
  /\ scores = [t \in Team |-> 0] /\ tricks = Nobody /\ sitting_out = {}
  /\ cards = [s \in Seat |-> <<>>] /\ premoves = [s \in Seat |-> <<>>]
  /\ trick = <<>> /\ played_cards = {}
  /\ cascading = FALSE /\ pc = "idle"
-----------------------------------------------------------------------------
(* Helpers *)

Human  == {s \in Seat : s < humans}
IsBot(s) == s >= humans /\ s < seated

LeftUnwrapped(s) == s + 1                                   \* faulty Left
Left(s)    == (s + 1) % 4
Partner(s) == (s + 2) % 4

advanceOntoSitter(s, out) == Left(s)                     \* faulty advance
\* advanceTurn: the seat to the left, or the next one if that one sits out.
advance(s, out) == IF Left(s) \in out THEN Left(Left(s)) ELSE Left(s)

\* The seats in the order they play to a trick that `leader' leads.
TurnOrder(leader) ==
  LET second == advance(leader, sitting_out)
      third  == advance(second, sitting_out)
  IN  <<leader, second, third, advance(third, sitting_out)>>

Active == Cardinality(Seat \ sitting_out)

Total(count) == count[0] + count[1] + count[2] + count[3]

eraseNothing(hand, card) == hand                           \* faulty erase
\* std::erase: every copy of the card goes, the others keep their order.
erase(hand, card) ==
  LET kept == {i \in DOMAIN hand : hand[i] # card}
      nth(k) == CHOOSE i \in kept : Cardinality({j \in kept : j =< i}) = k
  IN  [k \in 1 .. Cardinality(kept) |-> hand[nth(k)]]
Holds(hand, card) == \E i \in DOMAIN hand : hand[i] = card

\* `*v.erase(v.begin())' reads what follows the erased card: the second card,
\* which stays in the vector, or past the end the first one, still in memory.
fetched(queue) == IF Len(queue) > 1 THEN queue[2] ELSE queue[1]

CardCount(s) == Len(cards[s]) + Len(premoves[s])

\* A card off the led suit is illegal while the hand still has that suit.
Renege(card, rest, stack) ==
  /\ stack # <<>>
  /\ LET led == effectiveSuit(stack[1].card, trump)
     IN  /\ effectiveSuit(card, trump) # led
         /\ \E i \in DOMAIN rest : effectiveSuit(rest[i], trump) = led

TakesLast(stack, i) == i = Len(stack)                     \* faulty Takes
\* The position in a full trick whose card takes it: the first of the best.
Takes(stack, i) ==
  LET led      == effectiveSuit(stack[1].card, trump)
      score(k) == scoreCard(stack[k].card, trump, led)
  IN  \A k \in DOMAIN stack : IF k < i THEN score(k) < score(i)
                                       ELSE score(k) =< score(i)
-----------------------------------------------------------------------------
(* The end of a hand *)

dealHandsOnly ==                                       \* faulty dealCards
  \E deal \in Deals : cards' = deal.hands /\ UNCHANGED top_card
dealCards == \E deal \in Deals : top_card' = deal.top /\ cards' = deal.hands

nextHandKeepsToken ==                                   \* faulty nextHand
  /\ phase' = "VOTE_ROUND1"
  /\ dealer' = Left(dealer)
  /\ turn' = advance(Left(dealer), {})
  /\ UNCHANGED turn_token
  /\ dealCards
\* The deal passes to the left and a new vote starts.
nextHand ==
  /\ phase' = "VOTE_ROUND1"
  /\ dealer' = Left(dealer)
  /\ turn' = advance(Left(dealer), {})
  /\ turn_token' = turn'
  /\ dealCards

endsAbove(score) == score > WinningScore                    \* faulty ends
ends(score) == score >= WinningScore

settleKeepsSitter(team, points, last, token, left) ==     \* faulty settle
  /\ tricks' = Nobody /\ UNCHANGED sitting_out
  /\ scores' = [scores EXCEPT ![team] = @ + points]
  /\ \/ /\ ends(scores[team] + points)
        /\ phase' = "ENDED"
        /\ turn' = last /\ turn_token' = token
        /\ cards' = left
        /\ UNCHANGED <<dealer, top_card>>
     \/ /\ ~ends(scores[team] + points)
        /\ nextHand
\* What endHand and lay_down share: `team' scores, and the game ends with
\* `last' at turn and the cards that are `left', or the next hand is dealt.
settle(team, points, last, token, left) ==
  /\ tricks' = Nobody /\ sitting_out' = {}
  /\ scores' = [scores EXCEPT ![team] = @ + points]
  /\ \/ /\ ends(scores[team] + points)                  \* endGame
        /\ phase' = "ENDED"
        /\ turn' = last /\ turn_token' = token
        /\ cards' = left
        /\ UNCHANGED <<dealer, top_card>>
     \/ /\ ~ends(scores[team] + points)
        /\ nextHand

worthEuchred(sweep, alone, euchred) ==                      \* faulty worth
  IF sweep /\ alone THEN 4 ELSE IF sweep THEN 2 ELSE 1
worth(sweep, alone, euchred) ==
  IF sweep /\ alone THEN 4 ELSE IF sweep \/ euchred THEN 2 ELSE 1

endHand(won, last, left) ==
  LET t0     == won[0] + won[2]
      t1     == won[1] + won[3]
      winner == IF t0 > t1 THEN 0 ELSE 1
      sweep  == CardsPerHand \in {t0, t1}
      alone  == {winner, winner + 2} \cap sitting_out # {}
  IN  settle(winner, worth(sweep, alone, caller % 2 # winner), last, last, left)
-----------------------------------------------------------------------------
(* Playing a card.  `\E x \in {e}' below is a local variable of the code: e is  *)
(* worked out once, where a LET would be worked out at each use.              *)

lastTrickLate(won) == Total(won) = CardsPerHand     \* faulty lastTrickDue
lastTrickDue(won)  == Total(won) = CardsPerHand - 1

\* endTrick plays the last trick for everybody, `leader' having taken the one
\* before; `own' and `queued' are the hands and the premoves then.
lastTrick(leader, won, played, own, queued) ==
  \E seats \in {TurnOrder(leader)} :
    LET plays   == {seats[i] : i \in 1 .. Active}
        card(s) == fetched(IF own[s] # <<>> THEN own[s] ELSE queued[s])
        rest(s) == IF s \in plays /\ own[s] # <<>> THEN Tail(own[s]) ELSE own[s]
    IN  \E stack \in {[i \in 1 .. Active |-> [card |-> card(seats[i]), id |-> seats[i]]]} :
          LET illegal(i) == Renege(stack[i].card, rest(seats[i]), SubSeq(stack, 1, i - 1))
          IN  /\ trick' = <<>> /\ trick_leader' = leader
              /\ played_cards' = played \cup
                   {[card |-> stack[i].card, id |-> seats[i], illegal |-> illegal(i)] :
                      i \in 1 .. Active}
              /\ premoves' = [s \in Seat |-> IF s \in plays /\ own[s] = <<>>
                                             THEN Tail(queued[s]) ELSE queued[s]]
              /\ \E i \in 1 .. Active :
                   /\ Takes(stack, i)
                   /\ endHand([won EXCEPT ![seats[i]] = @ + 1], seats[i],
                              [s \in Seat |-> rest(s)])

\* endTrick on a full trick.  The total is below CardsPerHand: the trick that would
\* make it so is the last one, which the one before plays.
endTrick(stack, leader, played, own, queued) ==
  \E i \in 1 .. Active :
    /\ Takes(stack, i)
    /\ \E winner \in {TurnOrder(leader)[i]} :
         \E won \in {[tricks EXCEPT ![winner] = @ + 1]} :
           \/ /\ ~lastTrickDue(won)
              /\ tricks' = won
              /\ trick' = <<>> /\ trick_leader' = leader /\ played_cards' = played
              /\ turn' = winner /\ turn_token' = winner
              /\ cards' = own /\ premoves' = queued
              /\ UNCHANGED <<phase, dealer, top_card, scores, sitting_out>>
           \/ /\ lastTrickDue(won)
              /\ lastTrick(winner, won, played, own, queued)

\* play_card once the card has left the hand (`own') or the premoves (`queued').
playTop(card, own, queued) ==
  /\ \E leader \in {IF trick = <<>> THEN turn ELSE trick_leader},
        stack  \in {Append(trick, [card |-> card, id |-> turn])},
        played \in {played_cards \cup {[card |-> card, id |-> turn,
                                        illegal |-> Renege(card, own[turn], trick)]}} :
       \/ /\ Len(stack) # Active
          /\ trick' = stack /\ trick_leader' = leader /\ played_cards' = played
          /\ turn' = advance(turn, sitting_out) /\ turn_token' = turn'
          /\ cards' = own /\ premoves' = queued
          /\ UNCHANGED <<phase, dealer, top_card, scores, tricks, sitting_out>>
       \/ /\ Len(stack) = Active
          /\ endTrick(stack, leader, played, own, queued)
  /\ UNCHANGED <<people, contract>>

\* The loop a handler goes on with, in the state it leaves.
premoveAvailable(s) == premoves[s] # <<>> /\ CardCount(s) > 1
botsNext == IF phase \notin Waiting /\ IsBot(turn) THEN "bots" ELSE "idle"
cascadeNever == botsNext                            \* faulty cascadeNext
cascadeNext == IF premoveAvailable(turn) THEN "cascade" ELSE botsNext

play_card(s, card) ==
  /\ phase = "PLAYING"
  /\ cascading \/ /\ turn_token = s
                  /\ CardCount(turn) # 1
                  /\ Holds(cards[turn], card)
  /\ \E own \in {IF cascading THEN cards
                 ELSE [cards EXCEPT ![turn] = erase(@, card)]} :
       playTop(card, own, premoves)
  /\ UNCHANGED cascading
  /\ pc' = IF cascading THEN botsNext' ELSE cascadeNext'
-----------------------------------------------------------------------------
(* The other handlers, for people and bots alike *)

startPlayKeepsRecord(out) ==                           \* faulty startPlay
  /\ phase' = "PLAYING"
  /\ turn' = advance(dealer, out) /\ turn_token' = turn'
  /\ UNCHANGED played_cards
\* Play starts to the dealer's left.
startPlay(out) ==
  /\ phase' = "PLAYING"
  /\ played_cards' = {}
  /\ turn' = advance(dealer, out) /\ turn_token' = turn'

order(s, alone, suit) ==
  LET round1 == phase = "VOTE_ROUND1"
  IN  /\ phase \in Voting
      /\ turn_token = s
      /\ ~round1 => suit # top_card.suit
      /\ sitting_out' = sitting_out \cup IF alone THEN {Partner(turn)} ELSE {}
      /\ caller' = turn
      /\ trump' = IF round1 THEN top_card.suit ELSE suit
      /\ IF round1 /\ ~(alone /\ Partner(turn) = dealer)
         THEN /\ phase' = "DISCARDING"
              /\ turn' = dealer
              /\ cards' = [cards EXCEPT ![dealer] = Append(@, top_card)]
              /\ UNCHANGED <<turn_token, played_cards>>
         ELSE startPlay(sitting_out') /\ UNCHANGED cards
      /\ UNCHANGED <<people, dealer, top_card, scores, premoves, tricks, trick,
                     trick_leader, cascading>>
      /\ pc' = botsNext'

mustOrder == turn = dealer /\ phase = "VOTE_ROUND2"

pass(s) ==
  /\ phase \in Voting
  /\ turn_token = s
  /\ ~mustOrder
  /\ phase' = IF turn = dealer THEN "VOTE_ROUND2" ELSE phase
  /\ turn' = advance(turn, sitting_out) /\ turn_token' = turn'
  /\ UNCHANGED <<people, dealer, contract, top_card, scores, hands, tricks,
                 sitting_out, table, cascading>>
  /\ pc' = botsNext'

discard(s, card) ==
  /\ phase = "DISCARDING"
  /\ s = dealer
  /\ card # top_card
  /\ Holds(cards[dealer], card)
  /\ cards' = [cards EXCEPT ![dealer] = erase(@, card)]
  /\ startPlay(sitting_out)
  /\ UNCHANGED <<people, dealer, contract, top_card, scores, premoves, tricks,
                 sitting_out, trick, trick_leader, cascading>>
  /\ pc' = botsNext'

lay_down(s) ==
  LET hand   == cards[turn]
      Some(test(_, _)) == \E i \in DOMAIN hand : test(hand[i], trump)
      ezMode == Len(trick) \in {0, Active - 1}
  IN  /\ phase = "PLAYING"
      /\ turn_token = s
      /\ Len(hand) = CardsPerHand
      /\ \A i \in DOMAIN hand : effectiveSuit(hand[i], trump) = trump
      /\ Some(isRight) /\ Some(isLeft)
      /\ Some(isTrumpAce) \/ ezMode
      /\ settle(turn % 2, IF Partner(turn) \in sitting_out THEN 4 ELSE 2,
                turn, turn_token, cards)
      /\ UNCHANGED <<people, contract, premoves, table, cascading>>
      /\ pc' = botsNext'

\* Out of turn, a card moves from the hand to the end of the queue.
premove(s, card) ==
  /\ phase = "PLAYING"
  /\ turn_token # s
  /\ s \notin sitting_out
  /\ Holds(cards[s], card)
  /\ cards' = [cards EXCEPT ![s] = erase(@, card)]
  /\ premoves' = [premoves EXCEPT ![s] = Append(@, card)]
  /\ pc' = botsNext
  /\ UNCHANGED <<people, phase, dealer, turn, contract, top_card, scores,
                 tricks, sitting_out, table, turn_token, cascading>>

undo_premove(s) ==
  /\ phase = "PLAYING"
  /\ premoves[s] # <<>>
  /\ cards' = [cards EXCEPT ![s] = @ \o premoves[s]]
  /\ premoves' = [premoves EXCEPT ![s] = <<>>]
  /\ pc' = botsNext
  /\ UNCHANGED <<people, phase, dealer, turn, contract, top_card, scores,
                 tricks, sitting_out, table, turn_token, cascading>>

\* A game starts, or starts over; bots take the empty seats.
restart ==
  /\ phase \in Waiting
  /\ seated' = 4
  /\ tricks' = Nobody /\ sitting_out' = {}
  /\ scores' = IF phase = "ENDED" THEN [t \in Team |-> 0] ELSE scores
  /\ nextHand
  /\ UNCHANGED <<humans, contract, premoves, table, cascading>>
  /\ pc' = botsNext'
-----------------------------------------------------------------------------
(* People: the requests of the clients, and who joins *)

InHand(s) == {cards[s][i] : i \in DOMAIN cards[s]}

\* addPlayer.  A started game has no empty seat.
Join ==
  /\ pc = "idle"
  /\ seated < 4
  /\ seated' = seated + 1 /\ humans' = humans + 1
  /\ IF seated = 0 THEN turn_token' = 0 /\ turn' = 0
                   ELSE UNCHANGED <<turn_token, turn>>
  /\ UNCHANGED <<phase, dealer, contract, top_card, scores, hands, tricks,
                 sitting_out, table, cascading, pc>>

Restart ==
  /\ pc = "idle"
  /\ humans \in HumanCounts
  /\ phase = "ENDED" => "rematch" \in Allowed
  /\ restart

\* The suit a request names is read in the second round only.
Order(s) ==
  /\ pc = "idle"
  /\ \E alone \in BOOLEAN :
       \E suit \in IF phase = "VOTE_ROUND1" THEN {trump} ELSE OrderSuits :
         /\ alone => "alone" \in Allowed
         /\ order(s, alone, suit)

Pass(s) == pc = "idle" /\ pass(s)

Discard(s) == pc = "idle" /\ \E card \in InHand(s) : discard(s, card)

\* While `cascading' is set the hand is not asked, so any card will do.  The
\* bound on the table keeps a trick that cannot end from growing for ever.
PlayCard(s) ==
  /\ pc = "idle"
  /\ Len(trick) < MaxTable
  /\ \E card \in IF cascading THEN ForeignCards ELSE InHand(s) :
       /\ Renege(card, erase(cards[turn], card), trick) => "renege" \in Allowed
       /\ play_card(s, card)

\* In turn, a premove is a play_card.
Premove(s) ==
  /\ pc = "idle"
  /\ "premove" \in Allowed
  /\ Len(premoves[s]) < MaxPremoves
  /\ \E card \in InHand(s) : premove(s, card)

UndoPremove(s) == pc = "idle" /\ undo_premove(s)

LayDown(s) == pc = "idle" /\ "lay_down" \in Allowed /\ lay_down(s)

\* update_name, table_talk, play_jaja_ding_dong and an undo with nothing to undo
\* leave the game alone, but like any request they let a waiting bot act.
Chat ==
  /\ pc = "idle"
  /\ botsNext = "bots"
  /\ pc' = "bots"
  /\ UNCHANGED <<people, phase, dealer, turn, contract, top_card, scores, hands,
                 tricks, sitting_out, table, turn_token, cascading>>
-----------------------------------------------------------------------------
(* The loops *)

CascadeKeepsQueue ==                                \* faulty CascadeStep
  /\ pc = "cascade"
  /\ phase = "PLAYING"
  /\ playTop(fetched(premoves[turn]), cards, premoves)
  /\ UNCHANGED cascading
  /\ pc' = cascadeNext'
CascadeLeavesFlag ==                                \* faulty CascadeStep
  /\ pc = "cascade"
  /\ phase = "PLAYING"
  /\ \E card \in {fetched(premoves[turn])},
        queued \in {[premoves EXCEPT ![turn] = Tail(@)]} :
       playTop(card, cards, queued)
  /\ cascading' = TRUE
  /\ pc' = cascadeNext'
\* cascadePremoves, one round: the front of the queue goes, a card is played.
CascadeStep ==
  /\ pc = "cascade"
  /\ phase = "PLAYING"
  /\ \E card \in {fetched(premoves[turn])},
        queued \in {[premoves EXCEPT ![turn] = Tail(@)]} :
       playTop(card, cards, queued)
  /\ UNCHANGED cascading
  /\ pc' = cascadeNext'

\* The play_card in the loop throws "not just yet": the flag stays set.
CascadeThrows ==
  /\ pc = "cascade"
  /\ phase # "PLAYING"
  /\ premoves' = [premoves EXCEPT ![turn] = Tail(@)]
  /\ cascading' = TRUE
  /\ pc' = "idle"
  /\ UNCHANGED <<people, phase, dealer, turn, contract, top_card, scores, cards,
                 tricks, sitting_out, table, turn_token>>

botVote == orderTrump(cards[turn], top_card, phase = "VOTE_ROUND1")

\* handleBotUpdates, one round.
BotVotes ==
  /\ pc = "bots"
  /\ phase \in Voting
  /\ \E vote \in {botVote} :
       IF vote.order THEN order(turn, vote.alone, vote.suit) ELSE pass(turn)

BotDiscards ==
  /\ pc = "bots"
  /\ phase = "DISCARDING"
  /\ \E card \in {botDiscard(cards[turn], trump)} : discard(turn, card)

BotPlays ==
  /\ pc = "bots"
  /\ phase = "PLAYING"
  /\ \E card \in botPlay(turn, cards[turn], trick, trump) : play_card(turn, card)

\* What a bot decides that its handler throws at: the suit turned down, passing
\* when it must not, the card it just picked up, its last card.
Refused ==
  CASE phase \in Voting ->
         \/ turn_token # turn
         \/ IF botVote.order THEN phase = "VOTE_ROUND2" /\ botVote.suit = top_card.suit
                             ELSE mustOrder
    [] phase = "DISCARDING" ->
         turn # dealer \/ botDiscard(cards[turn], trump) = top_card
    [] phase = "PLAYING" ->
         ~cascading /\ (turn_token # turn \/ CardCount(turn) = 1)
    [] OTHER -> FALSE

BotThrows ==
  /\ pc = "bots"
  /\ Refused
  /\ pc' = "idle"
  /\ UNCHANGED <<people, phase, dealer, turn, contract, top_card, scores, hands,
                 tricks, sitting_out, table, turn_token, cascading>>

\* SIGTERM: save_to_disk, exit, and the room rehydrated by the next process.
Reboot ==
  /\ "signal" \in Allowed
  /\ turn_token' = IF seated > 0 THEN turn ELSE NoSeat
  /\ cascading' = FALSE
  /\ pc' = "idle"
  /\ UNCHANGED <<people, phase, dealer, turn, contract, top_card, scores, hands,
                 tricks, sitting_out, table>>
-----------------------------------------------------------------------------
TurnMove == \E s \in Human : Order(s) \/ Pass(s) \/ Discard(s) \/ PlayCard(s)

OtherRequest ==
  \/ Restart
  \/ Chat
  \/ \E s \in Human : Premove(s) \/ UndoPremove(s) \/ LayDown(s)

Loop == CascadeStep \/ CascadeThrows \/ BotVotes \/ BotDiscards \/ BotPlays \/ BotThrows

Next == Join \/ TurnMove \/ OtherRequest \/ Loop \/ Reboot

Spec == Init /\ [][Next]_vars

\* A handler that runs goes on, and whoever holds the turn moves in the end.
FairSpec == Spec /\ WF_vars(Loop) /\ WF_vars(TurnMove)
=============================================================================
