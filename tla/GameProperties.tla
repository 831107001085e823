--------------------------- MODULE GameProperties ---------------------------
(***************************************************************************)
(* What a room promises its players, stated over the state of Game.        *)
(***************************************************************************)
EXTENDS Game

Play    == [card : Card, id : Seat]
Verdict == [card : Card, id : Seat, illegal : BOOLEAN]

\* The part of the type invariant that speaks of control, not of cards.
ControlTypeOK ==
  /\ seated \in 0 .. 4 /\ humans \in 0 .. seated
  /\ phase \in Phase
  /\ dealer \in Seat /\ turn \in Seat /\ caller \in Seat /\ trick_leader \in Seat
  /\ turn_token \in Seat \cup {NoSeat}
  /\ scores \in [Team -> Nat] /\ tricks \in [Seat -> Nat]
  /\ sitting_out \subseteq Seat
  /\ cascading \in BOOLEAN
  /\ pc \in {"idle", "cascade", "bots"}

\* Every variable has its type (the fields of GameState and Game, Game.h).
TypeOK ==
  /\ ControlTypeOK
  /\ trump \in Suit /\ top_card \in Card \cup {NoCard}
  /\ cards \in [Seat -> Seq(Card)] /\ premoves \in [Seat -> Seq(Card)]
  /\ trick \in Seq(Play) /\ played_cards \subseteq Verdict
-----------------------------------------------------------------------------
(* Whose turn it is *)

\* The session that may act is the one of the seat at turn, across votes, tricks,
\* hands, loners and restarts; a discard is asked of the dealer whoever holds it.
TurnHoldsToken ==
  IF phase = "DISCARDING" THEN turn = dealer /\ turn_token \in {caller, dealer}
  ELSE seated > 0 => turn_token = turn

\* At most the caller's partner sits out, only while the caller's contract is
\* played, and never the dealer who must discard.
SitterIsCallersPartner ==
  /\ sitting_out \subseteq {Partner(caller)}
  /\ sitting_out # {} => phase \in {"DISCARDING", "PLAYING"}
  /\ phase = "DISCARDING" => dealer \notin sitting_out

\* The cards on the table came from consecutive seats from the leader on, the
\* sitter skipped, and the next of them is at turn: endTrick relies on it when it
\* works out who played the best card from the leader's seat alone.
TrickSeats ==
  phase = "PLAYING" =>
    /\ turn \notin sitting_out
    /\ Len(trick) < Active
    /\ \A i \in DOMAIN trick : trick[i].id = TurnOrder(trick_leader)[i]
    /\ trick # <<>> => turn = TurnOrder(trick_leader)[Len(trick) + 1]

\* Whoever is at turn between two requests has a card play_card accepts: the
\* server itself plays everybody's last card.
TurnCanPlay ==
  phase = "PLAYING" /\ pc = "idle" => CardCount(turn) > 1

\* Tricks are counted within a hand only, and when a request or a round of a loop
\* is over at least two are still to come: the last one never waits for anybody.
TricksAreTallied ==
  /\ Total(tricks) =< CardsPerHand - 2
  /\ phase # "PLAYING" => tricks = Nobody
-----------------------------------------------------------------------------
(* The cards *)

\* Nobody is ever a card short or over: a hand shrinks by one with each trick,
\* played or premoved, and only the dealer holds one more while discarding.
HandSizes ==
  \A s \in Seat :
    /\ phase \in Voting \cup {"DISCARDING"} =>
         /\ Len(cards[s]) = CardsPerHand + IF phase = "DISCARDING" /\ s = dealer
                                           THEN 1 ELSE 0
         /\ premoves[s] = <<>>
    /\ phase = "PLAYING" =>
         CardCount(s) + (IF \E i \in DOMAIN trick : trick[i].id = s THEN 1 ELSE 0)
           = CardsPerHand - IF s \in sitting_out THEN 0 ELSE Total(tricks)

Held(s)  == InHand(s) \cup {premoves[s][i] : i \in DOMAIN premoves[s]}
AllCards == (UNION {Held(s) : s \in Seat}) \cup {p.card : p \in played_cards}

\* While a hand is played every card dealt is in exactly one place: a hand, a
\* queue of premoves, or among the cards played.
CardsInOnePlace ==
  phase = "PLAYING" =>
    /\ Cardinality(AllCards) = 4 * CardsPerHand
    /\ CardCount(0) + CardCount(1) + CardCount(2) + CardCount(3)
         + Cardinality(played_cards) = 4 * CardsPerHand

\* A hand's record holds one card of every active seat per trick, and the cards
\* on the table are the newest of it.
RecordMatchesTable ==
  phase = "PLAYING" =>
    /\ Cardinality(played_cards) = Active * Total(tricks) + Len(trick)
    /\ \A i \in DOMAIN trick : \E p \in played_cards :
         p.card = trick[i].card /\ p.id = trick[i].id

\* No seat waits for its player while it has a premove that can be played.
PremovesPlayOut == phase = "PLAYING" /\ pc = "idle" => ~premoveAvailable(turn)

\* What the asserts of Bot.cpp ask for holds whenever a bot is asked to decide.
BotPreconditions ==
  pc = "bots" =>
    /\ phase \in Voting => Len(cards[turn]) = CardsPerHand /\ top_card # NoCard
    /\ cards[turn] # <<>>
    /\ premoves[turn] = <<>>

\* A bot's decision is refused in two situations only: it deals and finds no suit
\* good enough in the second round, or all it holds are six trumps of which the
\* one it picked up is the lowest.
BotsActLegally ==
  pc = "bots" /\ Refused =>
    /\ turn = dealer
    /\ phase \in {"VOTE_ROUND2", "DISCARDING"}
    /\ phase = "DISCARDING" => \A i \in DOMAIN cards[turn] :
         cards[turn][i].suit = trump /\ cards[turn][i].rank >= top_card.rank

\* A card played was held by its player: the answer "you don't have that card" of
\* play_card, discard and premove is for every card that was not.
CardsAreHeld ==
  [][\A p \in played_cards' \ played_cards :
       \/ p.card \in InHand(p.id)
       \/ \E i \in DOMAIN premoves[p.id] : premoves[p.id][i] = p.card]_vars

\* The card premoved first is the one that is played when the turn comes.
PremovePlaysChosenCard ==
  [][pc = "cascade" /\ played_cards' # played_cards =>
       \E p \in played_cards' \ played_cards :
         p.card = Head(premoves[turn]) /\ p.id = turn]_vars

\* Bots follow suit but for the left bauer, which they take for a card of its printed
\* suit: the server records a renege of theirs only where it was led or was held.
BotsRenegeOnBauers ==
  [][\A p \in played_cards' \ played_cards :
       p.illegal /\ p.id \notin Human =>
         \E card \in InHand(p.id) \cup {trick[1].card} : isLeft(card, trump)]_vars
-----------------------------------------------------------------------------
(* The score *)

\* The game has ended exactly when a team has reached the winning score, one team
\* only, and no hand is worth more than four points.
ScoresDecideEnd ==
  /\ phase = "ENDED" <=> \E t \in Team : scores[t] >= WinningScore
  /\ \E t \in Team : scores[t] < WinningScore
  /\ \A t \in Team : scores[t] < WinningScore + 4

(* The rules of euchre, in the order of the cards and not by scores. *)
TrumpRank(card) == IF isRight(card, trump) THEN 8
                   ELSE IF isLeft(card, trump) THEN 7 ELSE card.rank
Beats(a, b, led) ==
  LET suitA == effectiveSuit(a, trump)
      suitB == effectiveSuit(b, trump)
  IN  \/ suitA = trump /\ (suitB # trump \/ TrumpRank(a) > TrumpRank(b))
      \/ suitA = led /\ suitB # trump /\ (suitB # led \/ a.rank > b.rank)
Winner(plays, ledCard) ==
  CHOOSE s \in Seat : \E p \in plays :
    /\ p.id = s
    /\ \A q \in plays : ~Beats(q.card, p.card, effectiveSuit(ledCard, trump))

OnTable   == {trick[i] : i \in DOMAIN trick}
NewPlays  == {[card |-> p.card, id |-> p.id] : p \in played_cards' \ played_cards}

\* A trick goes to the best card on the table, the led suit and trump considered
\* with the left bauer, and its player leads the next.
TrickGoesToBestCard ==
  [][trick # <<>> /\ trick' = <<>> /\ phase' = "PLAYING" =>
       LET winner == Winner(OnTable \cup NewPlays, trick[1].card)
       IN  /\ turn' = winner
           /\ tricks' = [tricks EXCEPT ![winner] = @ + 1]]_vars

\* The outcome of a hand by the rules: makers score 1, 2 for all tricks, 4 for all
\* tricks alone; the others 2 if the makers fail to win most tricks.
Outcome(won) ==
  LET made == won[caller] + won[Partner(caller)]
  IN  IF made = CardsPerHand THEN [team |-> caller % 2, points |-> IF sitting_out # {} THEN 4 ELSE 2]
      ELSE IF 2 * made > CardsPerHand THEN [team |-> caller % 2, points |-> 1]
      ELSE [team |-> 1 - (caller % 2), points |-> 2]

\* A played-out hand is scored by those rules: the last two tricks, of which the
\* server plays the second, go to their best cards, and the tricks decide.
HandScoredByRules ==
  [][trick # <<>> /\ trick' = <<>> /\ phase' # "PLAYING" =>
       \E play \in NewPlays :
         LET first  == Winner(OnTable \cup {play}, trick[1].card)
             last   == NewPlays \ {play}
             led    == (CHOOSE p \in last : p.id = first).card
             second == Winner(last, led)
             won1   == [tricks EXCEPT ![first] = @ + 1]
             result == Outcome([won1 EXCEPT ![second] = @ + 1])
         IN  /\ play.id = turn
             /\ scores' = [scores EXCEPT ![result.team] = @ + result.points]]_vars
-----------------------------------------------------------------------------
(* The scoreboard *)

InContract == phase \in {"DISCARDING", "PLAYING"}

Board == INSTANCE Scoreboard WITH
           status <- CASE phase = "LOBBY" -> "lobby" [] phase \in Voting -> "bidding"
                       [] InContract -> "playing" [] phase = "ENDED" -> "over",
           makers <- IF InContract THEN caller % 2 ELSE -1,
           alone  <- sitting_out # {}

\* A room keeps the score of a euchre table: whatever happens to the cards, points
\* are only scored for a hand that was played, by one team, as many as the contract
\* is worth, once per deal, and a game is won once and starts at nil.
KeepsScore == Board!BoardSpec
-----------------------------------------------------------------------------
(* Control as a whole *)

\* A game that has left the lobby has its four seats taken.
SeatsAreFilled == phase = "LOBBY" \/ seated = 4

\* The invariants of the control state, which hold together, step by step, for
\* any deals and any requests (GameProofs).
IInv ==
  /\ ControlTypeOK
  /\ SeatsAreFilled
  /\ TurnHoldsToken
  /\ SitterIsCallersPartner
  /\ TricksAreTallied
  /\ ScoresDecideEnd
-----------------------------------------------------------------------------
(* The cards as a whole *)

\* A hand laid down leaves the trick on the table and the premoves queued: what is
\* said of cards below holds as long as there are none of either when that is done.
CleanLayDown ==
  \A s \in Human : LayDown(s) => trick = <<>> /\ \A t \in Seat : premoves[t] = <<>>

\* A shutdown between two premoves leaves the second to the requests to come.
UncutCascade == Reboot => pc # "cascade"

NoneTwice(hand, queue) ==
  /\ \A i, j \in DOMAIN hand  : hand[i] = hand[j] => i = j
  /\ \A i, j \in DOMAIN queue : queue[i] = queue[j] => i = j
  /\ \A i \in DOMAIN hand, j \in DOMAIN queue : hand[i] # queue[j]

CardTypeOK ==
  /\ trump \in Suit /\ top_card \in Card \cup {NoCard}
  /\ cards \in [Seat -> Seq(Card)] /\ premoves \in [Seat -> Seq(Card)]
  /\ trick \in Seq(Play) /\ played_cards \subseteq Verdict

\* While it is voted on, the top card is in no hand; then its suit is trump and the
\* dealer has it in hand until the discard.
TopCardIsTurnedUp ==
  /\ phase \in Voting => top_card \in Card /\ \A s \in Seat : top_card \notin InHand(s)
  /\ phase = "DISCARDING" => trump = top_card.suit /\ top_card \in InHand(dealer)

\* Premoves are of people who play this hand.
QueuesArePlayers ==
  \A s \in Seat : premoves[s] # <<>> =>
    phase = "PLAYING" /\ s \in Human /\ s \notin sitting_out

\* The loops run where they have something to do, and cascadePremoves never throws.
LoopsHaveWork ==
  /\ ~cascading
  /\ pc = "cascade" => phase = "PLAYING" /\ premoveAvailable(turn)
  /\ pc = "bots" => phase \notin Waiting /\ IsBot(turn)

\* Whoever led the cards on the table plays this hand.
LeaderPlays == phase = "PLAYING" /\ trick # <<>> => trick_leader \notin sitting_out

\* What the invariants about cards need of one another: on a table where hands are
\* laid down cleanly it is inductive together with IInv (CardProofs).
CardsInOrder ==
  /\ CardTypeOK
  /\ phase \notin Waiting => \A s \in Seat : NoneTwice(cards[s], premoves[s])
  /\ TopCardIsTurnedUp
  /\ QueuesArePlayers
  /\ phase # "PLAYING" => trick = <<>>
  /\ LeaderPlays
  /\ TrickSeats
  /\ HandSizes
CardIInv == CardsInOrder /\ LoopsHaveWork

\* A queue of one card is played as it stands; of a longer one the second card is
\* played and the first is gone, and what is said of the record no longer holds.
SingleCascade == CascadeStep => Len(premoves[turn]) = 1

HandsApart == phase \notin Waiting => \A s, t \in Seat : s # t => Held(s) \cap Held(t) = {}

\* No card is played twice in a hand, by anybody, nor played and held.
PlayedOnce ==
  phase = "PLAYING" =>
    /\ IsFiniteSet(played_cards)
    /\ \A p, q \in played_cards : p.card = q.card => p = q
    /\ \A p \in played_cards, s \in Seat : p.card \notin Held(s)

\* The invariants of the record of a hand, inductive together with CardIInv on a table
\* where hands are laid down cleanly and one card is premoved at a time.
RecordIInv ==
  /\ HandsApart
  /\ PlayedOnce
  /\ RecordMatchesTable
  /\ CardsInOnePlace
-----------------------------------------------------------------------------
(* Progress *)

\* A vote ends with a contract: the dealer of the second round must name a suit.
VotesSettle == phase \in Voting ~> phase \notin Voting

\* A game that starts reaches its winner: no vote, discard, trick or deal is the
\* last thing that happens.
GameEnds == phase \notin Waiting ~> phase = "ENDED"
=============================================================================
