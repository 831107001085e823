-------------------------- MODULE ScoreboardProofs --------------------------
(***************************************************************************)
(* A room implements the scoreboard, for every deal, every hand size and   *)
(* every winning score.  The steps that are not seen on the board leave    *)
(* the phase, as the board tells phases apart, the score, the dealer, the  *)
(* caller and the sitter alone; the others are an order, the end of a hand *)
(* and the start of a game.                                                *)
(***************************************************************************)
EXTENDS GameProofs

USE DEF Seat, Team

BoardStep == [Board!BoardNext]_(Board!board)

\* Nobody has points before the first game: the start of a game resets the score
\* of the game before only.
NewRoom == phase = "LOBBY" => scores = [t \in Team |-> 0]

\* What is not seen on the board.
LEMMA UnseenSteps ==
  ASSUME \/ phase' = phase
         \/ phase \in Voting /\ phase' \in Voting
         \/ InContract /\ InContract',
         UNCHANGED <<scores, dealer, caller, sitting_out>>
  PROVE  UNCHANGED Board!board
BY DEF Board!board, InContract, Voting

\* The end of a hand: a score the contract allows, and the next deal or the end.
LEMMA SettleScores ==
  ASSUME IInv, phase = "PLAYING", NEW team \in Team, NEW points \in {1, 2, 4},
         NEW last, NEW token, NEW left,
         points \in Board!Worth(team),
         settle(team, points, last, token, left)
  PROVE  Board!BoardNext
<1> USE GameAssumption
<1>1. /\ sitting_out' = {}
      /\ scores' = [scores EXCEPT ![team] = @ + points]
      /\ \/ /\ ends(scores[team] + points)
            /\ phase' = "ENDED" /\ UNCHANGED dealer
         \/ /\ ~ends(scores[team] + points)
            /\ phase' = "VOTE_ROUND1" /\ dealer' = Left(dealer)
  BY DEF settle, nextHand
<1>2. scores[team] \in Nat /\ WinningScore \in Nat
  BY DEF IInv, ControlTypeOK
<1>3. Board!Scores(team, points)
  <2>1. CASE ends(scores[team] + points)
    BY <1>1, <1>2, <2>1
      DEF Board!Scores, Board!NoTeam, InContract, Voting, ends
  <2>2. CASE ~ends(scores[team] + points)
    BY <1>1, <1>2, <2>2
      DEF Board!Scores, Board!NextDeal, Board!NoTeam, InContract, Voting, ends, Left
  <2> QED
    BY <2>1, <2>2
<1> QED
  BY <1>3 DEF Board!BoardNext, Board!Team

\* A hand that is played out: who has taken more tricks scores what the contract is
\* worth, and a loner's points only go to the caller's team.
LEMMA EndHandScores ==
  ASSUME IInv, phase = "PLAYING", NEW won, NEW last, NEW left,
         endHand(won, last, left)
  PROVE  Board!BoardNext
<1>1. PICK winner \in Team, sweep \in BOOLEAN, loner \in BOOLEAN :
        /\ loner <=> {winner, winner + 2} \cap sitting_out # {}
        /\ settle(winner, worth(sweep, loner, caller % 2 # winner), last, last, left)
  <2> DEFINE t0 == won[0] + won[2]
             t1 == won[1] + won[3]
             winner == IF t0 > t1 THEN 0 ELSE 1
             sweep  == CardsPerHand \in {t0, t1}
             loner  == {winner, winner + 2} \cap sitting_out # {}
  <2>1. settle(winner, worth(sweep, loner, caller % 2 # winner), last, last, left)
    BY Zenon DEF endHand
  <2>2. winner \in Team /\ sweep \in BOOLEAN /\ loner \in BOOLEAN
    OBVIOUS
  <2> QED
    BY <2>1, <2>2, Zenon
<1>2. caller \in Seat /\ sitting_out \subseteq {Partner(caller)}
  BY DEF IInv, ControlTypeOK, SitterIsCallersPartner
<1>3. /\ loner => winner = caller % 2
      /\ loner => sitting_out # {}
  <2> SUFFICES ASSUME loner PROVE winner = caller % 2 /\ sitting_out # {}
    OBVIOUS
  <2>1. PICK s \in sitting_out : s \in {winner, winner + 2}
    BY <1>1
  <2>2. s = Partner(caller)
    BY <1>2
  <2> QED
    BY <1>2, <2>1, <2>2 DEF Partner
<1>4. /\ worth(sweep, loner, caller % 2 # winner) \in {1, 2, 4}
      /\ worth(sweep, loner, caller % 2 # winner) \in Board!Worth(winner)
  BY <1>3 DEF worth, Board!Worth, InContract
<1> QED
  BY <1>1, <1>4, SettleScores

LEMMA LastTrickScores ==
  ASSUME IInv, phase = "PLAYING", NEW leader, NEW won, NEW played, NEW own, NEW queued,
         lastTrick(leader, won, played, own, queued)
  PROVE  Board!BoardNext
<1>1. \E w, last, left : endHand(w, last, left)
  BY Zenon DEF lastTrick
<1> QED
  BY <1>1, EndHandScores

\* A card played is not seen, or it is the one with which a hand ends.
LEMMA PlayTopOnBoard ==
  ASSUME IInv, phase = "PLAYING", NEW card, NEW own, NEW queued,
         playTop(card, own, queued)
  PROVE  BoardStep
<1>1. UNCHANGED caller
  BY DEF playTop, contract
<1>2. \/ UNCHANGED <<phase, dealer, scores, sitting_out>>
      \/ \E leader, stack, played : endTrick(stack, leader, played, own, queued)
  BY Zenon DEF playTop
<1>3. CASE UNCHANGED <<phase, dealer, scores, sitting_out>>
  BY <1>1, <1>3, UnseenSteps DEF BoardStep
<1>4. ASSUME NEW leader, NEW stack, NEW played,
             endTrick(stack, leader, played, own, queued)
      PROVE  BoardStep
  <2>1. \/ UNCHANGED <<phase, dealer, scores, sitting_out>>
        \/ \E winner, won : lastTrick(winner, won, played, own, queued)
    BY <1>4, Zenon DEF endTrick
  <2> QED
    BY <1>1, <2>1, LastTrickScores, UnseenSteps DEF BoardStep
<1> QED
  BY <1>2, <1>3, <1>4

\* An order makes trump for the caller's team.
LEMMA OrderOnBoard ==
  ASSUME IInv, NEW s, NEW alone, NEW suit, order(s, alone, suit)
  PROVE  BoardStep
<1>1. /\ phase \in Voting /\ caller' = turn
      /\ UNCHANGED <<dealer, scores>>
      /\ phase' \in {"DISCARDING", "PLAYING"}
  <2>1. phase' = "DISCARDING" \/ startPlay(sitting_out')
    BY Zenon DEF order
  <2> QED
    BY <2>1 DEF order, startPlay
<1>2. turn \in Seat /\ sitting_out = {}
  BY <1>1 DEF IInv, ControlTypeOK, SitterIsCallersPartner, Voting
<1>3. /\ turn % 2 \in Team
      /\ Board!MakesTrump(turn % 2, sitting_out' # {})
  BY <1>1, <1>2 DEF Board!MakesTrump, InContract, Voting
<1>4. (sitting_out' # {}) \in BOOLEAN
  OBVIOUS
<1> QED
  BY <1>3, <1>4 DEF BoardStep, Board!BoardNext, Board!Team

LEMMA PassOnBoard ==
  ASSUME NEW s, pass(s)
  PROVE  BoardStep
<1>1. /\ phase \in Voting /\ phase' \in Voting
      /\ UNCHANGED <<scores, dealer, caller, sitting_out>>
  BY DEF pass, contract, Voting
<1> QED
  BY <1>1, UnseenSteps DEF BoardStep

LEMMA DiscardOnBoard ==
  ASSUME NEW s, NEW card, discard(s, card)
  PROVE  BoardStep
<1>1. /\ phase = "DISCARDING" /\ phase' = "PLAYING"
      /\ UNCHANGED <<scores, dealer, caller, sitting_out>>
  BY DEF discard, startPlay, contract
<1> QED
  BY <1>1, UnseenSteps DEF BoardStep, InContract

LEMMA PlayCardOnBoard ==
  ASSUME IInv, NEW s, NEW card, play_card(s, card)
  PROVE  BoardStep
<1>1. phase = "PLAYING" /\ \E own : playTop(card, own, premoves)
  BY Zenon DEF play_card
<1> QED
  BY <1>1, PlayTopOnBoard

\* Whoever lays down scores for a hand of its own team's or stops the makers'.
LEMMA LayDownOnBoard ==
  ASSUME IInv, NEW s, lay_down(s)
  PROVE  BoardStep
<1>1. /\ phase = "PLAYING"
      /\ settle(turn % 2, IF Partner(turn) \in sitting_out THEN 4 ELSE 2,
                turn, turn_token, cards)
  BY Zenon DEF lay_down
<1>2. /\ turn \in Seat /\ caller \in Seat /\ sitting_out \subseteq {Partner(caller)}
  BY DEF IInv, ControlTypeOK, SitterIsCallersPartner
<1>3. turn % 2 \in Team /\ (Partner(turn) \in sitting_out => turn % 2 = caller % 2)
  BY <1>2 DEF Partner
<1>4. (IF Partner(turn) \in sitting_out THEN 4 ELSE 2) \in Board!Worth(turn % 2)
  BY <1>1, <1>3 DEF Board!Worth, InContract
<1>5. PICK points \in {1, 2, 4} :
        /\ points \in Board!Worth(turn % 2)
        /\ settle(turn % 2, points, turn, turn_token, cards)
  BY <1>1, <1>4
<1> QED
  BY <1>1, <1>3, <1>5, SettleScores DEF BoardStep

\* A game starts at nil all.
LEMMA RestartOnBoard ==
  ASSUME NewRoom, restart
  PROVE  BoardStep
<1>1. /\ phase \in Waiting /\ sitting_out' = {}
      /\ scores' = [t \in Team |-> 0]
      /\ phase' = "VOTE_ROUND1" /\ dealer' = Left(dealer)
  BY DEF restart, nextHand, NewRoom, Waiting
<1>2. Board!Starts
  BY <1>1 DEF Board!Starts, Board!NextDeal, Board!Nil, Board!NoTeam, Board!Team,
              InContract, Voting, Waiting, Left
<1> QED
  BY <1>2 DEF BoardStep, Board!BoardNext
-----------------------------------------------------------------------------
(* The steps of a room, on the board *)

LEMMA MovesOnBoard ==
  ASSUME IInv, TurnMove
  PROVE  BoardStep
<1>1. PICK s \in Human : Order(s) \/ Pass(s) \/ Discard(s) \/ PlayCard(s)
  BY DEF TurnMove
<1>2. \/ \E alone, suit : order(s, alone, suit)
      \/ pass(s)
      \/ \E card : discard(s, card)
      \/ \E card : play_card(s, card)
  BY <1>1, Zenon DEF Order, Pass, Discard, PlayCard
<1> QED
  BY <1>2, OrderOnBoard, PassOnBoard, DiscardOnBoard, PlayCardOnBoard

LEMMA RequestsOnBoard ==
  ASSUME IInv, NewRoom, OtherRequest
  PROVE  BoardStep
<1>1. CASE Restart
  BY <1>1, RestartOnBoard DEF Restart
<1>2. CASE Chat
  BY <1>2, UnseenSteps DEF Chat, BoardStep, contract
<1>3. ASSUME NEW s, Premove(s) \/ UndoPremove(s)
      PROVE  BoardStep
  <2>1. (\E card : premove(s, card)) \/ undo_premove(s)
    BY <1>3, Zenon DEF Premove, UndoPremove
  <2>2. UNCHANGED <<phase, scores, dealer, caller, sitting_out>>
    BY <2>1 DEF premove, undo_premove, contract
  <2> QED
    BY <2>2, UnseenSteps DEF BoardStep
<1>4. ASSUME NEW s, LayDown(s)
      PROVE  BoardStep
  BY <1>4, LayDownOnBoard DEF LayDown
<1> QED
  BY <1>1, <1>2, <1>3, <1>4 DEF OtherRequest

LEMMA LoopOnBoard ==
  ASSUME IInv, Loop
  PROVE  BoardStep
<1>1. CASE CascadeStep
  <2>1. phase = "PLAYING" /\ \E card, queued : playTop(card, cards, queued)
    BY <1>1, Zenon DEF CascadeStep
  <2> QED
    BY <2>1, PlayTopOnBoard
<1>2. CASE CascadeThrows \/ BotThrows
  BY <1>2, UnseenSteps DEF CascadeThrows, BotThrows, BoardStep, contract
<1>3. CASE BotVotes
  <2>1. (\E alone, suit : order(turn, alone, suit)) \/ pass(turn)
    BY <1>3, Zenon DEF BotVotes
  <2> QED
    BY <2>1, OrderOnBoard, PassOnBoard
<1>4. CASE BotDiscards
  <2>1. \E card : discard(turn, card)
    BY <1>4, Zenon DEF BotDiscards
  <2> QED
    BY <2>1, DiscardOnBoard
<1>5. CASE BotPlays
  <2>1. \E card : play_card(turn, card)
    BY <1>5, Zenon DEF BotPlays
  <2> QED
    BY <2>1, PlayCardOnBoard
<1> QED
  BY <1>1, <1>2, <1>3, <1>4, <1>5 DEF Loop

\* Every step of a room is a step on the board, or none.
LEMMA NextOnBoard == IInv /\ NewRoom /\ [Next]_vars => BoardStep
<1> SUFFICES ASSUME IInv, NewRoom, [Next]_vars PROVE BoardStep
  OBVIOUS
<1>1. CASE Join \/ Reboot
  BY <1>1, UnseenSteps DEF Join, Reboot, BoardStep, contract
<1>2. CASE UNCHANGED vars
  BY <1>2, UnseenSteps DEF vars, contract, BoardStep
<1> QED
  BY <1>1, <1>2, MovesOnBoard, RequestsOnBoard, LoopOnBoard DEF Next

\* No step on the board leads back to the lobby.
LEMMA NextKeepsNewRoom == IInv /\ NewRoom /\ [Next]_vars => NewRoom'
<1> SUFFICES ASSUME IInv, NewRoom, [Next]_vars PROVE NewRoom'
  OBVIOUS
<1>1. CASE Board!BoardNext
  BY <1>1 DEF NewRoom, Board!BoardNext, Board!Starts, Board!NextDeal, Board!MakesTrump,
              Board!Scores, InContract, Voting
<1>2. CASE UNCHANGED Board!board
  <2>1. phase' = "LOBBY" => phase = "LOBBY"
    <3>1. phase \in Phase
      BY DEF IInv, ControlTypeOK
    <3> QED
      BY <1>2, <3>1 DEF Board!board, InContract, Voting, Waiting, Phase
  <2> QED
    BY <1>2, <2>1 DEF NewRoom, Board!board
<1> QED
  BY <1>1, <1>2, NextOnBoard DEF BoardStep

\* A room keeps the score of a euchre table (endHand, lay_down, order, restart and
\* endGame of Game.cpp implement Scoreboard): points are scored once per deal, for
\* one team, as the contract is worth, whatever is dealt and whoever plays.
THEOREM RoomsKeepScore == Spec => KeepsScore
<1>1. Init => Board!BoardInit /\ NewRoom
  BY DEF Init, Board!BoardInit, Board!Nil, Board!NoTeam, Board!Team, NewRoom,
         InContract
<1>2. IInv /\ NewRoom /\ [Next]_vars => NewRoom' /\ [Board!BoardNext]_(Board!board)
  BY NextKeepsNewRoom, NextOnBoard DEF BoardStep
<1> QED
  BY <1>1, <1>2, ControlIsInOrder, PTL DEF Spec, KeepsScore, Board!BoardSpec
=============================================================================
