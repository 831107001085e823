------------------------------- MODULE Cards -------------------------------
(***************************************************************************)
(* The 24-card euchre deck and the pure rules on cards: Utils.hpp and the  *)
(* helper effectiveSuit of Game.cpp.  Suits and ranks are the integers of  *)
(* the enums, because the bots iterate over suits and compare ranks.       *)
(***************************************************************************)
EXTENDS Integers

DIAMONDS == 0
CLUBS    == 1
SPADES   == 2
HEARTS   == 3
Suit     == DIAMONDS .. HEARTS

NINE  == 0
TEN   == 1
JACK  == 2
QUEEN == 3
KING  == 4
ACE   == 5
Rank  == NINE .. ACE

Card == [suit : Suit, rank : Rank]

color(suit) == IF suit \in {DIAMONDS, HEARTS} THEN 0 ELSE 1

isBauer(card, trump)    == card.rank = JACK /\ color(trump) = color(card.suit)
isLeft(card, trump)     == isBauer(card, trump) /\ trump # card.suit
isRight(card, trump)    == card.rank = JACK /\ trump = card.suit
isTrumpAce(card, trump) == card.rank = ACE /\ trump = card.suit

printedSuit(card, trump) == card.suit               \* faulty effectiveSuit
\* The left bauer belongs to the trump suit, whatever is printed on it.
effectiveSuit(card, trump) == IF isLeft(card, trump) THEN trump ELSE card.suit

\* The strength of a card in a trick led with the suit `led'; 0 never wins.
scoreCard(card, trump, led) ==
  IF isBauer(card, trump) THEN IF trump = card.suit THEN 50 ELSE 49
  ELSE IF card.suit = trump THEN card.rank + 1 + 25
  ELSE IF card.suit = led THEN card.rank + 1
  ELSE 0
=============================================================================
