-------------------------------- MODULE Bot --------------------------------
(***************************************************************************)
(* The decisions of a computer player (Bot.cpp).  Each is a pure function  *)
(* of the hand and of what lies on the table; the weights of Bot.cpp are   *)
(* tables no decision reads.                                               *)
(***************************************************************************)
EXTENDS Cards, Sequences, FiniteSetsExt

CONSTANTS
  OrderScore,    \* a bot orders a suit its hand scores at least this for (20)
  AloneScore     \* and goes alone from this score on (35)

ASSUME BotAssumption == /\ OrderScore \in Nat
                        /\ AloneScore \in Nat
                        /\ OrderScore =< AloneScore

scoreCardOrder(card, trump) ==
  IF card.suit = trump \/ isLeft(card, trump)
  THEN IF card.rank = JACK THEN 16 ELSE card.rank + 9
  ELSE card.rank

scoreHandForSuit(hand, trump) ==
  MapThenSumSet(LAMBDA i : scoreCardOrder(hand[i], trump), DOMAIN hand)

\* ranges::min_element and max_element: the first of the best positions.
FirstMin(S, score(_)) ==
  CHOOSE i \in S : \A j \in S : \/ score(i) < score(j)
                                \/ score(i) = score(j) /\ i =< j
FirstMax(S, score(_)) == FirstMin(S, LAMBDA i : -score(i))

\* In the first round the turned-up suit is the only candidate, in the second
\* every other suit is, in the order of the enum.
orderTrump(hand, top, round1) ==
  LET good == {s \in Suit : /\ s = top.suit <=> round1
                            /\ scoreHandForSuit(hand, s) >= OrderScore}
  IN  IF good = {} THEN [order |-> FALSE]
      ELSE [order |-> TRUE,
            suit  |-> Min(good),
            alone |-> scoreHandForSuit(hand, Min(good)) >= AloneScore]

discardLowest(hand, trump) ==                          \* faulty botDiscard
  LET rank(i) == hand[i].rank
  IN  hand[FirstMin(DOMAIN hand, rank)]
\* The card a bot dealer gives up: a lone off-suit card, else the lowest
\* off-suit card, else the lowest card.
botDiscard(hand, trump) ==
  LET offSuit == {i \in DOMAIN hand : hand[i].suit # trump}
      single  == {i \in offSuit : \A j \in DOMAIN hand :
                                     hand[j].suit = hand[i].suit => j = i}
      rank(i) == hand[i].rank
  IN  hand[IF single # {} THEN Min(single)
           ELSE FirstMin(IF offSuit # {} THEN offSuit ELSE DOMAIN hand, rank)]

\* The cards a bot may lead: sort_hands_by_value leaves the order of equals open.
botLead(hand, trump) ==
  LET score(i) == scoreCardOrder(hand[i], trump)
  IN  {hand[i] : i \in {k \in DOMAIN hand :
                          \A j \in DOMAIN hand : score(j) =< score(k)}}

botFollowAny(id, hand, stack, trump) ==                \* faulty botFollow
  LET score(i) == scoreCard(hand[i], trump, stack[1].card.suit)
  IN  hand[FirstMax(DOMAIN hand, score)]
\* The card a bot adds to a trick `stack' (of cards tagged with their seat).
botFollow(id, hand, stack, trump) ==
  LET led         == stack[1].card.suit
      score(i)    == scoreCard(hand[i], trump, led)
      onTable(k)  == scoreCard(stack[k].card, trump, led)
      legal       == {i \in DOMAIN hand : \/ hand[i].suit = led
                                          \/ isLeft(hand[i], trump)}
      choices     == IF legal # {} THEN legal ELSE DOMAIN hand
      high        == FirstMax(choices, score)
      teamWinning == stack[FirstMax(DOMAIN stack, onTable)].id % 2 = id % 2
      willWin     == \A k \in DOMAIN stack : score(high) > onTable(k)
  IN  IF willWin /\ ~(legal # {} /\ teamWinning)
      THEN hand[high] ELSE hand[FirstMin(choices, score)]

botPlay(id, hand, stack, trump) ==
  IF stack = <<>> THEN botLead(hand, trump)
  ELSE {botFollow(id, hand, stack, trump)}
=============================================================================
