------------------------------ MODULE BotProofs ------------------------------
(***************************************************************************)
(* The decisions of the bots (Bot.cpp), proved for every hand: the ones    *)
(* their own handlers refuse, and the ones the server records as reneges.  *)
(***************************************************************************)
EXTENDS TableProofs, WellFoundedInduction

(* The first of the best *)

\* Every set of natural numbers that is not empty has a least element.
LEMMA LeastNat ==
  ASSUME NEW S \in SUBSET Nat, S # {}
  PROVE  \E m \in S : \A n \in S : m =< n
<1> DEFINE R == {pair \in Nat \X Nat : pair[1] < pair[2]}
<1>1. IsWellFoundedOn(R, Nat)
  BY NatLessThanWellFounded DEF OpToRel
<1>2. \A m, n \in Nat : <<n, m>> \in R <=> n < m
  OBVIOUS
<1> HIDE DEF R
<1>3. PICK m \in S : \A n \in S : ~(<<n, m>> \in R)
  BY <1>1, WFMin
<1>4. ASSUME NEW n \in S
      PROVE  m =< n
  <2>1. m \in Nat /\ n \in Nat
    OBVIOUS
  <2>2. ~(n < m)
    BY <1>2, <1>3, <2>1
  <2> QED
    BY <2>1, <2>2
<1> QED
  BY <1>4

\* Whatever positions are compared by, there is a first one among the least: what
\* ranges::min_element and max_element look for.
LEMMA FirstOfLeast ==
  ASSUME NEW S \in SUBSET Nat, S # {}, NEW value \in [S -> -99 .. 99]
  PROVE  \E i \in S : \A j \in S : \/ value[i] < value[j]
                                   \/ value[i] = value[j] /\ i =< j
<1> DEFINE up(i) == value[i] + 99
<1>1. \A i \in S : value[i] \in Int /\ up(i) \in Nat
  OBVIOUS
<1>2. PICK i0 \in S : \A j \in S : up(i0) =< up(j)
  <2> DEFINE T == {up(i) : i \in S}
  <2>1. T \in SUBSET Nat /\ T # {}
    BY <1>1
  <2>2. PICK m \in T : \A n \in T : m =< n
    <3> HIDE DEF T
    <3> QED
      BY <2>1, LeastNat
  <2> QED
    BY <2>2
<1> DEFINE best == {i \in S : value[i] = value[i0]}
<1>3. best \in SUBSET Nat /\ best # {}
  OBVIOUS
<1>4. PICK i \in best : \A j \in best : i =< j
  <2> HIDE DEF best
  <2> QED
    BY <1>3, LeastNat
<1>5. ASSUME NEW j \in S
      PROVE  \/ value[i] < value[j]
             \/ value[i] = value[j] /\ i =< j
  <2>1. value[i0] =< value[j] /\ value[i] = value[i0]
    BY <1>1, <1>2, <1>4
  <2> QED
    BY <1>1, <1>4, <2>1
<1> QED
  BY <1>4, <1>5
-----------------------------------------------------------------------------
(* Discarding *)

\* Among the positions in S of a hand there is a lowest card, and the bot finds it.
LEMMA FirstLowestCard ==
  ASSUME NEW hand \in Seq(Card), NEW S \in SUBSET DOMAIN hand, S # {}
  PROVE  LET rank(i) == hand[i].rank
             low     == FirstMin(S, rank)
         IN  low \in S /\ \A j \in S : hand[low].rank =< hand[j].rank
<1> DEFINE rank(i) == hand[i].rank
           low     == FirstMin(S, rank)
<1>1. \A i \in S : rank(i) \in 0 .. 5
  <2>1. \A i \in DOMAIN hand : hand[i] \in Card
    OBVIOUS
  <2>2. \A i \in S : hand[i] \in Card
    BY <2>1
  <2> QED
    BY <2>2 DEF Card, Rank, NINE, ACE
<1>2. \E i \in S : \A j \in S : \/ rank(i) < rank(j)
                                \/ rank(i) = rank(j) /\ i =< j
  <2> DEFINE value == [i \in S |-> rank(i)]
  <2>1. value \in [S -> -99 .. 99]
    BY <1>1
  <2>2. S \in SUBSET Nat
    <3>1. DOMAIN hand \subseteq Nat
      BY LenProperties
    <3> QED
      BY <3>1
  <2>3. \A i \in S : value[i] = rank(i)
    OBVIOUS
  <2> HIDE DEF value, rank
  <2>4. \E i \in S : \A j \in S : \/ value[i] < value[j]
                                  \/ value[i] = value[j] /\ i =< j
    BY <2>1, <2>2, FirstOfLeast
  <2> QED
    BY <2>3, <2>4
<1>3. low \in S /\ \A j \in S : \/ rank(low) < rank(j)
                                \/ rank(low) = rank(j) /\ low =< j
  BY <1>2 DEF FirstMin
<1>4. low \in S /\ \A j \in S : rank(low) =< rank(j)
  <2> HIDE DEF low
  <2> QED
    BY <1>1, <1>3
<1> QED
  BY <1>4 DEF FirstMin

\* A bot parts with a trump only if it holds nothing else, and then with the lowest.
LEMMA BotDiscardsLowest ==
  ASSUME NEW hand \in Seq(Card), hand # <<>>, NEW t \in Suit
  PROVE  LET card == botDiscard(hand, t)
         IN  \/ card.suit # t
             \/ \A j \in DOMAIN hand : hand[j].suit = t /\ hand[j].rank >= card.rank
<1> DEFINE offSuit == {i \in DOMAIN hand : hand[i].suit # t}
           single  == {i \in offSuit : \A j \in DOMAIN hand :
                                          hand[j].suit = hand[i].suit => j = i}
           rank(i) == hand[i].rank
           among   == IF offSuit # {} THEN offSuit ELSE DOMAIN hand
           low     == FirstMin(among, rank)
<1>1. DOMAIN hand \subseteq Nat /\ DOMAIN hand # {}
  <2>1. DOMAIN hand = 1 .. Len(hand) /\ Len(hand) \in Nat /\ Len(hand) # 0
    BY LenProperties, EmptySeq
  <2>2. 1 \in DOMAIN hand
    BY <2>1
  <2> QED
    BY <2>1, <2>2
<1>2. CASE single # {}
  <2>1. single \in SUBSET Nat
    BY <1>1
  <2>2. \E x \in single : \A y \in single : x =< y
    <3> HIDE DEF single
    <3> QED
      BY <1>2, <2>1, LeastNat
  <2>3. Min(single) \in single
    <3> HIDE DEF single
    <3> QED
      BY <2>2, Zenon DEF Min
  <2>4. botDiscard(hand, t) = hand[Min(single)]
    BY <1>2 DEF botDiscard
  <2> HIDE DEF single
  <2>5. hand[Min(single)].suit # t
    BY <2>3 DEF single
  <2> QED
    BY <2>4, <2>5
<1>3. CASE single = {}
  <2>1. botDiscard(hand, t) = hand[low]
    BY <1>3 DEF botDiscard, FirstMin
  <2>2. among \in SUBSET DOMAIN hand /\ among # {}
    BY <1>1
  <2> HIDE DEF among
  <2>3. low \in among /\ \A j \in among : hand[low].rank =< hand[j].rank
    BY <2>2, FirstLowestCard DEF FirstMin
  <2> HIDE DEF low
  <2>4. CASE offSuit # {}
    BY <2>1, <2>3, <2>4 DEF among
  <2>5. CASE offSuit = {}
    <3>1. \A j \in DOMAIN hand : hand[j].suit = t
      BY <2>5
    <3>2. \A j \in DOMAIN hand : hand[j].rank \in Int
      <4>1. \A j \in DOMAIN hand : hand[j] \in Card
        OBVIOUS
      <4> QED
        BY <4>1 DEF Card, Rank, NINE, ACE
    <3>3. among = DOMAIN hand
      BY <2>5 DEF among
    <3> QED
      BY <2>1, <2>3, <3>1, <3>2, <3>3
  <2> QED
    BY <2>4, <2>5
<1> QED
  BY <1>2, <1>3

\* What a bot's own handler refuses.
LEMMA BotsAreRefusedRarely ==
  ASSUME IInv, CardIInv
  PROVE  BotsActLegally
<1> SUFFICES ASSUME pc = "bots", Refused
             PROVE  /\ turn = dealer
                    /\ phase \in {"VOTE_ROUND2", "DISCARDING"}
                    /\ phase = "DISCARDING" => \A i \in DOMAIN cards[turn] :
                         cards[turn][i].suit = trump /\ cards[turn][i].rank >= top_card.rank
  BY DEF BotsActLegally
<1>1. phase \notin Waiting /\ phase \in Phase /\ turn \in Seat
  BY DEF CardIInv, LoopsHaveWork, IInv, ControlTypeOK
<1>2. phase # "DISCARDING" => turn_token = turn
  BY <1>1 DEF IInv, TurnHoldsToken, SeatsAreFilled, Waiting
<1>3. CASE phase \in Voting
  <2>1. \/ turn_token # turn
        \/ IF botVote.order THEN phase = "VOTE_ROUND2" /\ botVote.suit = top_card.suit
                            ELSE mustOrder
    BY <1>3, Zenon DEF Refused, Voting
  <2>2. ~(botVote.order /\ phase = "VOTE_ROUND2" /\ botVote.suit = top_card.suit)
    BY BotNamesSuit DEF botVote
  <2>3. mustOrder
    BY <1>2, <1>3, <2>1, <2>2 DEF Voting
  <2> QED
    BY <2>3 DEF mustOrder
<1>4. CASE phase = "DISCARDING"
  <2>1. turn # dealer \/ botDiscard(cards[turn], trump) = top_card
    BY <1>4 DEF Refused, Voting
  <2>2. turn = dealer /\ botDiscard(cards[turn], trump) = top_card
    BY <1>4, <2>1 DEF IInv, TurnHoldsToken
  <2>3. /\ cards[turn] \in Seq(Card) /\ trump \in Suit /\ cards[turn] # <<>>
        /\ trump = top_card.suit
    BY <1>1, <1>4, BotsAreAskedRightly
      DEF CardIInv, CardsInOrder, CardTypeOK, TopCardIsTurnedUp, BotPreconditions
  <2> QED
    BY <1>4, <2>2, <2>3, BotDiscardsLowest
<1>5. CASE phase = "PLAYING"
  <2>1. turn_token # turn \/ CardCount(turn) = 1
    BY <1>5 DEF Refused, Voting
  <2> QED
    BY <1>2, <1>5, <2>1, TurnHasTwoCards
<1> QED
  BY <1>1, <1>3, <1>4, <1>5 DEF Phase, Voting

\* A bot's decision is refused by its own handler only when it deals: in the second
\* round of the vote with no suit good enough, or with a hand of trumps of which the
\* top card is the lowest (Bot.cpp, handleBotUpdates, pass, discard).
THEOREM BotsAreSeldomRefused == Spec /\ [][CleanLayDown]_vars => []BotsActLegally
BY BotsAreRefusedRarely, CardsStayInOrder, ControlIsInOrder, PTL
-----------------------------------------------------------------------------
(* Following suit *)

\* Of the choices it has, there is a worst for a trick and a best.
LEMMA ChoicesAreFound ==
  ASSUME NEW hand \in Seq(Card), NEW S \in SUBSET DOMAIN hand, S # {},
         NEW t \in Suit, NEW led \in Suit
  PROVE  LET score(i) == scoreCard(hand[i], t, led)
         IN  /\ \E i \in S : \A j \in S :
                  score(i) < score(j) \/ (score(i) = score(j) /\ i =< j)
             /\ \E i \in S : \A j \in S :
                  -score(i) < -score(j) \/ (-score(i) = -score(j) /\ i =< j)
<1> DEFINE score(i) == scoreCard(hand[i], t, led)
           low  == [i \in S |-> score(i)]
           high == [i \in S |-> -score(i)]
<1>1. \A i \in S : score(i) \in 0 .. 50
  <2>1. \A i \in DOMAIN hand : hand[i] \in Card
    OBVIOUS
  <2>2. \A i \in S : hand[i] \in Card
    BY <2>1
  <2>3. \A card \in Card : scoreCard(card, t, led) \in 0 .. 50
    <3> TAKE card \in Card
    <3>1. /\ card.rank \in 0 .. 5
          /\ \/ scoreCard(card, t, led) \in 26 .. 50
             \/ scoreCard(card, t, led) = card.rank + 1
             \/ scoreCard(card, t, led) = 0
      BY ScoreBySuit
    <3>2. \A r \in 0 .. 5 : r + 1 \in 0 .. 50
      OBVIOUS
    <3>3. 0 \in 0 .. 50 /\ \A n \in 26 .. 50 : n \in 0 .. 50
      OBVIOUS
    <3> QED
      BY <3>1, <3>2, <3>3, Zenon
  <2> QED
    BY <2>2, <2>3
<1>2. S \in SUBSET Nat
  <2>1. DOMAIN hand \subseteq Nat
    BY LenProperties
  <2> QED
    BY <2>1
<1>3. \A i \in S : low[i] = score(i) /\ high[i] = -score(i)
  OBVIOUS
<1>4. low \in [S -> -99 .. 99] /\ high \in [S -> -99 .. 99]
  <2>1. \A n \in 0 .. 50 : n \in -99 .. 99 /\ -n \in -99 .. 99
    OBVIOUS
  <2> HIDE DEF score
  <2> QED
    BY <1>1, <2>1
<1>5. \E i \in S : \A j \in S : \/ score(i) < score(j)
                                \/ score(i) = score(j) /\ i =< j
  <2> HIDE DEF low, high, score
  <2>1. \E i \in S : \A j \in S : \/ low[i] < low[j]
                                  \/ low[i] = low[j] /\ i =< j
    BY <1>2, <1>4, FirstOfLeast
  <2> QED
    BY <1>3, <2>1
<1>6. \E i \in S : \A j \in S : \/ -score(i) < -score(j)
                                \/ -score(i) = -score(j) /\ i =< j
  <2> HIDE DEF low, high, score
  <2>1. \E i \in S : \A j \in S : \/ high[i] < high[j]
                                  \/ high[i] = high[j] /\ i =< j
    BY <1>2, <1>4, FirstOfLeast
  <2> QED
    BY <1>3, <2>1
<1> QED
  BY <1>5, <1>6

\* A bot follows the suit printed on the card that was led, or plays a left bauer, if
\* it holds such a card.
LEMMA BotFollowsPrint ==
  ASSUME NEW hand \in Seq(Card), hand # <<>>, NEW stack \in Seq(Play), stack # <<>>,
         NEW t \in Suit, NEW id
  PROVE  LET legal == {i \in DOMAIN hand : \/ hand[i].suit = stack[1].card.suit
                                           \/ isLeft(hand[i], t)}
         IN  \E i \in IF legal # {} THEN legal ELSE DOMAIN hand :
               botFollow(id, hand, stack, t) = hand[i]
<1> DEFINE led      == stack[1].card.suit
           legal    == {i \in DOMAIN hand : \/ hand[i].suit = led
                                            \/ isLeft(hand[i], t)}
           choices  == IF legal # {} THEN legal ELSE DOMAIN hand
           score(i) == scoreCard(hand[i], t, led)
           low      == FirstMin(choices, score)
           high     == FirstMax(choices, score)
<1>1. led \in Suit
  <2>1. stack[1] \in Play
    OBVIOUS
  <2> QED
    BY <2>1 DEF Play, Card
<1>2. choices \in SUBSET DOMAIN hand /\ choices # {}
  <2>1. DOMAIN hand # {}
    <3>1. DOMAIN hand = 1 .. Len(hand) /\ Len(hand) \in Nat /\ Len(hand) # 0
      BY LenProperties, EmptySeq
    <3>2. 1 \in DOMAIN hand
      BY <3>1
    <3> QED
      BY <3>2
  <2> QED
    BY <2>1
<1>3. low \in choices /\ high \in choices
  <2> HIDE DEF choices, led
  <2>1. /\ \E i \in choices : \A j \in choices :
             score(i) < score(j) \/ (score(i) = score(j) /\ i =< j)
        /\ \E i \in choices : \A j \in choices :
             -score(i) < -score(j) \/ (-score(i) = -score(j) /\ i =< j)
    BY <1>1, <1>2, ChoicesAreFound
  <2> HIDE DEF score
  <2>2. low \in choices
    BY <2>1 DEF FirstMin
  <2>3. high \in choices
    BY <2>1 DEF FirstMax, FirstMin
  <2> QED
    BY <2>2, <2>3
<1>4. \/ botFollow(id, hand, stack, t) = hand[low]
      \/ botFollow(id, hand, stack, t) = hand[high]
  BY Zenon DEF botFollow
<1> HIDE DEF low, high
<1> QED
  BY <1>3, <1>4

\* A bot's card is a renege only where a left bauer was led or is held.
LEMMA BotRenegesOnBauer ==
  ASSUME IInv, CardIInv, [Next]_vars, NEW p \in played_cards' \ played_cards,
         p.illegal, p.id \notin Human
  PROVE  \E card \in InHand(p.id) \cup {trick[1].card} : isLeft(card, trump)
<1>1. phase = "PLAYING"
  BY RecordsComeFromPlay
<1>2. PICK card, own, queued :
        /\ Taken(card, own, queued) /\ playTop(card, own, queued)
        /\ \/ turn \in Human
           \/ /\ card \in botPlay(turn, cards[turn], trick, trump)
              /\ own[turn] = erase(cards[turn], card)
  BY RecordsComeFromPlay
<1>3. p = [card |-> card, id |-> turn, illegal |-> Renege(card, own[turn], trick)]
  BY <1>1, <1>2, WhatIsPlayed DEF CardIInv
<1>4. p.id = turn /\ Renege(card, own[turn], trick)
  BY <1>3
<1>5. card \in botPlay(turn, cards[turn], trick, trump)
  BY <1>2, <1>4
<1> DEFINE hand  == cards[turn]
           legal == {i \in DOMAIN hand : \/ hand[i].suit = trick[1].card.suit
                                         \/ isLeft(hand[i], trump)}
<1>6. /\ turn \in Seat /\ trump \in Suit /\ hand \in Seq(Card) /\ hand # <<>>
      /\ trick \in Seq(Play) /\ trick # <<>>
  <2>1. turn \in Seat /\ trump \in Suit /\ hand \in Seq(Card) /\ trick \in Seq(Play)
    BY DEF IInv, ControlTypeOK, CardIInv, CardsInOrder, CardTypeOK
  <2>2. trick # <<>>
    BY <1>4 DEF Renege
  <2>3. premoves[turn] = <<>>
    BY <1>4, <2>1 DEF CardIInv, CardsInOrder, QueuesArePlayers
  <2>4. CardCount(turn) = Len(hand) + 0
    BY <2>3 DEF CardCount
  <2>5. hand # <<>>
    BY <1>1, <2>4, TurnHasTwoCards
  <2> QED
    BY <2>1, <2>2, <2>5
<1>7. PICK i \in DOMAIN hand : card = hand[i] /\ (legal # {} => i \in legal)
  <2>1. card = botFollow(turn, hand, trick, trump)
    BY <1>5, <1>6 DEF botPlay
  <2>2. \E i \in IF legal # {} THEN legal ELSE DOMAIN hand :
          botFollow(turn, hand, trick, trump) = hand[i]
    BY <1>6, BotFollowsPrint
  <2> QED
    BY <2>1, <2>2
<1>8. /\ effectiveSuit(card, trump) # effectiveSuit(trick[1].card, trump)
      /\ \E k \in DOMAIN own[turn] :
           effectiveSuit(own[turn][k], trump) = effectiveSuit(trick[1].card, trump)
  BY <1>4, Zenon DEF Renege
<1>9. PICK j \in DOMAIN hand :
        effectiveSuit(hand[j], trump) = effectiveSuit(trick[1].card, trump)
  <2>1. Range(own[turn]) \subseteq Range(hand)
    BY <1>2 DEF Taken
  <2> QED
    BY <1>8, <2>1 DEF Range
<1> SUFFICES ASSUME \A c \in InHand(turn) \cup {trick[1].card} : ~isLeft(c, trump)
             PROVE  FALSE
  BY <1>4
<1>10. \A k \in DOMAIN hand : ~isLeft(hand[k], trump) /\ effectiveSuit(hand[k], trump) = hand[k].suit
  BY DEF InHand, effectiveSuit
<1>11. effectiveSuit(trick[1].card, trump) = trick[1].card.suit
  BY DEF effectiveSuit
<1>12. j \in legal
  BY <1>9, <1>10, <1>11
<1>13. hand[i].suit = trick[1].card.suit
  BY <1>7, <1>10, <1>12
<1> QED
  BY <1>7, <1>8, <1>10, <1>11, <1>13

\* Bots follow suit as far as they can see it: what the server holds against them is
\* a left bauer they took for a card of its printed suit (Bot.cpp, play_card).
THEOREM BotsFollowSuit == Spec /\ [][CleanLayDown]_vars => BotsRenegeOnBauers
<1>1. IInv /\ CardIInv /\ [Next]_vars =>
        [\A p \in played_cards' \ played_cards :
           p.illegal /\ p.id \notin Human =>
             \E card \in InHand(p.id) \cup {trick[1].card} : isLeft(card, trump)]_vars
  BY BotRenegesOnBauer
<1> QED
  BY <1>1, CardsStayInOrder, ControlIsInOrder, PTL DEF Spec, BotsRenegeOnBauers
=============================================================================
