----------------------------- MODULE CardProofs -----------------------------
(***************************************************************************)
(* The cards of a room, proved for every deal and every size of hand: as   *)
(* long as hands are laid down onto a clean table only, CardIInv is        *)
(* inductive together with IInv, and with it the invariants about hands,   *)
(* tricks, premoves and the decisions of the bots.                         *)
(***************************************************************************)
EXTENDS GameProofs, SequenceTheorems

USE DEF Seat, Team

(* Hands *)

\* Playing, premoving or discarding a card that is in the hand once takes just that
\* card out of it, and the others close the gap.
LEMMA EraseTakesOne ==
  ASSUME NEW hand \in Seq(Card), NEW p \in DOMAIN hand,
         \A i \in DOMAIN hand : hand[i] = hand[p] => i = p
  PROVE  LET rest == erase(hand, hand[p])
         IN  /\ rest \in Seq(Card)
             /\ Len(rest) = Len(hand) - 1
             /\ \A k \in DOMAIN rest : rest[k] = hand[IF k < p THEN k ELSE k + 1]
<1> DEFINE n       == Len(hand)
           kept    == {i \in DOMAIN hand : hand[i] # hand[p]}
           upto(i) == {j \in kept : j =< i}
           nth(k)  == CHOOSE i \in kept : Cardinality(upto(i)) = k
           at(k)   == IF k < p THEN k ELSE k + 1
<1>1. n \in Nat /\ DOMAIN hand = 1 .. n /\ p \in 1 .. n
  BY LenProperties
<1>2. kept = (1 .. n) \ {p}
  BY <1>1
<1>3. Cardinality(kept) = n - 1
  <2>1. IsFiniteSet(1 .. n) /\ Cardinality(1 .. n) = n
    BY <1>1, FS_Interval
  <2>2. Cardinality((1 .. n) \ {p}) = Cardinality(1 .. n) - 1
    BY <1>1, <2>1, FS_RemoveElement
  <2> QED
    BY <1>2, <2>1, <2>2
<1>4. ASSUME NEW i \in kept
      PROVE  Cardinality(upto(i)) = IF i < p THEN i ELSE i - 1
  <2>0. i \in 1 .. n /\ i # p
    BY <1>2
  <2>1. IsFiniteSet(1 .. i) /\ Cardinality(1 .. i) = i
    BY <1>1, <2>0, FS_Interval
  <2>2. CASE i < p
    <3>1. upto(i) = 1 .. i
      BY <1>1, <1>2, <2>0, <2>2
    <3> QED
      BY <2>1, <2>2, <3>1
  <2>3. CASE i > p
    <3>1. upto(i) = (1 .. i) \ {p}
      BY <1>1, <1>2, <2>0, <2>3
    <3>2. p \in 1 .. i
      BY <1>1, <2>0, <2>3
    <3>3. Cardinality((1 .. i) \ {p}) = Cardinality(1 .. i) - 1
      BY <2>1, <3>2, FS_RemoveElement
    <3> HIDE DEF upto
    <3> QED
      BY <1>1, <2>0, <2>1, <2>3, <3>1, <3>3
  <2> QED
    BY <1>1, <2>0, <2>2, <2>3
<1>5. ASSUME NEW k \in 1 .. n - 1
      PROVE  nth(k) = at(k) /\ at(k) \in 1 .. n
  <2>1. at(k) \in kept
    BY <1>1, <1>2
  <2>2. Cardinality(upto(at(k))) = k
    <3>1. Cardinality(upto(at(k))) = IF at(k) < p THEN at(k) ELSE at(k) - 1
      BY <1>4, <2>1
    <3> HIDE DEF upto
    <3> QED
      BY <1>1, <3>1
  <2>3. ASSUME NEW i \in kept, Cardinality(upto(i)) = k
        PROVE  i = at(k)
    <3>1. k = IF i < p THEN i ELSE i - 1
      BY <1>4, <2>3
    <3>2. i \in 1 .. n /\ i # p
      BY <1>2
    <3> QED
      BY <1>1, <3>1, <3>2
  <2>4. nth(k) \in kept /\ Cardinality(upto(nth(k))) = k
    <3> HIDE DEF upto, at, kept
    <3> QED
      BY <2>1, <2>2
  <2>5. nth(k) = at(k)
    <3> HIDE DEF upto, at, kept, nth
    <3> QED
      BY <2>3, <2>4
  <2> QED
    BY <1>1, <2>1, <2>5
<1>6. erase(hand, hand[p]) = [k \in 1 .. Cardinality(kept) |-> hand[nth(k)]]
  BY DEF erase
<1> DEFINE rest == erase(hand, hand[p])
<1>7. rest = [k \in 1 .. n - 1 |-> hand[at(k)]]
  <2> HIDE DEF nth, kept, at, n
  <2> QED
    BY <1>3, <1>5, <1>6
<1>8. \A k \in 1 .. n - 1 : hand[at(k)] \in Card
  BY <1>1, <1>5, LenProperties
<1>9. rest \in [1 .. n - 1 -> Card] /\ n - 1 \in Nat
  <2> HIDE DEF rest, at
  <2> QED
    BY <1>1, <1>7, <1>8
<1>10. rest \in Seq(Card)
  BY <1>9, SeqDef
<1>11. Len(rest) = n - 1 /\ DOMAIN rest = 1 .. n - 1
  <2> HIDE DEF rest, n
  <2> QED
    BY <1>9, <1>10, LenProperties
<1> QED
  BY <1>7, <1>10, <1>11

\* What is left of a hand once a card of it is taken has no card twice either, and
\* lacks just that card.
LEMMA HandWithoutCard ==
  ASSUME NEW hand \in Seq(Card), NEW queue \in Seq(Card), NoneTwice(hand, queue),
         NEW card, Holds(hand, card)
  PROVE  LET rest == erase(hand, card)
         IN  /\ card \in Card
             /\ rest \in Seq(Card) /\ Len(rest) = Len(hand) - 1
             /\ Range(rest) = Range(hand) \ {card}
             /\ NoneTwice(rest, queue) /\ card \notin Range(queue)
<1> DEFINE rest == erase(hand, card)
<1>1. PICK p \in DOMAIN hand : hand[p] = card
  BY DEF Holds
<1>2. \A i \in DOMAIN hand : hand[i] = hand[p] => i = p
  BY DEF NoneTwice
<1>3. /\ rest \in Seq(Card) /\ Len(rest) = Len(hand) - 1
      /\ \A k \in DOMAIN rest : rest[k] = hand[IF k < p THEN k ELSE k + 1]
  BY <1>1, <1>2, EraseTakesOne
<1> HIDE DEF rest
<1>4. /\ Len(hand) \in Nat /\ DOMAIN hand = 1 .. Len(hand)
      /\ DOMAIN rest = 1 .. Len(hand) - 1 /\ p \in 1 .. Len(hand)
  BY <1>1, <1>3, LenProperties
<1>5. \A k \in DOMAIN rest : /\ (IF k < p THEN k ELSE k + 1) \in DOMAIN hand
                             /\ (IF k < p THEN k ELSE k + 1) # p
  BY <1>4
<1>6. \A i \in DOMAIN hand : i # p => \E k \in DOMAIN rest : rest[k] = hand[i]
  <2> TAKE i \in DOMAIN hand
  <2> HAVE i # p
  <2>1. CASE i < p
    <3>1. i \in DOMAIN rest /\ rest[i] = hand[i]
      BY <1>3, <1>4, <2>1
    <3> QED
      BY <3>1
  <2>2. CASE i > p
    <3>1. i - 1 \in DOMAIN rest /\ ~(i - 1 < p) /\ i - 1 + 1 = i
      BY <1>4, <2>2
    <3>2. rest[i - 1] = hand[i]
      BY <1>3, <3>1
    <3> QED
      BY <3>1, <3>2
  <2> QED
    BY <1>4, <2>1, <2>2
<1>7. Range(rest) = Range(hand) \ {card}
  <2>1. \A k \in DOMAIN rest : rest[k] \in Range(hand) /\ rest[k] # card
    BY <1>1, <1>2, <1>3, <1>5 DEF Range
  <2>2. \A i \in DOMAIN hand : hand[i] # card => hand[i] \in Range(rest)
    BY <1>1, <1>6 DEF Range
  <2> QED
    BY <2>1, <2>2 DEF Range
<1>8. NoneTwice(rest, queue)
  <2>1. \A i, j \in DOMAIN rest : rest[i] = rest[j] => i = j
    <3> TAKE i, j \in DOMAIN rest
    <3> HAVE rest[i] = rest[j]
    <3>1. (IF i < p THEN i ELSE i + 1) = (IF j < p THEN j ELSE j + 1)
      BY <1>3, <1>5 DEF NoneTwice
    <3> QED
      BY <1>4, <3>1
  <2>2. \A i \in DOMAIN rest, j \in DOMAIN queue : rest[i] # queue[j]
    BY <1>3, <1>5 DEF NoneTwice
  <2> QED
    BY <2>1, <2>2 DEF NoneTwice
<1>9. card \in Card /\ card \notin Range(queue)
  BY <1>1, <1>4, ElementOfSeq DEF NoneTwice, Range
<1> QED
  BY <1>3, <1>7, <1>8, <1>9 DEF rest

\* The same of a queue whose front is taken; the card fetched for it was queued.
LEMMA QueueWithoutFront ==
  ASSUME NEW hand \in Seq(Card), NEW queue \in Seq(Card), NoneTwice(hand, queue),
         queue # <<>>
  PROVE  LET rest == Tail(queue)
         IN  /\ rest \in Seq(Card) /\ Len(rest) = Len(queue) - 1
             /\ Range(rest) \subseteq Range(queue)
             /\ NoneTwice(hand, rest)
             /\ fetched(queue) \in Range(queue) /\ fetched(queue) \in Card
<1> DEFINE rest == Tail(queue)
<1>1. /\ rest \in Seq(Card) /\ Len(rest) = Len(queue) - 1
      /\ \A i \in 1 .. Len(rest) : rest[i] = queue[i + 1]
  BY HeadTailProperties
<1> HIDE DEF rest
<1>2. /\ Len(queue) \in Nat \ {0} /\ DOMAIN queue = 1 .. Len(queue)
      /\ DOMAIN rest = 1 .. Len(queue) - 1
  BY <1>1, LenProperties, EmptySeq
<1>3. \A i \in DOMAIN rest : i + 1 \in DOMAIN queue /\ rest[i] = queue[i + 1]
  BY <1>1, <1>2
<1>4. Range(rest) \subseteq Range(queue)
  BY <1>3 DEF Range
<1>5. NoneTwice(hand, rest)
  <2>1. \A i, j \in DOMAIN rest : rest[i] = rest[j] => i = j
    BY <1>2, <1>3 DEF NoneTwice
  <2>2. \A i \in DOMAIN hand, j \in DOMAIN rest : hand[i] # rest[j]
    BY <1>3 DEF NoneTwice
  <2> QED
    BY <2>1, <2>2 DEF NoneTwice
<1>6. fetched(queue) \in Range(queue) /\ fetched(queue) \in Card
  <2>1. PICK i \in DOMAIN queue : fetched(queue) = queue[i]
    BY <1>2 DEF fetched
  <2> QED
    BY <1>2, <2>1, ElementOfSeq DEF Range
<1> QED
  BY <1>1, <1>4, <1>5, <1>6 DEF rest

\* A card premoved moves from the hand to the queue.
LEMMA QueueWithCard ==
  ASSUME NEW hand \in Seq(Card), NEW queue \in Seq(Card), NoneTwice(hand, queue),
         NEW card \in Card, card \notin Range(hand), card \notin Range(queue)
  PROVE  /\ Append(queue, card) \in Seq(Card)
         /\ Len(Append(queue, card)) = Len(queue) + 1
         /\ Range(Append(queue, card)) = Range(queue) \cup {card}
         /\ NoneTwice(hand, Append(queue, card))
<1> DEFINE more == Append(queue, card)
<1>1. /\ more \in Seq(Card) /\ Len(more) = Len(queue) + 1
      /\ \A i \in 1 .. Len(queue) : more[i] = queue[i]
      /\ more[Len(queue) + 1] = card
  BY AppendProperties
<1> HIDE DEF more
<1>2. /\ Len(queue) \in Nat /\ DOMAIN queue = 1 .. Len(queue)
      /\ DOMAIN more = 1 .. Len(queue) + 1
  BY <1>1, LenProperties
<1>3. \A i \in DOMAIN more : IF i \in DOMAIN queue THEN more[i] = queue[i]
                             ELSE i = Len(queue) + 1 /\ more[i] = card
  BY <1>1, <1>2
<1>4. Range(more) = Range(queue) \cup {card}
  BY <1>1, <1>2, <1>3 DEF Range
<1>5. NoneTwice(hand, more)
  <2>1. \A i \in DOMAIN queue : queue[i] # card
    BY DEF Range
  <2>2. \A i \in DOMAIN hand : hand[i] # card
    BY DEF Range
  <2>3. \A i, j \in DOMAIN more : more[i] = more[j] => i = j
    BY <1>3, <2>1 DEF NoneTwice
  <2>4. \A i \in DOMAIN hand, j \in DOMAIN more : hand[i] # more[j]
    BY <1>3, <2>2 DEF NoneTwice
  <2> QED
    BY <2>3, <2>4 DEF NoneTwice
<1> QED
  BY <1>1, <1>4, <1>5 DEF more

\* Premoves taken back join the hand at its end.
LEMMA HandWithQueue ==
  ASSUME NEW hand \in Seq(Card), NEW queue \in Seq(Card), NoneTwice(hand, queue)
  PROVE  /\ hand \o queue \in Seq(Card)
         /\ Len(hand \o queue) = Len(hand) + Len(queue)
         /\ Range(hand \o queue) = Range(hand) \cup Range(queue)
         /\ NoneTwice(hand \o queue, <<>>)
<1> DEFINE all == hand \o queue
<1>1. /\ all \in Seq(Card) /\ Len(all) = Len(hand) + Len(queue)
      /\ \A i \in 1 .. Len(hand) + Len(queue) :
           all[i] = IF i =< Len(hand) THEN hand[i] ELSE queue[i - Len(hand)]
  BY ConcatProperties
<1> HIDE DEF all
<1>2. /\ Len(hand) \in Nat /\ DOMAIN hand = 1 .. Len(hand)
      /\ Len(queue) \in Nat /\ DOMAIN queue = 1 .. Len(queue)
      /\ DOMAIN all = 1 .. Len(hand) + Len(queue)
  BY <1>1, LenProperties
<1>3. \A i \in DOMAIN all :
        IF i =< Len(hand) THEN i \in DOMAIN hand /\ all[i] = hand[i]
        ELSE i - Len(hand) \in DOMAIN queue /\ all[i] = queue[i - Len(hand)]
  BY <1>1, <1>2
<1>4. \A j \in DOMAIN queue : /\ j + Len(hand) \in DOMAIN all
                              /\ all[j + Len(hand)] = queue[j]
  <2> TAKE j \in DOMAIN queue
  <2>1. /\ j + Len(hand) \in 1 .. Len(hand) + Len(queue)
        /\ ~(j + Len(hand) =< Len(hand)) /\ j + Len(hand) - Len(hand) = j
    BY <1>2
  <2> QED
    BY <1>1, <1>2, <2>1
<1>5. Range(all) = Range(hand) \cup Range(queue)
  <2>1. \A i \in DOMAIN hand : i \in DOMAIN all /\ all[i] = hand[i]
    BY <1>1, <1>2
  <2> QED
    BY <1>3, <1>4, <2>1 DEF Range
<1>6. NoneTwice(all, <<>>)
  <2>1. \A i, j \in DOMAIN all : all[i] = all[j] => i = j
    <3> TAKE i, j \in DOMAIN all
    <3> HAVE all[i] = all[j]
    <3>1. i \in Int /\ j \in Int /\ Len(hand) \in Int
      BY <1>2
    <3> QED
      BY <1>3, <3>1 DEF NoneTwice
  <2>2. DOMAIN <<>> = {}
    OBVIOUS
  <2> QED
    BY <2>1, <2>2 DEF NoneTwice
<1> QED
  BY <1>1, <1>5, <1>6 DEF all
-----------------------------------------------------------------------------
(* The table *)

\* Round the table from a leader who plays, every seat that plays comes once, and
\* advanceTurn goes from each to the next.
LEMMA TurnOrderGoesRound ==
  ASSUME NEW p \in Seat, sitting_out \subseteq {p}, NEW leader \in Seat \ sitting_out
  PROVE  LET seats == TurnOrder(leader)
         IN  /\ Active \in {3, 4}
             /\ seats[1] = leader
             /\ \A i \in 1 .. Active : seats[i] \in Seat \ sitting_out
             /\ \A i, j \in 1 .. Active : seats[i] = seats[j] => i = j
             /\ \A s \in Seat \ sitting_out : \E i \in 1 .. Active : seats[i] = s
             /\ \A i \in 1 .. Active - 1 : seats[i + 1] = advance(seats[i], sitting_out)
<1> DEFINE seats == TurnOrder(leader)
<1>1. IsFiniteSet(Seat) /\ Cardinality(Seat) = 4
  <2>1. 0 \in Int /\ 3 \in Int
    OBVIOUS
  <2>2. /\ IsFiniteSet(0 .. 3)
        /\ Cardinality(0 .. 3) = IF 0 > 3 THEN 0 ELSE 3 - 0 + 1
    BY <2>1, FS_Interval, Zenon
  <2> QED
    BY <2>2
<1>2. CASE sitting_out = {}
  <2>1. Active = 4
    <3>1. Seat \ sitting_out = Seat
      BY <1>2, Zenon
    <3> QED
      BY <1>1, <3>1, Zenon DEF Active
  <2>2. seats = <<leader, Left(leader), Left(Left(leader)), Left(Left(Left(leader)))>>
    BY <1>2 DEF TurnOrder, advance
  <2>3. CASE leader = 0
    BY <1>2, <2>1, <2>2, <2>3 DEF Left, advance
  <2>4. CASE leader = 1
    BY <1>2, <2>1, <2>2, <2>4 DEF Left, advance
  <2>5. CASE leader = 2
    BY <1>2, <2>1, <2>2, <2>5 DEF Left, advance
  <2>6. CASE leader = 3
    BY <1>2, <2>1, <2>2, <2>6 DEF Left, advance
  <2> QED
    BY <2>3, <2>4, <2>5, <2>6
<1>3. CASE sitting_out = {p}
  <2>1. Active = 3
    <3>1. Cardinality(Seat \ {p}) = Cardinality(Seat) - 1
      BY <1>1, FS_RemoveElement
    <3> QED
      BY <1>1, <1>3, <3>1 DEF Active
  <2>2. \A s \in Seat : advance(s, sitting_out) = IF Left(s) = p THEN Left(Left(s)) ELSE Left(s)
    BY <1>3 DEF advance
  <2>3. ASSUME NEW q \in Seat, q = p, NEW l \in Seat, l = leader
        PROVE  LET nth(s) == IF Left(s) = q THEN Left(Left(s)) ELSE Left(s)
               IN  /\ l # q /\ nth(l) \in Seat /\ nth(nth(l)) \in Seat
                   /\ nth(l) # q /\ nth(nth(l)) # q
                   /\ l # nth(l) /\ l # nth(nth(l)) /\ nth(l) # nth(nth(l))
                   /\ \A s \in Seat : s # q => s \in {l, nth(l), nth(nth(l))}
    <3>1. l # q
      BY <1>3, <2>3
    <3>2. CASE q = 0
      BY <3>1, <3>2 DEF Left
    <3>3. CASE q = 1
      BY <3>1, <3>3 DEF Left
    <3>4. CASE q = 2
      BY <3>1, <3>4 DEF Left
    <3>5. CASE q = 3
      BY <3>1, <3>5 DEF Left
    <3> QED
      BY <3>2, <3>3, <3>4, <3>5
  <2> DEFINE nth(s) == IF Left(s) = p THEN Left(Left(s)) ELSE Left(s)
  <2>4. /\ leader # p /\ nth(leader) \in Seat /\ nth(nth(leader)) \in Seat
        /\ nth(leader) # p /\ nth(nth(leader)) # p
        /\ leader # nth(leader) /\ leader # nth(nth(leader)) /\ nth(leader) # nth(nth(leader))
        /\ \A s \in Seat : s # p => s \in {leader, nth(leader), nth(nth(leader))}
    BY <2>3
  <2> HIDE DEF nth
  <2>5. \A s \in Seat : advance(s, sitting_out) = nth(s)
    BY <2>2 DEF nth
  <2>6. PICK last : seats = <<leader, nth(leader), nth(nth(leader)), last>>
    BY <2>4, <2>5 DEF TurnOrder
  <2>7. 1 .. Active = {1, 2, 3} /\ 1 .. Active - 1 = {1, 2}
    BY <2>1
  <2>8. seats[1] = leader /\ seats[2] = nth(leader) /\ seats[3] = nth(nth(leader))
    BY <2>6
  <2> HIDE DEF seats
  <2>9. \A s \in Seat \ sitting_out : \E i \in 1 .. Active : seats[i] = s
    BY <1>3, <2>4, <2>7, <2>8
  <2>10. \A i \in 1 .. Active - 1 : seats[i + 1] = advance(seats[i], sitting_out)
    BY <2>4, <2>5, <2>7, <2>8
  <2>11. /\ \A i \in 1 .. Active : seats[i] \in Seat \ sitting_out
         /\ \A i, j \in 1 .. Active : seats[i] = seats[j] => i = j
    BY <1>3, <2>4, <2>7, <2>8
  <2> QED
    BY <2>1, <2>8, <2>9, <2>10, <2>11 DEF seats
<1> QED
  BY <1>2, <1>3

\* advanceTurn does not stop at a seat that sits out.
LEMMA AdvanceSkips ==
  ASSUME NEW p \in Seat, NEW out, out \subseteq {p}, NEW s \in Seat
  PROVE  advance(s, out) \in Seat \ out
<1>1. Left(s) \in Seat /\ Left(Left(s)) \in Seat /\ Left(s) # Left(Left(s))
  BY DEF Left
<1> QED
  BY <1>1 DEF advance
-----------------------------------------------------------------------------
(* A new hand, or the end of the game *)

\* What dealCards leaves: a hand for every seat, no card twice, the top card apart.
LEMMA HandsAreDealt ==
  ASSUME dealCards
  PROVE  /\ cards' \in [Seat -> Seq(Card)] /\ top_card' \in Card
         /\ \A s \in Seat : /\ Len(cards'[s]) = CardsPerHand
                            /\ top_card' \notin Range(cards'[s])
                            /\ NoneTwice(cards'[s], <<>>)
         /\ \A s, t \in Seat : s # t => Range(cards'[s]) \cap Range(cards'[t]) = {}
<1>1. PICK deal \in Deals : top_card' = deal.top /\ cards' = deal.hands
  BY Zenon DEF dealCards
<1>2. deal.top \in Card /\ deal.hands \in [Seat -> Seq(Card)]
  BY GameAssumption
<1>3. \A s \in Seat :
        /\ Len(deal.hands[s]) = CardsPerHand
        /\ \A i \in DOMAIN deal.hands[s] :
             /\ deal.hands[s][i] # deal.top
             /\ \A t \in Seat : \A j \in DOMAIN deal.hands[t] :
                  deal.hands[s][i] = deal.hands[t][j] => s = t /\ i = j
  BY DealAssumption, Zenon
<1>4. DOMAIN <<>> = {}
  OBVIOUS
<1> QED
  BY <1>1, <1>2, <1>3, <1>4 DEF NoneTwice, Range

\* The cards are in order when a hand is dealt onto a clean table.
LEMMA DealtInOrder ==
  ASSUME dealCards, phase' = "VOTE_ROUND1",
         premoves' \in [Seat -> Seq(Card)], \A s \in Seat : premoves'[s] = <<>>,
         trick' = <<>>, trump' \in Suit, played_cards' \subseteq Verdict
  PROVE  CardsInOrder'
<1>1. CardTypeOK'
  BY HandsAreDealt DEF CardTypeOK
<1>2. TopCardIsTurnedUp'
  BY HandsAreDealt DEF TopCardIsTurnedUp, InHand, Range
<1>3. HandSizes'
  <2>1. CardsPerHand + 0 = CardsPerHand
    BY GameAssumption
  <2> QED
    BY <2>1, HandsAreDealt DEF HandSizes
<1>4. \A s \in Seat : NoneTwice(cards'[s], premoves'[s])
  BY HandsAreDealt
<1> QED
  BY <1>1, <1>2, <1>3, <1>4
    DEF CardsInOrder, QueuesArePlayers, LeaderPlays, TrickSeats

\* They are when the game is over and no premove is left.
LEMMA EndedInOrder ==
  ASSUME phase' = "ENDED", cards' \in [Seat -> Seq(Card)],
         premoves' \in [Seat -> Seq(Card)], \A s \in Seat : premoves'[s] = <<>>,
         trick' = <<>>, trump' \in Suit, top_card' \in Card \cup {NoCard},
         played_cards' \subseteq Verdict
  PROVE  CardsInOrder'
BY DEF CardsInOrder, CardTypeOK, TopCardIsTurnedUp, QueuesArePlayers, LeaderPlays,
       TrickSeats, HandSizes, Voting, Waiting

\* Either way a hand that is settled leaves the cards in order.
LEMMA SettledInOrder ==
  ASSUME NEW team, NEW points, NEW last, NEW token, NEW left \in [Seat -> Seq(Card)],
         settle(team, points, last, token, left), top_card \in Card \cup {NoCard},
         premoves' \in [Seat -> Seq(Card)], \A s \in Seat : premoves'[s] = <<>>,
         trick' = <<>>, trump' \in Suit, played_cards' \subseteq Verdict
  PROVE  CardsInOrder'
<1>1. CASE phase' = "ENDED" /\ cards' = left /\ UNCHANGED top_card
  BY <1>1, EndedInOrder
<1>2. CASE nextHand
  BY <1>2, DealtInOrder DEF nextHand
<1> QED
  BY <1>1, <1>2 DEF settle
-----------------------------------------------------------------------------
(* A card is played *)

HasPlayed(s) == \E i \in DOMAIN trick : trick[i].id = s

\* Where the trick on the table stands: who led it, who has played to it, and that
\* the seat at turn comes next.
LEMMA TrickSoFar ==
  ASSUME IInv, CardsInOrder, phase = "PLAYING",
         NEW leader, leader = IF trick = <<>> THEN turn ELSE trick_leader
  PROVE  /\ leader \in Seat \ sitting_out
         /\ turn \in Seat \ sitting_out
         /\ sitting_out \subseteq {Partner(caller)} /\ Partner(caller) \in Seat
         /\ Len(trick) \in 0 .. Active - 1 /\ DOMAIN trick = 1 .. Len(trick)
         /\ turn = TurnOrder(leader)[Len(trick) + 1]
         /\ \A i \in 1 .. Len(trick) : trick[i].id = TurnOrder(leader)[i]
         /\ \A s \in sitting_out : ~HasPlayed(s)
         /\ ~HasPlayed(turn)
<1>1. /\ sitting_out \subseteq {Partner(caller)} /\ Partner(caller) \in Seat
      /\ turn \in Seat /\ trick_leader \in Seat
  BY SeatsStay DEF IInv, ControlTypeOK, SitterIsCallersPartner
<1>2. /\ turn \notin sitting_out
      /\ trick # <<>> => trick_leader \notin sitting_out
      /\ Len(trick) < Active
      /\ \A i \in DOMAIN trick : trick[i].id = TurnOrder(trick_leader)[i]
      /\ trick # <<>> => turn = TurnOrder(trick_leader)[Len(trick) + 1]
  BY DEF CardsInOrder, LeaderPlays, TrickSeats
<1>3. leader \in Seat \ sitting_out
  BY <1>1, <1>2
<1>4. trick \in Seq(Play) /\ Len(trick) \in Nat /\ DOMAIN trick = 1 .. Len(trick)
  BY LenProperties DEF CardsInOrder, CardTypeOK
<1> DEFINE seats == TurnOrder(leader)
<1>5. /\ Active \in {3, 4} /\ seats[1] = leader
      /\ \A i \in 1 .. Active : seats[i] \in Seat \ sitting_out
      /\ \A i, j \in 1 .. Active : seats[i] = seats[j] => i = j
  BY <1>1, <1>3, TurnOrderGoesRound
<1>6. turn = seats[Len(trick) + 1] /\ \A i \in 1 .. Len(trick) : trick[i].id = seats[i]
  <2>1. CASE trick = <<>>
    BY <1>5, <2>1
  <2>2. CASE trick # <<>>
    BY <1>2, <1>4, <2>2
  <2> QED
    BY <2>1, <2>2
<1> HIDE DEF seats
<1>7. Len(trick) \in 0 .. Active - 1
  BY <1>2, <1>4, <1>5
<1>8. \A s \in sitting_out : ~HasPlayed(s)
  BY <1>4, <1>5, <1>6, <1>7 DEF HasPlayed
<1>9. ~HasPlayed(turn)
  BY <1>4, <1>5, <1>6, <1>7 DEF HasPlayed
<1> QED
  BY <1>1, <1>2, <1>3, <1>4, <1>6, <1>7, <1>8, <1>9 DEF seats

\* A card has left the hand or the premoves of the seat at turn, for the hands `own'
\* and the premoves `queued'.
Taken(card, own, queued) ==
  /\ card \in Card
  /\ own \in [Seat -> Seq(Card)] /\ queued \in [Seat -> Seq(Card)]
  /\ \A s \in Seat \ {turn} : own[s] = cards[s] /\ queued[s] = premoves[s]
  /\ Len(own[turn]) + Len(queued[turn]) = CardCount(turn) - 1
  /\ NoneTwice(own[turn], queued[turn])
  /\ card \in Range(cards[turn]) \cup Range(premoves[turn])
  /\ Range(own[turn]) \subseteq Range(cards[turn])
  /\ Range(queued[turn]) \subseteq Range(premoves[turn])
  /\ queued[turn] # <<>> => premoves[turn] # <<>>

\* play_card takes a card that is held out of the hand.
LEMMA TakenFromHand ==
  ASSUME CardsInOrder, phase = "PLAYING", turn \in Seat,
         NEW card, Holds(cards[turn], card)
  PROVE  Taken(card, [cards EXCEPT ![turn] = erase(@, card)], premoves)
<1>1. /\ cards \in [Seat -> Seq(Card)] /\ premoves \in [Seat -> Seq(Card)]
      /\ NoneTwice(cards[turn], premoves[turn])
  BY DEF CardsInOrder, CardTypeOK, Waiting
<1> DEFINE rest == erase(cards[turn], card)
           own  == [cards EXCEPT ![turn] = rest]
<1>2. /\ card \in Card
      /\ rest \in Seq(Card) /\ Len(rest) = Len(cards[turn]) - 1
      /\ Range(rest) = Range(cards[turn]) \ {card}
      /\ NoneTwice(rest, premoves[turn])
  BY <1>1, HandWithoutCard
<1>3. card \in Range(cards[turn])
  BY DEF Holds, Range
<1>4. Len(cards[turn]) \in Nat /\ Len(premoves[turn]) \in Nat
  BY <1>1, LenProperties
<1> HIDE DEF rest
<1>5. /\ own \in [Seat -> Seq(Card)] /\ own[turn] = rest
      /\ \A s \in Seat \ {turn} : own[s] = cards[s]
  BY <1>1, <1>2
<1> HIDE DEF own
<1>6. Len(own[turn]) + Len(premoves[turn]) = CardCount(turn) - 1
  <2>1. Len(own[turn]) = Len(cards[turn]) - 1
    BY <1>2, <1>5
  <2> QED
    BY <1>4, <2>1 DEF CardCount
<1>7. Taken(card, own, premoves)
  <2>1. card \in Range(cards[turn]) \cup Range(premoves[turn])
    BY <1>3
  <2>2. Range(own[turn]) \subseteq Range(cards[turn])
    BY <1>2, <1>5
  <2>3. NoneTwice(own[turn], premoves[turn])
    BY <1>2, <1>5
  <2> QED
    BY <1>1, <1>2, <1>5, <1>6, <2>1, <2>2, <2>3 DEF Taken
<1> QED
  BY <1>7 DEF own, rest

\* cascadePremoves takes a premove off the front.
LEMMA TakenFromQueue ==
  ASSUME CardsInOrder, phase = "PLAYING", turn \in Seat, premoves[turn] # <<>>
  PROVE  Taken(fetched(premoves[turn]), cards, [premoves EXCEPT ![turn] = Tail(@)])
<1>1. /\ cards \in [Seat -> Seq(Card)] /\ premoves \in [Seat -> Seq(Card)]
      /\ NoneTwice(cards[turn], premoves[turn])
  BY DEF CardsInOrder, CardTypeOK, Waiting
<1> DEFINE rest   == Tail(premoves[turn])
           queued == [premoves EXCEPT ![turn] = rest]
<1>2. /\ rest \in Seq(Card) /\ Len(rest) = Len(premoves[turn]) - 1
      /\ Range(rest) \subseteq Range(premoves[turn])
      /\ NoneTwice(cards[turn], rest)
      /\ fetched(premoves[turn]) \in Range(premoves[turn])
      /\ fetched(premoves[turn]) \in Card
  BY <1>1, QueueWithoutFront
<1>3. Len(cards[turn]) \in Nat /\ Len(premoves[turn]) \in Nat
  BY <1>1, LenProperties
<1> HIDE DEF rest
<1>4. /\ queued \in [Seat -> Seq(Card)] /\ queued[turn] = rest
      /\ \A s \in Seat \ {turn} : queued[s] = premoves[s]
  BY <1>1, <1>2
<1> HIDE DEF queued
<1>5. Len(cards[turn]) + Len(queued[turn]) = CardCount(turn) - 1
  <2>1. Len(queued[turn]) = Len(premoves[turn]) - 1
    BY <1>2, <1>4
  <2> QED
    BY <1>3, <2>1 DEF CardCount
<1>6. Taken(fetched(premoves[turn]), cards, queued)
  <2>1. fetched(premoves[turn]) \in Range(cards[turn]) \cup Range(premoves[turn])
    BY <1>2
  <2>2. Range(queued[turn]) \subseteq Range(premoves[turn])
    BY <1>2, <1>4
  <2>3. NoneTwice(cards[turn], queued[turn])
    BY <1>2, <1>4
  <2> QED
    BY <1>1, <1>2, <1>4, <1>5, <2>1, <2>2, <2>3 DEF Taken
<1> QED
  BY <1>6 DEF queued, rest

\* The server's verdict is a yes or a no.
LEMMA RenegeIsBoolean ==
  ASSUME NEW card, NEW rest, NEW stack
  PROVE  Renege(card, rest, stack) \in BOOLEAN
BY DEF Renege

\* Whoever is down to one card has it in the hand or in the queue, and it is the
\* card fetched.
LEMMA OneCardLeft ==
  ASSUME NEW hand \in Seq(Card), NEW queue \in Seq(Card), Len(hand) + Len(queue) = 1
  PROVE  /\ hand = <<>> => queue # <<>> /\ Tail(queue) = <<>>
         /\ hand # <<>> => queue = <<>> /\ Tail(hand) = <<>>
         /\ LET card == fetched(IF hand # <<>> THEN hand ELSE queue)
            IN  card \in Card /\ card \in Range(hand) \cup Range(queue)
<1>1. Len(hand) \in Nat /\ Len(queue) \in Nat
  BY LenProperties
<1>2. ASSUME NEW last \in Seq(Card), Len(last) = 1
      PROVE  /\ last # <<>> /\ Tail(last) = <<>>
             /\ fetched(last) \in Card /\ fetched(last) \in Range(last)
  <2>1. last # <<>>
    BY <1>2
  <2>2. Tail(last) \in Seq(Card) /\ Len(Tail(last)) = 0
    BY <1>2, <2>1, HeadTailProperties
  <2>3. Tail(last) = <<>>
    BY <2>2, EmptySeq
  <2>4. fetched(last) = last[1] /\ 1 \in DOMAIN last /\ last[1] \in Card
    BY <1>2, ElementOfSeq DEF fetched
  <2> QED
    BY <2>1, <2>3, <2>4 DEF Range
<1>3. CASE hand = <<>>
  <2>1. Len(hand) = 0
    BY <1>3
  <2>2. Len(queue) = 1
    BY <1>1, <2>1
  <2> QED
    BY <1>2, <1>3, <2>2
<1>4. CASE hand # <<>>
  <2>1. Len(hand) # 0
    BY <1>4, EmptySeq
  <2>2. Len(hand) = 1 /\ Len(queue) = 0
    <3>1. \A a, b \in Nat : a + b = 1 /\ a # 0 => a = 1 /\ b = 0
      OBVIOUS
    <3> QED
      BY <1>1, <2>1, <3>1, Zenon
  <2>3. queue = <<>>
    BY <2>2, EmptySeq
  <2> QED
    BY <1>2, <1>4, <2>2, <2>3
<1> QED
  BY <1>3, <1>4

\* The last trick takes the last card of everybody who plays, from the hand or from
\* the premoves, so nothing is left for the next hand.
LEMMA LastTrickInOrder ==
  ASSUME IInv, CardsInOrder, phase = "PLAYING",
         NEW leader \in Seat \ sitting_out, NEW won, NEW played \in SUBSET Verdict,
         NEW own \in [Seat -> Seq(Card)], NEW queued \in [Seat -> Seq(Card)],
         \A s \in Seat \ sitting_out : Len(own[s]) + Len(queued[s]) = 1,
         \A s \in sitting_out : queued[s] = <<>>,
         lastTrick(leader, won, played, own, queued), UNCHANGED trump
  PROVE  CardsInOrder'
<1> DEFINE card(s)      == fetched(IF own[s] # <<>> THEN own[s] ELSE queued[s])
           plays(o)     == {o[i] : i \in 1 .. Active}
           rest(o, s)   == IF s \in plays(o) /\ own[s] # <<>> THEN Tail(own[s]) ELSE own[s]
           verdict(o, t, i) == Renege(t[i].card, rest(o, o[i]), SubSeq(t, 1, i - 1))
<1>1. PICK seats \in {TurnOrder(leader)} :
        \E stack \in {[i \in 1 .. Active |-> [card |-> card(seats[i]), id |-> seats[i]]]} :
          /\ trick' = <<>>
          /\ played_cards' = played \cup
               {[card |-> stack[i].card, id |-> seats[i],
                 illegal |-> verdict(seats, stack, i)] : i \in 1 .. Active}
          /\ premoves' = [s \in Seat |-> IF s \in plays(seats) /\ own[s] = <<>>
                                         THEN Tail(queued[s]) ELSE queued[s]]
          /\ \E i \in 1 .. Active :
               endHand([won EXCEPT ![seats[i]] = @ + 1], seats[i],
                       [s \in Seat |-> rest(seats, s)])
  BY Zenon DEF lastTrick
<1>2. /\ \A i \in 1 .. Active : seats[i] \in Seat \ sitting_out
      /\ \A s \in Seat \ sitting_out : \E i \in 1 .. Active : seats[i] = s
      /\ Active \in {3, 4}
  <2>1. sitting_out \subseteq {Partner(caller)} /\ Partner(caller) \in Seat
    BY SeatsStay DEF IInv, ControlTypeOK, SitterIsCallersPartner
  <2>2. seats = TurnOrder(leader)
    OBVIOUS
  <2>3. /\ \A i \in 1 .. Active : TurnOrder(leader)[i] \in Seat \ sitting_out
        /\ \A s \in Seat \ sitting_out : \E i \in 1 .. Active : TurnOrder(leader)[i] = s
        /\ Active \in {3, 4}
    BY <2>1, TurnOrderGoesRound
  <2> QED
    BY <2>2, <2>3, Zenon
<1>3. plays(seats) = Seat \ sitting_out
  <2>1. \A s : s \in plays(seats) <=> \E i \in 1 .. Active : seats[i] = s
    OBVIOUS
  <2> HIDE DEF plays
  <2>2. \A s : s \in plays(seats) <=> s \in Seat \ sitting_out
    BY <1>2, <2>1, Zenon
  <2> QED
    BY <2>2, Zenon
<1>4. PICK stack \in {[i \in 1 .. Active |-> [card |-> card(seats[i]), id |-> seats[i]]]} :
        /\ trick' = <<>>
        /\ played_cards' = played \cup
             {[card |-> stack[i].card, id |-> seats[i],
               illegal |-> verdict(seats, stack, i)] : i \in 1 .. Active}
        /\ premoves' = [s \in Seat |-> IF s \in plays(seats) /\ own[s] = <<>>
                                       THEN Tail(queued[s]) ELSE queued[s]]
        /\ \E i \in 1 .. Active :
             endHand([won EXCEPT ![seats[i]] = @ + 1], seats[i],
                     [s \in Seat |-> rest(seats, s)])
  BY <1>1
<1> HIDE DEF plays
<1>5. ASSUME NEW s \in Seat \ sitting_out
      PROVE  /\ own[s] = <<>> => queued[s] # <<>> /\ Tail(queued[s]) = <<>>
             /\ own[s] # <<>> => queued[s] = <<>>
             /\ card(s) \in Card
  <2>1. own[s] \in Seq(Card) /\ queued[s] \in Seq(Card) /\ Len(own[s]) + Len(queued[s]) = 1
    BY <1>5
  <2> QED
    BY <2>1, OneCardLeft
<1>6. premoves' \in [Seat -> Seq(Card)] /\ \A s \in Seat : premoves'[s] = <<>>
  <2>1. ASSUME NEW s \in Seat
        PROVE  premoves'[s] = <<>>
    <3>1. CASE s \in sitting_out
      BY <1>4, <1>3, <3>1
    <3>2. CASE s \notin sitting_out
      BY <1>4, <1>3, <1>5, <3>2
    <3> QED
      BY <3>1, <3>2
  <2>2. <<>> \in Seq(Card)
    OBVIOUS
  <2>3. premoves' = [s \in Seat |-> premoves'[s]]
    BY <1>4
  <2> QED
    BY <2>1, <2>2, <2>3
<1>7. [s \in Seat |-> rest(seats, s)] \in [Seat -> Seq(Card)]
  <2>1. \A s \in Seat : rest(seats, s) \in Seq(Card)
    BY HeadTailProperties
  <2> HIDE DEF rest
  <2> QED
    BY <2>1
<1>8. played_cards' \subseteq Verdict
  <2>1. ASSUME NEW i \in 1 .. Active
        PROVE  [card |-> stack[i].card, id |-> seats[i],
                illegal |-> verdict(seats, stack, i)] \in Verdict
    <3>1. seats[i] \in Seat \ sitting_out
      BY <1>2
    <3>2. stack[i].card = card(seats[i])
      <4> HIDE DEF card
      <4>1. stack = [k \in 1 .. Active |-> [card |-> card(seats[k]), id |-> seats[k]]]
        OBVIOUS
      <4> QED
        BY <4>1
    <3>3. card(seats[i]) \in Card
      BY <1>5, <3>1
    <3>4. verdict(seats, stack, i) \in BOOLEAN
      BY RenegeIsBoolean
    <3> HIDE DEF verdict, card
    <3> QED
      BY <3>1, <3>2, <3>3, <3>4 DEF Verdict
  <2> HIDE DEF verdict
  <2> QED
    BY <1>4, <2>1
<1>9. PICK team, points, last :
        settle(team, points, last, last, [s \in Seat |-> rest(seats, s)])
  BY <1>4, Zenon DEF endHand
<1>10. top_card \in Card \cup {NoCard} /\ trump' \in Suit
  BY DEF CardsInOrder, CardTypeOK
<1> HIDE DEF rest
<1> QED
  BY <1>4, <1>6, <1>7, <1>8, <1>9, <1>10, SettledInOrder

\* Once everybody has played to a trick, everybody is a card down.
LEMMA FullTrickSizes ==
  ASSUME IInv, CardsInOrder, phase = "PLAYING",
         NEW card, NEW own, NEW queued, Taken(card, own, queued),
         Len(trick) + 1 = Active
  PROVE  \A s \in Seat :
           /\ Len(own[s]) + Len(queued[s]) =
                CardsPerHand - IF s \in sitting_out THEN 0 ELSE Total(tricks) + 1
           /\ s \in sitting_out => queued[s] = <<>>
<1> DEFINE leader == IF trick = <<>> THEN turn ELSE trick_leader
           seats  == TurnOrder(leader)
<1>1. /\ leader \in Seat \ sitting_out /\ turn \in Seat \ sitting_out
      /\ sitting_out \subseteq {Partner(caller)} /\ Partner(caller) \in Seat
      /\ DOMAIN trick = 1 .. Len(trick) /\ Len(trick) \in Nat
      /\ turn = seats[Len(trick) + 1]
      /\ \A i \in 1 .. Len(trick) : trick[i].id = seats[i]
      /\ \A s \in sitting_out : ~HasPlayed(s)
      /\ ~HasPlayed(turn)
  BY TrickSoFar, ActiveRange
<1> HIDE DEF leader
<1>2. \A s \in Seat \ sitting_out : \E i \in 1 .. Active : seats[i] = s
  BY <1>1, TurnOrderGoesRound
<1> HIDE DEF seats
<1>3. \A s \in Seat \ sitting_out : s # turn => HasPlayed(s)
  <2> TAKE s \in Seat \ sitting_out
  <2> HAVE s # turn
  <2>1. PICK i \in 1 .. Active : seats[i] = s
    BY <1>2
  <2>2. i \in DOMAIN trick /\ trick[i].id = s
    BY <1>1, <2>1
  <2> QED
    BY <2>2 DEF HasPlayed
<1>4. \A s \in Seat : CardCount(s) + (IF HasPlayed(s) THEN 1 ELSE 0)
                        = CardsPerHand - IF s \in sitting_out THEN 0 ELSE Total(tricks)
  BY Zenon DEF CardsInOrder, HandSizes, HasPlayed
<1>5. CardsPerHand \in Nat /\ Total(tricks) \in Nat
  BY GameAssumption, TallyGrows DEF IInv, ControlTypeOK
<1>6. \A s \in Seat : CardCount(s) \in Nat
  BY LenProperties DEF CardCount, CardsInOrder, CardTypeOK
<1>7. /\ Len(own[turn]) + Len(queued[turn]) = CardCount(turn) - 1
      /\ \A s \in Seat \ {turn} : /\ Len(own[s]) + Len(queued[s]) = CardCount(s)
                                  /\ queued[s] = premoves[s]
  BY DEF Taken, CardCount
<1>8. \A s \in sitting_out : premoves[s] = <<>>
  BY DEF CardsInOrder, QueuesArePlayers, IInv, ControlTypeOK
<1> TAKE s \in Seat
<1> DEFINE left == Len(own[s]) + Len(queued[s])
           had  == CardCount(s)
<1>9. /\ had \in Nat
      /\ had + (IF HasPlayed(s) THEN 1 ELSE 0)
           = CardsPerHand - IF s \in sitting_out THEN 0 ELSE Total(tricks)
  BY <1>4, <1>6
<1>10. CASE s = turn
  <2>1. left = had - 1 /\ s \notin sitting_out /\ ~HasPlayed(s)
    BY <1>1, <1>7, <1>10
  <2> HIDE DEF left, had
  <2>2. left = CardsPerHand - (Total(tricks) + 1)
    BY <1>5, <1>9, <2>1
  <2> QED
    BY <2>1, <2>2 DEF left
<1>11. CASE s # turn
  <2>1. left = had /\ queued[s] = premoves[s]
    BY <1>7, <1>11
  <2> HIDE DEF left, had
  <2>2. left = CardsPerHand - IF s \in sitting_out THEN 0 ELSE Total(tricks) + 1
    BY <1>1, <1>3, <1>5, <1>9, <1>11, <2>1
  <2> QED
    BY <1>8, <2>1, <2>2 DEF left
<1> QED
  BY <1>10, <1>11

\* What a card taken leaves in order whatever becomes of the trick.
LEMMA TakenInOrder ==
  ASSUME CardsInOrder, phase = "PLAYING", turn \in Seat,
         NEW card, Taken(card, cards', premoves'),
         UNCHANGED <<phase, humans, sitting_out, trump, top_card>>,
         trick' \in Seq(Play), played_cards' \subseteq Verdict
  PROVE  /\ CardTypeOK' /\ TopCardIsTurnedUp' /\ QueuesArePlayers'
         /\ \A s \in Seat : NoneTwice(cards'[s], premoves'[s])
<1>1. CardTypeOK'
  BY DEF CardsInOrder, CardTypeOK, Taken
<1>2. TopCardIsTurnedUp'
  BY DEF TopCardIsTurnedUp, Voting
<1>3. \A s \in Seat : premoves'[s] # <<>> => premoves[s] # <<>>
  BY DEF Taken
<1>4. QueuesArePlayers'
  BY <1>3 DEF CardsInOrder, QueuesArePlayers, Human
<1>5. \A s \in Seat : NoneTwice(cards'[s], premoves'[s])
  <2>1. \A s \in Seat : NoneTwice(cards[s], premoves[s])
    BY DEF CardsInOrder, Waiting
  <2> QED
    BY <2>1 DEF Taken
<1> QED
  BY <1>1, <1>2, <1>4, <1>5

\* A trick that is full leaves the cards in order, whether or not it was the last
\* but one.
LEMMA EndTrickInOrder ==
  ASSUME IInv, CardsInOrder, phase = "PLAYING",
         NEW card, NEW own, NEW queued, Taken(card, own, queued),
         Len(trick) + 1 = Active,
         NEW stack, NEW leader \in Seat \ sitting_out, NEW played \in SUBSET Verdict,
         endTrick(stack, leader, played, own, queued),
         UNCHANGED <<people, contract>>
  PROVE  CardsInOrder'
<1>1. PICK i, winner, won :
        /\ i \in 1 .. Active
        /\ winner = TurnOrder(leader)[i]
        /\ won = [tricks EXCEPT ![winner] = @ + 1]
        /\ \/ /\ ~lastTrickDue(won)
              /\ tricks' = won
              /\ trick' = <<>> /\ trick_leader' = leader /\ played_cards' = played
              /\ turn' = winner /\ turn_token' = winner
              /\ cards' = own /\ premoves' = queued
              /\ UNCHANGED <<phase, dealer, top_card, scores, sitting_out>>
           \/ /\ lastTrickDue(won)
              /\ lastTrick(winner, won, played, own, queued)
  BY Zenon DEF endTrick
<1>2. /\ sitting_out \subseteq {Partner(caller)} /\ Partner(caller) \in Seat
      /\ turn \in Seat /\ tricks \in [Seat -> Nat]
  BY SeatsStay DEF IInv, ControlTypeOK, SitterIsCallersPartner
<1>3. winner \in Seat \ sitting_out /\ Active \in {3, 4}
  <2>1. /\ \A k \in 1 .. Active : TurnOrder(leader)[k] \in Seat \ sitting_out
        /\ Active \in {3, 4}
    BY <1>2, TurnOrderGoesRound
  <2> QED
    BY <1>1, <2>1
<1>4. Total(won) = Total(tricks) + 1 /\ Total(tricks) \in Nat /\ won \in [Seat -> Nat]
  BY <1>1, <1>2, <1>3, TallyGrows
<1>5. \A s \in Seat :
        /\ Len(own[s]) + Len(queued[s]) =
             CardsPerHand - IF s \in sitting_out THEN 0 ELSE Total(tricks) + 1
        /\ s \in sitting_out => queued[s] = <<>>
  BY FullTrickSizes
<1>6. /\ own \in [Seat -> Seq(Card)] /\ queued \in [Seat -> Seq(Card)]
  BY DEF Taken
<1>7. humans' = humans /\ trump' = trump
  BY DEF people, contract
<1>8. CASE /\ tricks' = won
           /\ trick' = <<>> /\ trick_leader' = leader /\ played_cards' = played
           /\ turn' = winner
           /\ cards' = own /\ premoves' = queued
           /\ UNCHANGED <<phase, top_card, sitting_out>>
  <2>1. /\ CardTypeOK' /\ TopCardIsTurnedUp' /\ QueuesArePlayers'
        /\ \A s \in Seat : NoneTwice(cards'[s], premoves'[s])
    BY <1>2, <1>7, <1>8, TakenInOrder
  <2>2. TrickSeats' /\ LeaderPlays'
    BY <1>3, <1>8 DEF TrickSeats, LeaderPlays, Active
  <2>3. HandSizes'
    <3>1. Total(tricks)' = Total(tricks) + 1
      BY <1>4, <1>8 DEF Total
    <3>2. \A s \in Seat : ~HasPlayed(s)'
      BY <1>8 DEF HasPlayed
    <3>3. ASSUME NEW s \in Seat
          PROVE  CardCount(s)' + (IF HasPlayed(s)' THEN 1 ELSE 0)
                   = CardsPerHand - IF s \in sitting_out THEN 0 ELSE Total(tricks)'
      <4>1. CardCount(s)' = CardsPerHand - IF s \in sitting_out THEN 0 ELSE Total(tricks)'
        BY <1>5, <1>8, <3>1 DEF CardCount
      <4>2. CardCount(s)' \in Nat
        BY <1>6, <1>8, LenProperties DEF CardCount
      <4> QED
        BY <3>2, <4>1, <4>2
    <3>4. phase' = "PLAYING" /\ sitting_out' = sitting_out
      BY <1>8
    <3> QED
      BY <3>3, <3>4, Zenon DEF HandSizes, HasPlayed, Voting
  <2> QED
    BY <1>8, <2>1, <2>2, <2>3 DEF CardsInOrder
<1>9. CASE lastTrickDue(won) /\ lastTrick(winner, won, played, own, queued)
  <2>1. Total(tricks) + 1 = CardsPerHand - 1
    BY <1>4, <1>9 DEF lastTrickDue
  <2>2. \A s \in Seat \ sitting_out : Len(own[s]) + Len(queued[s]) = 1
    <3>1. \A s \in Seat \ sitting_out :
            Len(own[s]) + Len(queued[s]) = CardsPerHand - (Total(tricks) + 1)
      BY <1>5
    <3>2. CardsPerHand - (Total(tricks) + 1) = 1
      BY <1>4, <2>1, GameAssumption
    <3> QED
      BY <3>1, <3>2
  <2>3. \A s \in sitting_out : queued[s] = <<>>
    BY <1>2, <1>5
  <2> QED
    BY <1>3, <1>6, <1>7, <1>9, <2>2, <2>3, LastTrickInOrder
<1> QED
  BY <1>1, <1>8, <1>9

\* A card played, by whichever handler or loop, leaves the cards in order.
LEMMA PlayTopInOrder ==
  ASSUME IInv, CardsInOrder, phase = "PLAYING",
         NEW card, NEW own, NEW queued, Taken(card, own, queued),
         playTop(card, own, queued)
  PROVE  CardsInOrder'
<1>1. UNCHANGED <<people, contract>> /\ humans' = humans /\ trump' = trump
  BY DEF playTop, people, contract
<1>2. PICK leader \in {IF trick = <<>> THEN turn ELSE trick_leader},
           stack \in {Append(trick, [card |-> card, id |-> turn])},
           played \in {played_cards \cup {[card |-> card, id |-> turn,
                                           illegal |-> Renege(card, own[turn], trick)]}} :
        \/ /\ Len(stack) # Active
           /\ trick' = stack /\ trick_leader' = leader /\ played_cards' = played
           /\ turn' = advance(turn, sitting_out)
           /\ cards' = own /\ premoves' = queued
           /\ UNCHANGED <<phase, top_card, tricks, sitting_out>>
        \/ /\ Len(stack) = Active
           /\ endTrick(stack, leader, played, own, queued)
  BY Zenon DEF playTop
<1> DEFINE seats == TurnOrder(leader)
<1>3. /\ leader \in Seat \ sitting_out /\ turn \in Seat \ sitting_out
      /\ sitting_out \subseteq {Partner(caller)} /\ Partner(caller) \in Seat
      /\ Len(trick) \in 0 .. Active - 1 /\ DOMAIN trick = 1 .. Len(trick)
      /\ turn = seats[Len(trick) + 1]
      /\ \A i \in 1 .. Len(trick) : trick[i].id = seats[i]
      /\ \A s \in sitting_out : ~HasPlayed(s)
      /\ ~HasPlayed(turn)
  <2>1. leader = IF trick = <<>> THEN turn ELSE trick_leader
    OBVIOUS
  <2> QED
    BY <2>1, TrickSoFar
<1>4. /\ Active \in {3, 4}
      /\ \A i \in 1 .. Active - 1 : seats[i + 1] = advance(seats[i], sitting_out)
  BY <1>3, TurnOrderGoesRound
<1> HIDE DEF seats
<1>5. /\ card \in Card /\ trick \in Seq(Play) /\ played_cards \subseteq Verdict
      /\ [card |-> card, id |-> turn] \in Play
  BY <1>3 DEF Taken, CardsInOrder, CardTypeOK, Play
<1>6. /\ stack \in Seq(Play) /\ Len(stack) = Len(trick) + 1
      /\ \A i \in 1 .. Len(trick) : stack[i] = trick[i]
      /\ stack[Len(trick) + 1] = [card |-> card, id |-> turn]
      /\ DOMAIN stack = 1 .. Len(trick) + 1
  <2>1. stack = Append(trick, [card |-> card, id |-> turn])
    OBVIOUS
  <2> QED
    BY <1>5, <2>1, AppendProperties, LenProperties
<1>7. played \subseteq Verdict
  <2>1. Renege(card, own[turn], trick) \in BOOLEAN
    BY RenegeIsBoolean
  <2>2. [card |-> card, id |-> turn, illegal |-> Renege(card, own[turn], trick)] \in Verdict
    BY <1>3, <1>5, <2>1 DEF Verdict
  <2> QED
    BY <1>5, <2>2
<1>8. CASE /\ Len(stack) # Active
           /\ trick' = stack /\ trick_leader' = leader /\ played_cards' = played
           /\ turn' = advance(turn, sitting_out)
           /\ cards' = own /\ premoves' = queued
           /\ UNCHANGED <<phase, top_card, tricks, sitting_out>>
  <2>1. /\ CardTypeOK' /\ TopCardIsTurnedUp' /\ QueuesArePlayers'
        /\ \A s \in Seat : NoneTwice(cards'[s], premoves'[s])
    BY <1>1, <1>3, <1>6, <1>7, <1>8, TakenInOrder
  <2>2. turn' \in Seat \ sitting_out
    BY <1>3, <1>8, AdvanceSkips
  <2>3. /\ Len(trick)' = Len(trick) + 1 /\ Len(trick) + 1 \in 1 .. Active - 1
        /\ Active' = Active /\ TurnOrder(trick_leader)' = seats
        /\ DOMAIN trick' = 1 .. Len(trick) + 1
    <3>1. Active' = Active
      BY <1>8 DEF Active
    <3>2. TurnOrder(trick_leader)' = seats
      BY <1>8 DEF TurnOrder, seats
    <3>3. Len(stack) \in 1 .. Active - 1
      BY <1>3, <1>4, <1>6, <1>8
    <3> QED
      BY <1>6, <1>8, <3>1, <3>2, <3>3
  <2>4. turn' = seats[Len(trick) + 2]
    <3>1. Len(trick) + 1 \in 1 .. Active - 1 /\ Len(trick) + 1 + 1 = Len(trick) + 2
      BY <1>3, <2>3
    <3> QED
      BY <1>3, <1>4, <1>8, <3>1
  <2>5. \A i \in 1 .. Len(trick) + 1 : trick'[i].id = seats[i]
    BY <1>3, <1>6, <1>8
  <2>6. TrickSeats'
    <3>1. Len(trick)' + 1 = Len(trick) + 2 /\ Len(trick)' < Active'
      BY <1>3, <1>4, <2>3
    <3> QED
      BY <1>8, <2>2, <2>3, <2>4, <2>5, <3>1 DEF TrickSeats
  <2>7. LeaderPlays'
    BY <1>3, <1>8 DEF LeaderPlays
  <2>8. \A s \in Seat : HasPlayed(s)' <=> HasPlayed(s) \/ s = turn
    BY <1>3, <1>6, <1>8 DEF HasPlayed
  <2>9. ASSUME NEW s \in Seat
        PROVE  CardCount(s)' + (IF HasPlayed(s)' THEN 1 ELSE 0)
                 = CardsPerHand - IF s \in sitting_out THEN 0 ELSE Total(tricks)
    <3>1. CardCount(s) + (IF HasPlayed(s) THEN 1 ELSE 0)
            = CardsPerHand - IF s \in sitting_out THEN 0 ELSE Total(tricks)
      BY Zenon DEF CardsInOrder, HandSizes, HasPlayed
    <3>2. CardCount(s) \in Nat
      BY LenProperties DEF CardCount, CardsInOrder, CardTypeOK
    <3>3. CASE s = turn
      <4>1. CardCount(s)' = CardCount(s) - 1
        BY <1>8, <3>3 DEF Taken, CardCount
      <4>2. HasPlayed(s)' /\ ~HasPlayed(s)
        BY <1>3, <2>8, <3>3
      <4> HIDE DEF CardCount
      <4>3. CardCount(s) = CardsPerHand - IF s \in sitting_out THEN 0 ELSE Total(tricks)
        BY <3>1, <3>2, <4>2
      <4> QED
        BY <3>2, <4>1, <4>2, <4>3
    <3>4. CASE s # turn
      <4>1. CardCount(s)' = CardCount(s)
        BY <1>8, <3>4 DEF Taken, CardCount
      <4> QED
        BY <2>8, <3>1, <3>4, <4>1
    <3> QED
      BY <3>3, <3>4
  <2>10. HandSizes'
    <3>1. phase' = "PLAYING" /\ sitting_out' = sitting_out /\ Total(tricks)' = Total(tricks)
      BY <1>8 DEF Total
    <3> QED
      BY <2>9, <3>1, Zenon DEF HandSizes, HasPlayed, Voting
  <2> QED
    BY <1>8, <2>1, <2>6, <2>7, <2>10 DEF CardsInOrder
<1>9. CASE Len(stack) = Active /\ endTrick(stack, leader, played, own, queued)
  BY <1>1, <1>3, <1>6, <1>7, <1>9, EndTrickInOrder
<1> QED
  BY <1>2, <1>8, <1>9
-----------------------------------------------------------------------------
(* The handlers *)

\* To say that no card is twice in two hands it does not matter which comes first.
LEMMA NoneTwiceIsSymmetric ==
  ASSUME NEW a, NEW b, NoneTwice(a, b)
  PROVE  NoneTwice(b, a)
BY DEF NoneTwice

\* Nobody has a premove before play starts or after it ends.
LEMMA NoQueueOutsidePlay ==
  ASSUME CardsInOrder, phase # "PLAYING"
  PROVE  \A s \in Seat : premoves[s] = <<>>
BY DEF CardsInOrder, QueuesArePlayers

\* Play starts with a full hand for everybody and nothing on the table.
LEMMA PlayStartsInOrder ==
  ASSUME CardTypeOK', phase' = "PLAYING", trick' = <<>>,
         \A s \in Seat : /\ premoves'[s] = <<>>
                         /\ Len(cards'[s]) = CardsPerHand
                         /\ NoneTwice(cards'[s], <<>>),
         NEW p \in Seat, sitting_out' \subseteq {p}, turn' \in Seat \ sitting_out',
         Total(tricks)' = 0
  PROVE  CardsInOrder'
<1>1. TopCardIsTurnedUp' /\ QueuesArePlayers' /\ LeaderPlays'
  BY DEF TopCardIsTurnedUp, QueuesArePlayers, LeaderPlays, Voting
<1>2. Active' > 0
  <2>1. IsFiniteSet(Seat)
    <3>1. 0 \in Int /\ 3 \in Int
      OBVIOUS
    <3> QED
      BY <3>1, FS_Interval
  <2>2. IsFiniteSet(Seat \ sitting_out')
    BY <2>1, FS_Subset
  <2>3. Seat \ sitting_out' # {}
    OBVIOUS
  <2>4. Cardinality(Seat \ sitting_out') \in Nat
    BY <2>2, FS_CardinalityType
  <2>5. Cardinality(Seat \ sitting_out') # 0
    BY <2>2, <2>3, FS_EmptySet, Zenon
  <2>6. Cardinality(Seat \ sitting_out') > 0
    BY <2>4, <2>5
  <2> QED
    BY <2>6 DEF Active
<1>3. TrickSeats'
  BY <1>2 DEF TrickSeats
<1>4. HandSizes'
  <2>1. ASSUME NEW s \in Seat
        PROVE  CardCount(s)' + (IF HasPlayed(s)' THEN 1 ELSE 0)
                 = CardsPerHand - IF s \in sitting_out' THEN 0 ELSE Total(tricks)'
    <3>1. CardCount(s)' = CardsPerHand
      <4>1. Len(premoves'[s]) = 0 /\ Len(cards'[s]) = CardsPerHand
        OBVIOUS
      <4>2. CardsPerHand + 0 = CardsPerHand
        BY GameAssumption
      <4> QED
        BY <4>1, <4>2 DEF CardCount
    <3>2. ~HasPlayed(s)'
      BY DEF HasPlayed
    <3> QED
      BY <3>1, <3>2, GameAssumption
  <2> QED
    BY <2>1, Zenon DEF HandSizes, HasPlayed, Voting
<1>5. \A s \in Seat : NoneTwice(cards'[s], premoves'[s])
  OBVIOUS
<1> QED
  BY <1>1, <1>3, <1>4, <1>5 DEF CardsInOrder

\* An order leaves the dealer with the top card to discard for, or starts play.
LEMMA OrderInOrder ==
  ASSUME IInv, IInv', CardsInOrder,
         NEW s, NEW alone, NEW suit \in Suit, order(s, alone, suit)
  PROVE  CardsInOrder'
<1>1. /\ phase \in Voting
      /\ trump' = IF phase = "VOTE_ROUND1" THEN top_card.suit ELSE suit
      /\ UNCHANGED <<people, dealer, top_card, premoves, tricks, trick>>
      /\ \/ /\ phase = "VOTE_ROUND1" /\ phase' = "DISCARDING" /\ turn' = dealer
            /\ cards' = [cards EXCEPT ![dealer] = Append(@, top_card)]
            /\ UNCHANGED played_cards
         \/ startPlay(sitting_out') /\ UNCHANGED cards
  BY Zenon DEF order
<1>2. /\ tricks = Nobody /\ dealer \in Seat
      /\ sitting_out' \subseteq {Partner(caller)'} /\ Partner(caller)' \in Seat
  BY <1>1, SeatsStay
    DEF IInv, ControlTypeOK, SitterIsCallersPartner, TricksAreTallied, Voting, Partner
<1>3. /\ \A t \in Seat : premoves[t] = <<>> /\ Len(cards[t]) = CardsPerHand
      /\ trick = <<>>
  <2>1. \A t \in Seat : Len(cards[t]) = CardsPerHand + 0
    BY <1>1 DEF CardsInOrder, HandSizes, Voting
  <2>2. CardsPerHand + 0 = CardsPerHand
    BY GameAssumption
  <2> QED
    BY <1>1, <2>1, <2>2 DEF CardsInOrder, HandSizes, Voting
<1>4. /\ CardTypeOK /\ top_card \in Card
      /\ \A t \in Seat : NoneTwice(cards[t], <<>>) /\ top_card \notin Range(cards[t])
  BY <1>1, <1>3
    DEF CardsInOrder, TopCardIsTurnedUp, InHand, Range, Voting, Waiting
<1>5. trump' \in Suit
  BY <1>1, <1>4 DEF Card
<1>6. CASE /\ phase = "VOTE_ROUND1" /\ phase' = "DISCARDING" /\ turn' = dealer
           /\ cards' = [cards EXCEPT ![dealer] = Append(@, top_card)]
           /\ UNCHANGED played_cards
  <2> DEFINE more == Append(cards[dealer], top_card)
  <2>1. cards[dealer] \in Seq(Card) /\ <<>> \in Seq(Card) /\ Range(<<>>) = {}
    BY <1>2, <1>4 DEF CardTypeOK, Range
  <2>2. /\ more \in Seq(Card) /\ Len(more) = Len(cards[dealer]) + 1
        /\ Range(more) = Range(cards[dealer]) \cup {top_card}
        /\ NoneTwice(more, <<>>)
    <3>1. NoneTwice(<<>>, cards[dealer]) /\ top_card \notin Range(cards[dealer])
      BY <1>2, <1>4, NoneTwiceIsSymmetric
    <3>2. /\ more \in Seq(Card) /\ Len(more) = Len(cards[dealer]) + 1
          /\ Range(more) = Range(cards[dealer]) \cup {top_card}
          /\ NoneTwice(<<>>, more)
      <4>1. top_card \in Card /\ top_card \notin Range(<<>>)
        BY <1>4, <2>1
      <4> QED
        BY <2>1, <3>1, <4>1, QueueWithCard
    <3> QED
      BY <3>2, NoneTwiceIsSymmetric
  <2> HIDE DEF more
  <2>3. /\ cards' \in [Seat -> Seq(Card)] /\ cards'[dealer] = more
        /\ \A t \in Seat \ {dealer} : cards'[t] = cards[t]
    BY <1>2, <1>4, <1>6, <2>2 DEF CardTypeOK, more
  <2>4. CardTypeOK'
    BY <1>1, <1>4, <1>5, <1>6, <2>3 DEF CardTypeOK
  <2>5. TopCardIsTurnedUp'
    BY <1>1, <1>6, <2>2, <2>3 DEF TopCardIsTurnedUp, InHand, Range, Voting
  <2>6. \A t \in Seat : NoneTwice(cards'[t], premoves'[t])
    BY <1>1, <1>3, <1>4, <2>2, <2>3
  <2>7. HandSizes'
    <3>1. \A t \in Seat : Len(cards'[t]) = CardsPerHand + IF t = dealer THEN 1 ELSE 0
      <4>1. CardsPerHand + 0 = CardsPerHand
        BY GameAssumption
      <4> QED
        BY <1>2, <1>3, <2>2, <2>3, <4>1
    <3> QED
      BY <1>1, <1>3, <1>6, <3>1 DEF HandSizes
  <2> QED
    BY <1>1, <1>3, <1>6, <2>4, <2>5, <2>6, <2>7
      DEF CardsInOrder, QueuesArePlayers, LeaderPlays, TrickSeats
<1>7. CASE startPlay(sitting_out') /\ UNCHANGED cards
  <2>1. /\ phase' = "PLAYING" /\ played_cards' = {}
        /\ turn' \in Seat \ sitting_out'
    BY <1>2, <1>7, AdvanceSkips DEF startPlay
  <2>2. CardTypeOK'
    BY <1>1, <1>4, <1>5, <1>7, <2>1 DEF CardTypeOK
  <2>3. Total(tricks)' = 0
    BY <1>1, <1>2 DEF Total, Nobody
  <2> QED
    BY <1>1, <1>2, <1>3, <1>4, <1>7, <2>1, <2>2, <2>3, PlayStartsInOrder
<1> QED
  BY <1>1, <1>6, <1>7

\* A pass moves no card.
LEMMA PassInOrder ==
  ASSUME CardsInOrder, NEW s, pass(s)
  PROVE  CardsInOrder'
<1>1. /\ phase \in Voting /\ phase' \in Voting
      /\ UNCHANGED <<people, dealer, trump, top_card, cards, premoves, trick, played_cards>>
  BY DEF pass, contract, table, hands, Voting
<1>2. CardTypeOK' /\ TopCardIsTurnedUp'
  BY <1>1 DEF CardsInOrder, CardTypeOK, TopCardIsTurnedUp, InHand, Voting
<1>3. HandSizes'
  BY <1>1 DEF CardsInOrder, HandSizes, Voting
<1>4. /\ \A t \in Seat : NoneTwice(cards'[t], premoves'[t]) /\ premoves'[t] = <<>>
      /\ trick' = <<>>
  BY <1>1, NoQueueOutsidePlay DEF CardsInOrder, Voting, Waiting
<1> QED
  BY <1>1, <1>2, <1>3, <1>4
    DEF CardsInOrder, QueuesArePlayers, LeaderPlays, TrickSeats, Voting

\* The discard brings the dealer's hand down to size and starts play.
LEMMA DiscardInOrder ==
  ASSUME IInv, CardsInOrder, NEW s, NEW card, discard(s, card)
  PROVE  CardsInOrder'
<1>1. /\ phase = "DISCARDING" /\ Holds(cards[dealer], card)
      /\ cards' = [cards EXCEPT ![dealer] = erase(@, card)]
      /\ startPlay(sitting_out)
      /\ UNCHANGED <<trump, caller, top_card, premoves, tricks, sitting_out, trick>>
  BY DEF discard, contract
<1>2. /\ tricks = Nobody /\ dealer \in Seat
      /\ sitting_out \subseteq {Partner(caller)} /\ Partner(caller) \in Seat
  BY <1>1, SeatsStay DEF IInv, ControlTypeOK, SitterIsCallersPartner, TricksAreTallied
<1>3. /\ \A t \in Seat : premoves[t] = <<>> /\ NoneTwice(cards[t], <<>>)
      /\ trick = <<>>
  BY <1>1, NoQueueOutsidePlay DEF CardsInOrder, Waiting
<1> DEFINE rest == erase(cards[dealer], card)
<1>4. cards \in [Seat -> Seq(Card)] /\ <<>> \in Seq(Card)
  BY DEF CardsInOrder, CardTypeOK
<1>5. rest \in Seq(Card) /\ Len(rest) = Len(cards[dealer]) - 1 /\ NoneTwice(rest, <<>>)
  BY <1>1, <1>2, <1>3, <1>4, HandWithoutCard
<1> HIDE DEF rest
<1>6. /\ cards' \in [Seat -> Seq(Card)] /\ cards'[dealer] = rest
      /\ \A t \in Seat \ {dealer} : cards'[t] = cards[t]
  BY <1>1, <1>2, <1>4, <1>5 DEF rest
<1>7. \A t \in Seat : Len(cards'[t]) = CardsPerHand
  <2>1. \A t \in Seat : Len(cards[t]) = CardsPerHand + IF t = dealer THEN 1 ELSE 0
    BY <1>1 DEF CardsInOrder, HandSizes
  <2>2. CardsPerHand + 0 = CardsPerHand /\ CardsPerHand + 1 - 1 = CardsPerHand
    BY GameAssumption
  <2> QED
    BY <1>2, <1>5, <1>6, <2>1, <2>2
<1>8. /\ phase' = "PLAYING" /\ played_cards' = {}
      /\ turn' \in Seat \ sitting_out'
  BY <1>1, <1>2, AdvanceSkips DEF startPlay
<1>9. CardTypeOK'
  BY <1>1, <1>6, <1>8 DEF CardsInOrder, CardTypeOK
<1>10. Total(tricks)' = 0
  BY <1>1, <1>2 DEF Total, Nobody
<1>11. \A t \in Seat : premoves'[t] = <<>> /\ NoneTwice(cards'[t], <<>>)
  BY <1>1, <1>3, <1>5, <1>6
<1> QED
  BY <1>1, <1>2, <1>3, <1>7, <1>8, <1>9, <1>10, <1>11, PlayStartsInOrder

\* Cards that change places between a hand and its queue leave the rest in order.
LEMMA QueueMovesInOrder ==
  ASSUME CardsInOrder, phase = "PLAYING", NEW s \in Human \ sitting_out,
         NEW hand \in Seq(Card), NEW queue \in Seq(Card), NoneTwice(hand, queue),
         Len(hand) + Len(queue) = CardCount(s),
         cards' = [cards EXCEPT ![s] = hand], premoves' = [premoves EXCEPT ![s] = queue],
         UNCHANGED <<people, phase, dealer, turn, trump, top_card, tricks, sitting_out,
                     trick, trick_leader, played_cards>>
  PROVE  CardsInOrder'
<1>1. s \in Seat
  BY DEF Human
<1>2. /\ cards' \in [Seat -> Seq(Card)] /\ premoves' \in [Seat -> Seq(Card)]
      /\ cards'[s] = hand /\ premoves'[s] = queue
      /\ \A t \in Seat \ {s} : cards'[t] = cards[t] /\ premoves'[t] = premoves[t]
  BY <1>1 DEF CardsInOrder, CardTypeOK
<1>3. CardTypeOK' /\ TopCardIsTurnedUp'
  BY <1>2 DEF CardsInOrder, CardTypeOK, TopCardIsTurnedUp, Voting
<1>4. \A t \in Seat : NoneTwice(cards'[t], premoves'[t])
  BY <1>2 DEF CardsInOrder, Waiting
<1>5. QueuesArePlayers'
  BY <1>2 DEF CardsInOrder, QueuesArePlayers, Human, people
<1>6. TrickSeats' /\ LeaderPlays'
  BY DEF CardsInOrder, TrickSeats, LeaderPlays, Active, TurnOrder
<1>7. \A t \in Seat : CardCount(t)' = CardCount(t) /\ (HasPlayed(t)' <=> HasPlayed(t))
  BY <1>2 DEF CardCount, HasPlayed
<1>8. HandSizes'
  <2>1. \A t \in Seat : CardCount(t) + (IF HasPlayed(t) THEN 1 ELSE 0)
                          = CardsPerHand - IF t \in sitting_out THEN 0 ELSE Total(tricks)
    BY Zenon DEF CardsInOrder, HandSizes, HasPlayed
  <2>2. \A t \in Seat : CardCount(t)' + (IF HasPlayed(t)' THEN 1 ELSE 0)
                          = CardsPerHand - IF t \in sitting_out' THEN 0 ELSE Total(tricks)'
    <3>1. Total(tricks)' = Total(tricks)
      BY DEF Total
    <3> HIDE DEF HasPlayed, CardCount
    <3> QED
      BY <1>7, <2>1, <3>1
  <2> QED
    BY <2>2, Zenon DEF HandSizes, HasPlayed, Voting
<1> QED
  BY <1>3, <1>4, <1>5, <1>6, <1>8 DEF CardsInOrder

\* A premove moves a card from the hand to the end of the queue.
LEMMA PremoveInOrder ==
  ASSUME CardsInOrder, NEW s \in Human, NEW card, premove(s, card)
  PROVE  CardsInOrder'
<1>1. /\ phase = "PLAYING" /\ s \notin sitting_out /\ Holds(cards[s], card)
      /\ cards' = [cards EXCEPT ![s] = erase(cards[s], card)]
      /\ premoves' = [premoves EXCEPT ![s] = Append(premoves[s], card)]
      /\ UNCHANGED <<people, phase, dealer, turn, trump, top_card, tricks, sitting_out,
                     trick, trick_leader, played_cards>>
  BY DEF premove, contract, table
<1>2. s \in Seat
  BY DEF Human
<1>3. cards[s] \in Seq(Card) /\ premoves[s] \in Seq(Card) /\ NoneTwice(cards[s], premoves[s])
  BY <1>1, <1>2 DEF CardsInOrder, CardTypeOK, Waiting
<1> DEFINE hand  == erase(cards[s], card)
           queue == Append(premoves[s], card)
<1>4. /\ card \in Card /\ hand \in Seq(Card) /\ Len(hand) = Len(cards[s]) - 1
      /\ Range(hand) = Range(cards[s]) \ {card}
      /\ NoneTwice(hand, premoves[s]) /\ card \notin Range(premoves[s])
  BY <1>1, <1>3, HandWithoutCard
<1> HIDE DEF hand
<1>5. /\ queue \in Seq(Card) /\ Len(queue) = Len(premoves[s]) + 1
      /\ NoneTwice(hand, queue)
  <2>1. card \notin Range(hand)
    BY <1>4
  <2> QED
    BY <1>3, <1>4, <2>1, QueueWithCard
<1> HIDE DEF queue
<1>6. Len(hand) + Len(queue) = CardCount(s)
  <2>1. \A a, b \in Nat : a - 1 + (b + 1) = a + b
    OBVIOUS
  <2>2. Len(cards[s]) \in Nat /\ Len(premoves[s]) \in Nat
    BY <1>3, LenProperties
  <2> QED
    BY <1>4, <1>5, <2>1, <2>2 DEF CardCount
<1>7. s \in Human \ sitting_out
  BY <1>1
<1>8. cards' = [cards EXCEPT ![s] = hand] /\ premoves' = [premoves EXCEPT ![s] = queue]
  BY <1>1, Zenon DEF hand, queue
<1> QED
  BY <1>1, <1>4, <1>5, <1>6, <1>7, <1>8, QueueMovesInOrder

\* Taking premoves back moves the queue to the end of the hand.
LEMMA UndoPremoveInOrder ==
  ASSUME CardsInOrder, NEW s \in Human, undo_premove(s)
  PROVE  CardsInOrder'
<1>1. /\ phase = "PLAYING" /\ premoves[s] # <<>>
      /\ cards' = [cards EXCEPT ![s] = cards[s] \o premoves[s]]
      /\ premoves' = [premoves EXCEPT ![s] = <<>>]
      /\ UNCHANGED <<people, phase, dealer, turn, trump, top_card, tricks, sitting_out,
                     trick, trick_leader, played_cards>>
  BY DEF undo_premove, contract, table
<1>2. s \in Seat
  BY DEF Human
<1>3. cards[s] \in Seq(Card) /\ premoves[s] \in Seq(Card) /\ NoneTwice(cards[s], premoves[s])
  BY <1>1, <1>2 DEF CardsInOrder, CardTypeOK, Waiting
<1> DEFINE hand == cards[s] \o premoves[s]
<1>4. /\ hand \in Seq(Card) /\ Len(hand) = Len(cards[s]) + Len(premoves[s])
      /\ NoneTwice(hand, <<>>)
  BY <1>3, HandWithQueue
<1> HIDE DEF hand
<1>5. Len(hand) + Len(<<>>) = CardCount(s)
  <2>1. Len(hand) \in Nat /\ Len(<<>>) = 0
    BY <1>4, LenProperties
  <2>2. Len(hand) = CardCount(s)
    BY <1>4 DEF CardCount
  <2> QED
    BY <2>1, <2>2
<1>6. s \in Human \ sitting_out
  BY <1>1, <1>2 DEF CardsInOrder, QueuesArePlayers
<1>7. cards' = [cards EXCEPT ![s] = hand] /\ <<>> \in Seq(Card)
  BY <1>1 DEF hand
<1> QED
  BY <1>1, <1>4, <1>5, <1>6, <1>7, QueueMovesInOrder

\* A hand laid down onto a clean table is settled like any other.
LEMMA LayDownInOrder ==
  ASSUME CardsInOrder, NEW s, lay_down(s),
         trick = <<>>, \A t \in Seat : premoves[t] = <<>>
  PROVE  CardsInOrder'
<1>1. /\ \E points : settle(turn % 2, points, turn, turn_token, cards)
      /\ UNCHANGED <<trump, premoves, trick, played_cards>>
  BY Zenon DEF lay_down, contract, table
<1>2. /\ cards \in [Seat -> Seq(Card)] /\ premoves' \in [Seat -> Seq(Card)]
      /\ top_card \in Card \cup {NoCard} /\ trump' \in Suit /\ played_cards' \subseteq Verdict
  BY <1>1 DEF CardsInOrder, CardTypeOK
<1> QED
  BY <1>1, <1>2, SettledInOrder

\* A game starts, or starts over, on a table that has been cleared.
LEMMA RestartInOrder ==
  ASSUME CardsInOrder, restart
  PROVE  CardsInOrder'
<1>1. /\ phase \in Waiting /\ phase' = "VOTE_ROUND1" /\ dealCards
      /\ UNCHANGED <<trump, premoves, trick, played_cards>>
  BY DEF restart, nextHand, contract, table
<1>2. /\ premoves' \in [Seat -> Seq(Card)] /\ trick' = <<>>
      /\ trump' \in Suit /\ played_cards' \subseteq Verdict
  BY <1>1 DEF CardsInOrder, CardTypeOK, Waiting
<1>3. \A s \in Seat : premoves'[s] = <<>>
  BY <1>1, NoQueueOutsidePlay DEF Waiting
<1> QED
  BY <1>1, <1>2, <1>3, DealtInOrder

\* Who joins does so before there are cards.
LEMMA JoinInOrder ==
  ASSUME IInv, CardsInOrder, Join
  PROVE  CardsInOrder'
<1>1. /\ phase = "LOBBY"
      /\ UNCHANGED <<phase, trump, top_card, cards, premoves, trick, played_cards>>
  BY DEF Join, IInv, SeatsAreFilled, contract, hands, table
<1>2. CardTypeOK' /\ trick' = <<>>
  BY <1>1 DEF CardsInOrder, CardTypeOK
<1>3. \A s \in Seat : premoves'[s] = <<>>
  BY <1>1, NoQueueOutsidePlay
<1> QED
  BY <1>1, <1>2, <1>3 DEF CardsInOrder, TopCardIsTurnedUp, QueuesArePlayers, LeaderPlays,
        TrickSeats, HandSizes, Voting, Waiting

\* Steps that move no card, turn or phase leave the cards in order.
LEMMA CardsUntouched ==
  ASSUME CardsInOrder,
         UNCHANGED <<humans, phase, dealer, turn, trump, top_card, cards, premoves,
                     tricks, sitting_out, trick, trick_leader, played_cards>>
  PROVE  CardsInOrder'
<1>1. CardTypeOK' /\ TopCardIsTurnedUp' /\ QueuesArePlayers'
  BY DEF CardsInOrder, CardTypeOK, TopCardIsTurnedUp, QueuesArePlayers, InHand, Human
<1>2. LeaderPlays' /\ TrickSeats'
  BY DEF CardsInOrder, LeaderPlays, TrickSeats, Active, TurnOrder
<1>3. HandSizes'
  BY Zenon DEF CardsInOrder, HandSizes, CardCount, Total
<1> QED
  BY <1>1, <1>2, <1>3 DEF CardsInOrder
-----------------------------------------------------------------------------
(* The loops *)

\* A handler goes on with the loop that has something to do, if any has.
LEMMA LoopsGoOn ==
  ASSUME IInv', CardsInOrder', ~cascading', pc' \in {"idle", botsNext', cascadeNext'}
  PROVE  LoopsHaveWork'
<1>1. botsNext' = "bots" => phase' \notin Waiting /\ IsBot(turn)'
  BY DEF botsNext
<1>2. botsNext' \in {"idle", "bots"}
  BY DEF botsNext
<1>3. \/ cascadeNext' = botsNext'
      \/ cascadeNext' = "cascade" /\ premoveAvailable(turn)'
  BY DEF cascadeNext
<1>4. premoveAvailable(turn)' => phase' = "PLAYING"
  <2>1. turn' \in Seat
    BY DEF IInv, ControlTypeOK
  <2> QED
    BY <2>1 DEF CardsInOrder, QueuesArePlayers, premoveAvailable
<1> QED
  BY <1>1, <1>2, <1>3, <1>4 DEF LoopsHaveWork

\* A card played by a request or by a bot.
LEMMA PlayCardKeepsCardIInv ==
  ASSUME IInv, IInv', CardIInv, NEW s, NEW card, play_card(s, card)
  PROVE  CardIInv'
<1>1. /\ phase = "PLAYING" /\ ~cascading /\ ~cascading'
      /\ Holds(cards[turn], card) /\ pc' = cascadeNext'
  BY DEF play_card, CardIInv, LoopsHaveWork
<1>2. PICK own \in {IF cascading THEN cards
                    ELSE [cards EXCEPT ![turn] = erase(@, card)]} :
        playTop(card, own, premoves)
  BY Zenon DEF play_card
<1>3. own = [cards EXCEPT ![turn] = erase(@, card)]
  BY <1>1
<1>4. Taken(card, own, premoves)
  BY <1>1, <1>3, TakenFromHand DEF CardIInv, IInv, ControlTypeOK
<1>5. CardsInOrder'
  BY <1>1, <1>2, <1>4, PlayTopInOrder DEF CardIInv
<1> QED
  BY <1>1, <1>5, LoopsGoOn DEF CardIInv

\* The decisions of whoever is at turn.
LEMMA TurnMoveKeepsCardIInv ==
  ASSUME IInv, IInv', CardIInv,
         NEW s \in Human, Order(s) \/ Pass(s) \/ Discard(s) \/ PlayCard(s)
  PROVE  CardIInv'
<1> USE DEF CardIInv
<1>1. CASE Order(s)
  <2>1. PICK alone, suit : /\ suit \in {trump} \cup OrderSuits
                           /\ order(s, alone, suit)
    BY <1>1, Zenon DEF Order
  <2>2. suit \in Suit
    BY <2>1, GameAssumption DEF CardsInOrder, CardTypeOK
  <2>3. ~cascading' /\ pc' = botsNext'
    BY <2>1 DEF order, LoopsHaveWork
  <2> QED
    BY <2>1, <2>2, <2>3, OrderInOrder, LoopsGoOn
<1>2. CASE Pass(s)
  <2>1. ~cascading' /\ pc' = botsNext' /\ pass(s)
    BY <1>2 DEF Pass, pass, LoopsHaveWork
  <2> QED
    BY <2>1, PassInOrder, LoopsGoOn
<1>3. CASE Discard(s)
  <2>1. PICK card : discard(s, card)
    BY <1>3, Zenon DEF Discard
  <2>2. ~cascading' /\ pc' = botsNext'
    BY <2>1 DEF discard, LoopsHaveWork
  <2> QED
    BY <2>1, <2>2, DiscardInOrder, LoopsGoOn
<1>4. CASE PlayCard(s)
  <2>1. PICK card : play_card(s, card)
    BY <1>4, Zenon DEF PlayCard
  <2> QED
    BY <2>1, PlayCardKeepsCardIInv
<1> QED
  BY <1>1, <1>2, <1>3, <1>4

\* The requests that need no turn.
LEMMA OtherRequestKeepsCardIInv ==
  ASSUME IInv, IInv', CardIInv, OtherRequest, [CleanLayDown]_vars
  PROVE  CardIInv'
<1> USE DEF CardIInv
<1>1. CASE Restart
  <2>1. restart /\ ~cascading' /\ pc' = botsNext'
    BY <1>1 DEF Restart, restart, LoopsHaveWork
  <2> QED
    BY <2>1, RestartInOrder, LoopsGoOn
<1>2. CASE Chat
  <2>1. /\ UNCHANGED <<people, phase, dealer, turn, trump, top_card, hands, tricks,
                       sitting_out, table>>
        /\ ~cascading' /\ pc' = "bots" /\ botsNext = "bots"
    BY <1>2 DEF Chat, contract, LoopsHaveWork
  <2>2. UNCHANGED <<humans, phase, dealer, turn, trump, top_card, cards, premoves,
                    tricks, sitting_out, trick, trick_leader, played_cards>>
    BY <2>1 DEF people, hands, table
  <2>3. botsNext' = "bots"
    BY <2>1 DEF botsNext, people, IsBot
  <2> QED
    BY <2>1, <2>2, <2>3, CardsUntouched, LoopsGoOn
<1>3. ASSUME NEW s \in Human, Premove(s) \/ UndoPremove(s)
      PROVE  CardIInv'
  <2>1. \/ \E card : premove(s, card)
        \/ undo_premove(s)
    BY <1>3, Zenon DEF Premove, UndoPremove
  <2>2. pc' = botsNext /\ UNCHANGED <<people, phase, turn, cascading>>
    BY <2>1 DEF premove, undo_premove
  <2>3. pc' = botsNext' /\ ~cascading'
    BY <2>2 DEF botsNext, people, IsBot, LoopsHaveWork
  <2>4. CardsInOrder'
    BY <1>3, <2>1, PremoveInOrder, UndoPremoveInOrder
  <2> QED
    BY <2>3, <2>4, LoopsGoOn
<1>4. ASSUME NEW s \in Human, LayDown(s)
      PROVE  CardIInv'
  <2>1. lay_down(s)
    BY <1>4 DEF LayDown
  <2>2. ~cascading' /\ pc' = botsNext'
    BY <2>1 DEF lay_down, LoopsHaveWork
  <2>3. CASE CleanLayDown
    <3>1. trick = <<>> /\ \A t \in Seat : premoves[t] = <<>>
      BY <1>4, <2>3 DEF CleanLayDown
    <3> QED
      BY <2>1, <2>2, <3>1, LayDownInOrder, LoopsGoOn
  <2>4. CASE UNCHANGED vars
    BY <2>1, <2>4 DEF lay_down, settle, nextHand, vars
  <2> QED
    BY <2>3, <2>4
<1> QED
  BY <1>1, <1>2, <1>3, <1>4 DEF OtherRequest

\* A bot orders a suit.
LEMMA BotNamesSuit ==
  ASSUME NEW hand, NEW top, NEW round1, orderTrump(hand, top, round1).order
  PROVE  /\ orderTrump(hand, top, round1).suit \in Suit
         /\ orderTrump(hand, top, round1).suit = top.suit <=> round1
<1> DEFINE good == {s \in Suit : /\ s = top.suit <=> round1
                                 /\ scoreHandForSuit(hand, s) >= OrderScore}
<1>1. good # {}
  <2>1. CASE good = {}
    <3>1. orderTrump(hand, top, round1) = [order |-> FALSE]
      BY <2>1, Zenon DEF orderTrump
    <3> QED
      BY <3>1
  <2> QED
    BY <2>1
<1>2. orderTrump(hand, top, round1).suit = Min(good)
  <2>1. orderTrump(hand, top, round1) =
          [order |-> TRUE, suit  |-> Min(good),
           alone |-> scoreHandForSuit(hand, Min(good)) >= AloneScore]
    BY <1>1, Zenon DEF orderTrump
  <2> QED
    BY <2>1
<1>3. good \subseteq 0 .. 3 /\ \A s \in good : s \in Suit /\ (s = top.suit <=> round1)
  BY DEF Suit, DIAMONDS, HEARTS
<1>4. Min(good) \in good
  <2> HIDE DEF good
  <2>1. \E x \in good : \A y \in good : x =< y
    <3>1. CASE 0 \in good
      BY <1>3, <3>1
    <3>2. CASE 0 \notin good /\ 1 \in good
      BY <1>3, <3>2
    <3>3. CASE 0 \notin good /\ 1 \notin good /\ 2 \in good
      BY <1>3, <3>3
    <3>4. CASE 0 \notin good /\ 1 \notin good /\ 2 \notin good
      <4>1. \A y \in good : y = 3
        BY <1>3, <3>4
      <4> QED
        BY <1>1, <4>1
    <3> QED
      BY <3>1, <3>2, <3>3, <3>4
  <2> QED
    BY <2>1, Zenon DEF Min
<1> QED
  BY <1>2, <1>3, <1>4

\* The loops, card by card and decision by decision.
LEMMA LoopKeepsCardIInv ==
  ASSUME IInv, IInv', CardIInv, Loop
  PROVE  CardIInv'
<1> USE DEF CardIInv
<1>1. CASE CascadeStep
  <2>1. PICK card \in {fetched(premoves[turn])},
             queued \in {[premoves EXCEPT ![turn] = Tail(@)]} :
          playTop(card, cards, queued)
    BY <1>1, Zenon DEF CascadeStep
  <2>2. card = fetched(premoves[turn]) /\ queued = [premoves EXCEPT ![turn] = Tail(@)]
    OBVIOUS
  <2>3. /\ pc = "cascade" /\ phase = "PLAYING" /\ UNCHANGED cascading
        /\ pc' = cascadeNext'
    BY <1>1 DEF CascadeStep
  <2>4. turn \in Seat /\ premoves[turn] # <<>> /\ ~cascading'
    BY <2>3 DEF LoopsHaveWork, premoveAvailable, IInv, ControlTypeOK
  <2>5. Taken(card, cards, queued)
    BY <2>2, <2>3, <2>4, TakenFromQueue
  <2>6. CardsInOrder'
    BY <2>1, <2>3, <2>5, PlayTopInOrder
  <2> QED
    BY <2>3, <2>4, <2>6, LoopsGoOn
<1>2. CASE CascadeThrows
  BY <1>2 DEF CascadeThrows, LoopsHaveWork
<1>3. CASE BotVotes
  <2>1. PICK vote \in {botVote} :
          IF vote.order THEN order(turn, vote.alone, vote.suit) ELSE pass(turn)
    BY <1>3, Zenon DEF BotVotes
  <2>2. vote = botVote
    OBVIOUS
  <2>3. CASE vote.order
    <3>1. vote.suit \in Suit
      BY <2>2, <2>3, BotNamesSuit DEF botVote
    <3>2. order(turn, vote.alone, vote.suit)
      BY <2>1, <2>3
    <3>3. CardsInOrder'
      BY <3>1, <3>2, OrderInOrder
    <3>4. ~cascading' /\ pc' = botsNext'
      BY <3>2 DEF order, LoopsHaveWork
    <3> QED
      BY <3>3, <3>4, LoopsGoOn
  <2>4. CASE ~vote.order
    <3>1. pass(turn)
      BY <2>1, <2>4
    <3>2. ~cascading' /\ pc' = botsNext'
      BY <3>1 DEF pass, LoopsHaveWork
    <3> QED
      BY <3>1, <3>2, PassInOrder, LoopsGoOn
  <2> QED
    BY <2>3, <2>4
<1>4. CASE BotDiscards
  <2>1. PICK card : discard(turn, card)
    BY <1>4, Zenon DEF BotDiscards
  <2>2. ~cascading' /\ pc' = botsNext'
    BY <2>1 DEF discard, LoopsHaveWork
  <2> QED
    BY <2>1, <2>2, DiscardInOrder, LoopsGoOn
<1>5. CASE BotPlays
  <2>1. PICK card : play_card(turn, card)
    BY <1>5, Zenon DEF BotPlays
  <2> QED
    BY <2>1, PlayCardKeepsCardIInv
<1>6. CASE BotThrows
  <2>1. /\ UNCHANGED <<people, phase, dealer, turn, trump, top_card, hands, tricks,
                       sitting_out, table, cascading>>
        /\ pc' = "idle"
    BY <1>6 DEF BotThrows, contract
  <2> QED
    BY <2>1, CardsUntouched, LoopsGoOn DEF people, hands, table, LoopsHaveWork
<1> QED
  BY <1>1, <1>2, <1>3, <1>4, <1>5, <1>6 DEF Loop

\* A new room has no cards.
LEMMA InitCardIInv == Init => CardIInv
<1> SUFFICES ASSUME Init PROVE CardIInv
  OBVIOUS
<1>1. /\ phase = "LOBBY" /\ trump = HEARTS /\ top_card = NoCard
      /\ cards = [s \in Seat |-> <<>>] /\ premoves = [s \in Seat |-> <<>>]
      /\ trick = <<>> /\ played_cards = {} /\ ~cascading /\ pc = "idle"
  BY DEF Init
<1>2. CardTypeOK
  BY <1>1 DEF CardTypeOK, Suit, DIAMONDS, HEARTS
<1>3. LoopsHaveWork
  BY <1>1 DEF LoopsHaveWork
<1>4. TopCardIsTurnedUp /\ QueuesArePlayers /\ LeaderPlays /\ TrickSeats /\ HandSizes
  BY <1>1 DEF TopCardIsTurnedUp, QueuesArePlayers, LeaderPlays, TrickSeats, HandSizes, Voting
<1> QED
  BY <1>1, <1>2, <1>3, <1>4 DEF CardIInv, CardsInOrder, Waiting

\* Every step keeps the cards in order, as long as hands are laid down cleanly.
LEMMA NextKeepsCardIInv ==
  ASSUME IInv, IInv', CardIInv, [Next]_vars, [CleanLayDown]_vars
  PROVE  CardIInv'
<1>1. CASE Join
  <2>1. CardsInOrder' /\ ~cascading' /\ pc' = "idle"
    BY <1>1, JoinInOrder DEF Join, CardIInv, LoopsHaveWork
  <2> QED
    BY <2>1, LoopsGoOn DEF CardIInv
<1>2. CASE TurnMove
  BY <1>2, TurnMoveKeepsCardIInv DEF TurnMove
<1>3. CASE OtherRequest
  BY <1>3, OtherRequestKeepsCardIInv
<1>4. CASE Loop
  BY <1>4, LoopKeepsCardIInv
<1>5. CASE Reboot
  <2>1. /\ UNCHANGED <<people, phase, dealer, turn, trump, top_card, hands, tricks,
                       sitting_out, table>>
        /\ pc' = "idle" /\ ~cascading'
    BY <1>5 DEF Reboot, contract
  <2>2. CardsInOrder'
    BY <2>1, CardsUntouched DEF people, hands, table, CardIInv
  <2> QED
    BY <2>1, <2>2, LoopsGoOn DEF CardIInv
<1>6. CASE UNCHANGED vars
  <2>1. UNCHANGED <<people, phase, dealer, turn, trump, top_card, hands, tricks,
                    sitting_out, table, cascading, pc>>
    BY <1>6 DEF vars, contract
  <2>2. CardsInOrder'
    BY <2>1, CardsUntouched DEF people, hands, table, CardIInv
  <2>3. LoopsHaveWork'
    BY <2>1 DEF people, hands, CardIInv, LoopsHaveWork, IsBot, premoveAvailable, CardCount
  <2> QED
    BY <2>2, <2>3 DEF CardIInv
<1> QED
  BY <1>1, <1>2, <1>3, <1>4, <1>5, <1>6 DEF Next
-----------------------------------------------------------------------------
(* What holds of the cards *)

\* On a table where hands are laid down cleanly the cards are in order, for any
\* deals, any requests, any number of premoves, and whatever signal comes when.
THEOREM CardsStayInOrder == Spec /\ [][CleanLayDown]_vars => []CardIInv
<1>1. IInv /\ IInv' /\ CardIInv /\ [Next]_vars /\ [CleanLayDown]_vars => CardIInv'
  BY NextKeepsCardIInv
<1> QED
  BY <1>1, InitCardIInv, ControlIsInOrder, PTL DEF Spec

\* So does every room of a server that offers no lay_down.
THEOREM CardsStayInOrderWithoutLayDown ==
  ASSUME "lay_down" \notin Allowed
  PROVE  Spec => []CardIInv
<1>1. [Next]_vars => [CleanLayDown]_vars
  BY DEF CleanLayDown, LayDown
<1> QED
  BY <1>1, CardsStayInOrder, PTL DEF Spec

\* Hands, queues, the table and the record hold cards of their types (GameState).
THEOREM TypesOfTheRoom == Spec /\ [][CleanLayDown]_vars => []TypeOK
<1>1. IInv /\ CardIInv => TypeOK
  BY DEF IInv, CardIInv, CardsInOrder, CardTypeOK, TypeOK
<1> QED
  BY <1>1, CardsStayInOrder, ControlIsInOrder, PTL

\* The cards on the table are of consecutive seats from the leader on (play_card,
\* endTrick, advanceTurn), a sitter skipped and whatever premoves play in between.
THEOREM TricksGoRoundTheTable == Spec /\ [][CleanLayDown]_vars => []TrickSeats
<1>1. CardIInv => TrickSeats
  BY DEF CardIInv, CardsInOrder
<1> QED
  BY <1>1, CardsStayInOrder, PTL

\* Nobody is a card short or over at any point of any hand (dealCards, order, discard,
\* play_card, premove, undo_premove, cascadePremoves, endTrick).
THEOREM HandsHaveTheirSize == Spec /\ [][CleanLayDown]_vars => []HandSizes
<1>1. CardIInv => HandSizes
  BY DEF CardIInv, CardsInOrder
<1> QED
  BY <1>1, CardsStayInOrder, PTL

\* While cards are played, whoever is at turn has two of them at least.
LEMMA TurnHasTwoCards ==
  ASSUME IInv, CardIInv, phase = "PLAYING"
  PROVE  turn \in Seat \ sitting_out /\ CardCount(turn) \in Nat /\ CardCount(turn) > 1
<1>1. turn \in Seat \ sitting_out /\ ~HasPlayed(turn)
  BY TrickSoFar DEF CardIInv
<1>2. CardCount(turn) = CardsPerHand - Total(tricks)
  <2>1. CardCount(turn) + (IF HasPlayed(turn) THEN 1 ELSE 0)
          = CardsPerHand - IF turn \in sitting_out THEN 0 ELSE Total(tricks)
    BY <1>1, Zenon DEF CardIInv, CardsInOrder, HandSizes, HasPlayed
  <2>2. CardCount(turn) \in Nat
    BY <1>1, LenProperties DEF CardIInv, CardsInOrder, CardTypeOK, CardCount
  <2> QED
    BY <1>1, <2>1, <2>2
<1>3. Total(tricks) =< CardsPerHand - 2 /\ Total(tricks) \in Nat
  BY DEF IInv, TricksAreTallied, ControlTypeOK, Total
<1> QED
  BY <1>1, <1>2, <1>3, GameAssumption

\* play_card never refuses a turn for want of a card: the last trick, which nobody
\* may play, is not waited for (play_card, endTrick).
THEOREM TurnsCanBePlayed == Spec /\ [][CleanLayDown]_vars => []TurnCanPlay
<1>1. IInv /\ CardIInv => TurnCanPlay
  BY TurnHasTwoCards DEF TurnCanPlay
<1> QED
  BY <1>1, CardsStayInOrder, ControlIsInOrder, PTL

\* A bot is asked with the hand the asserts of Bot.cpp ask for.
LEMMA BotsAreAskedRightly ==
  ASSUME IInv, CardIInv
  PROVE  BotPreconditions
<1> SUFFICES ASSUME pc = "bots" PROVE
      /\ phase \in Voting => Len(cards[turn]) = CardsPerHand /\ top_card # NoCard
      /\ cards[turn] # <<>>
      /\ premoves[turn] = <<>>
  BY DEF BotPreconditions
<1>1. phase \notin Waiting /\ turn \in Seat /\ turn \notin Human
  BY DEF CardIInv, LoopsHaveWork, IInv, ControlTypeOK, IsBot, Human
<1>2. cards[turn] \in Seq(Card)
  BY <1>1 DEF CardIInv, CardsInOrder, CardTypeOK
<1>3. premoves[turn] = <<>>
  BY <1>1 DEF CardIInv, CardsInOrder, QueuesArePlayers
<1>4. CASE phase \in Voting
  <2>1. Len(cards[turn]) = CardsPerHand + IF phase = "DISCARDING" /\ turn = dealer
                                          THEN 1 ELSE 0
    BY <1>1, <1>4 DEF CardIInv, CardsInOrder, HandSizes
  <2>2. Len(cards[turn]) = CardsPerHand
    BY <1>4, <2>1, GameAssumption DEF Voting
  <2>3. top_card # NoCard
    BY <1>4 DEF CardIInv, CardsInOrder, TopCardIsTurnedUp, NoCard, Card, Suit, DIAMONDS, HEARTS
  <2> QED
    BY <1>3, <2>2, <2>3, GameAssumption
<1>5. CASE phase = "DISCARDING"
  <2>1. Len(cards[turn]) = CardsPerHand + IF phase = "DISCARDING" /\ turn = dealer
                                          THEN 1 ELSE 0
    BY <1>1, <1>5 DEF CardIInv, CardsInOrder, HandSizes
  <2> QED
    BY <1>3, <1>5, <2>1, GameAssumption DEF Voting
<1>6. CASE phase = "PLAYING"
  <2>1. CardCount(turn) = Len(cards[turn])
    BY <1>2, <1>3, LenProperties DEF CardCount
  <2> QED
    BY <1>3, <1>6, <2>1, TurnHasTwoCards DEF Voting
<1> QED
  BY <1>1, <1>4, <1>5, <1>6 DEF IInv, ControlTypeOK, Phase, Voting, Waiting

\* The asserts on the hand a bot decides with (Bot.cpp) never fire, whenever its loop
\* (handleBotUpdates) is entered.
THEOREM BotsAreAsked == Spec /\ [][CleanLayDown]_vars => []BotPreconditions
BY BotsAreAskedRightly, CardsStayInOrder, ControlIsInOrder, PTL
=============================================================================
