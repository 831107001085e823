----------------------------- MODULE TableProofs -----------------------------
(***************************************************************************)
(* What the steps of a room put on the table and into the record of a      *)
(* hand, proved from the invariants of CardProofs: cards that were held,   *)
(* and the premoves that can be played.                                    *)
(***************************************************************************)
EXTENDS CardProofs

(* What is played *)

\* The cards of the last trick were held by their seats, and none is a renege: there
\* is nothing left in the hand to follow suit with.
LEMMA LastTrickPlays ==
  ASSUME IInv, NEW leader \in Seat \ sitting_out, NEW won, NEW played,
         NEW own \in [Seat -> Seq(Card)], NEW queued \in [Seat -> Seq(Card)],
         \A s \in Seat \ sitting_out : Len(own[s]) + Len(queued[s]) = 1,
         lastTrick(leader, won, played, own, queued),
         NEW p \in played_cards' \ played
  PROVE  /\ p.id \in Seat \ sitting_out /\ ~p.illegal
         /\ p.card \in Range(own[p.id]) \cup Range(queued[p.id])
<1> DEFINE card(s)      == fetched(IF own[s] # <<>> THEN own[s] ELSE queued[s])
           plays(o)     == {o[i] : i \in 1 .. Active}
           rest(o, s)   == IF s \in plays(o) /\ own[s] # <<>> THEN Tail(own[s]) ELSE own[s]
           verdict(o, t, i) == Renege(t[i].card, rest(o, o[i]), SubSeq(t, 1, i - 1))
<1>1. PICK seats \in {TurnOrder(leader)} :
        \E stack \in {[i \in 1 .. Active |-> [card |-> card(seats[i]), id |-> seats[i]]]} :
          played_cards' = played \cup
               {[card |-> stack[i].card, id |-> seats[i],
                 illegal |-> verdict(seats, stack, i)] : i \in 1 .. Active}
  BY Zenon DEF lastTrick
<1>2. PICK stack \in {[i \in 1 .. Active |-> [card |-> card(seats[i]), id |-> seats[i]]]} :
        played_cards' = played \cup
             {[card |-> stack[i].card, id |-> seats[i],
               illegal |-> verdict(seats, stack, i)] : i \in 1 .. Active}
  BY <1>1
<1>3. PICK i \in 1 .. Active :
        p = [card |-> stack[i].card, id |-> seats[i], illegal |-> verdict(seats, stack, i)]
  <2> HIDE DEF verdict
  <2> QED
    BY <1>2
<1>4. seats[i] \in Seat \ sitting_out
  <2>1. sitting_out \subseteq {Partner(caller)} /\ Partner(caller) \in Seat
    BY SeatsStay DEF IInv, ControlTypeOK, SitterIsCallersPartner
  <2>2. seats = TurnOrder(leader)
    OBVIOUS
  <2>3. \A k \in 1 .. Active : TurnOrder(leader)[k] \in Seat \ sitting_out
    BY <2>1, TurnOrderGoesRound
  <2> QED
    BY <2>2, <2>3
<1>5. stack[i].card = card(seats[i])
  <2> HIDE DEF card
  <2>1. stack = [k \in 1 .. Active |-> [card |-> card(seats[k]), id |-> seats[k]]]
    OBVIOUS
  <2> QED
    BY <2>1
<1>6. LET s == seats[i]
      IN  /\ own[s] # <<>> => Tail(own[s]) = <<>>
          /\ card(s) \in Range(own[s]) \cup Range(queued[s])
  <2>1. /\ own[seats[i]] \in Seq(Card) /\ queued[seats[i]] \in Seq(Card)
        /\ Len(own[seats[i]]) + Len(queued[seats[i]]) = 1
    BY <1>4
  <2> QED
    BY <2>1, OneCardLeft
<1>7. rest(seats, seats[i]) = <<>>
  <2>1. seats[i] \in plays(seats)
    OBVIOUS
  <2> HIDE DEF plays
  <2> QED
    BY <1>6, <2>1
<1>8. ~verdict(seats, stack, i)
  <2> HIDE DEF rest
  <2>1. verdict(seats, stack, i) = Renege(stack[i].card, <<>>, SubSeq(stack, 1, i - 1))
    BY <1>7
  <2>2. DOMAIN <<>> = {}
    OBVIOUS
  <2> HIDE DEF verdict
  <2>3. ~Renege(stack[i].card, <<>>, SubSeq(stack, 1, i - 1))
    BY <2>2, Zenon DEF Renege
  <2> QED
    BY <2>1, <2>3
<1> HIDE DEF verdict, card
<1>9. p.id = seats[i] /\ p.card = stack[i].card /\ p.illegal = verdict(seats, stack, i)
  BY <1>3
<1> QED
  BY <1>4, <1>5, <1>6, <1>8, <1>9

\* Playing a card records it with the server's verdict, and the last trick with it
\* if the trick before is full.
LEMMA WhatIsPlayed ==
  ASSUME IInv, CardsInOrder, phase = "PLAYING",
         NEW card, NEW own, NEW queued, Taken(card, own, queued),
         playTop(card, own, queued),
         NEW p \in played_cards' \ played_cards
  PROVE  \/ p = [card |-> card, id |-> turn, illegal |-> Renege(card, own[turn], trick)]
         \/ /\ p.id \in Seat \ sitting_out /\ ~p.illegal
            /\ p.card \in Range(own[p.id]) \cup Range(queued[p.id])
<1>1. PICK leader \in {IF trick = <<>> THEN turn ELSE trick_leader},
           stack \in {Append(trick, [card |-> card, id |-> turn])},
           played \in {played_cards \cup {[card |-> card, id |-> turn,
                                           illegal |-> Renege(card, own[turn], trick)]}} :
        \/ /\ Len(stack) # Active
           /\ played_cards' = played
        \/ /\ Len(stack) = Active
           /\ endTrick(stack, leader, played, own, queued)
  BY Zenon DEF playTop
<1>2. played = played_cards \cup {[card |-> card, id |-> turn,
                                   illegal |-> Renege(card, own[turn], trick)]}
  OBVIOUS
<1>3. CASE p \in played
  BY <1>2, <1>3
<1>4. CASE p \notin played /\ Len(stack) = Active /\ endTrick(stack, leader, played, own, queued)
  <2>1. PICK i \in 1 .. Active :
          \E winner \in {TurnOrder(leader)[i]} :
            \E won \in {[tricks EXCEPT ![winner] = @ + 1]} :
              \/ played_cards' = played
              \/ /\ lastTrickDue(won)
                 /\ lastTrick(winner, won, played, own, queued)
    BY <1>4, Zenon DEF endTrick
  <2>2. PICK winner \in {TurnOrder(leader)[i]} :
          \E won \in {[tricks EXCEPT ![winner] = @ + 1]} :
            /\ lastTrickDue(won)
            /\ lastTrick(winner, won, played, own, queued)
    BY <1>4, <2>1
  <2>3. PICK won \in {[tricks EXCEPT ![winner] = @ + 1]} :
          /\ lastTrickDue(won)
          /\ lastTrick(winner, won, played, own, queued)
    BY <2>2
  <2>4. /\ sitting_out \subseteq {Partner(caller)} /\ Partner(caller) \in Seat
        /\ turn \in Seat /\ tricks \in [Seat -> Nat]
    BY SeatsStay DEF IInv, ControlTypeOK, SitterIsCallersPartner
  <2>5. leader \in Seat \ sitting_out /\ Len(trick) + 1 = Active
    <3>1. leader = IF trick = <<>> THEN turn ELSE trick_leader
      OBVIOUS
    <3>2. Len(stack) = Len(trick) + 1
      <4>1. stack = Append(trick, [card |-> card, id |-> turn])
        OBVIOUS
      <4>2. trick \in Seq(Play) /\ [card |-> card, id |-> turn] \in Play
        BY <2>4 DEF CardsInOrder, CardTypeOK, Taken, Play
      <4> QED
        BY <4>1, <4>2, AppendProperties
    <3> QED
      BY <1>4, <3>1, <3>2, TrickSoFar
  <2>6. winner \in Seat \ sitting_out
    <3>1. \A k \in 1 .. Active : TurnOrder(leader)[k] \in Seat \ sitting_out
      BY <2>4, <2>5, TurnOrderGoesRound
    <3>2. winner = TurnOrder(leader)[i]
      OBVIOUS
    <3> QED
      BY <3>1, <3>2
  <2>7. Total(won) = Total(tricks) + 1 /\ Total(tricks) \in Nat
    <3>1. won = [tricks EXCEPT ![winner] = @ + 1]
      OBVIOUS
    <3> QED
      BY <2>4, <2>6, <3>1, TallyGrows
  <2>8. \A s \in Seat \ sitting_out : Len(own[s]) + Len(queued[s]) = 1
    <3>1. \A s \in Seat \ sitting_out :
            Len(own[s]) + Len(queued[s]) = CardsPerHand - (Total(tricks) + 1)
      <4>1. \A s \in Seat :
              /\ Len(own[s]) + Len(queued[s]) =
                   CardsPerHand - IF s \in sitting_out THEN 0 ELSE Total(tricks) + 1
              /\ s \in sitting_out => queued[s] = <<>>
        BY <2>5, FullTrickSizes
      <4> QED
        BY <4>1
    <3>2. CardsPerHand - (Total(tricks) + 1) = 1
      BY <2>3, <2>7, GameAssumption DEF lastTrickDue
    <3> QED
      BY <3>1, <3>2
  <2>9. own \in [Seat -> Seq(Card)] /\ queued \in [Seat -> Seq(Card)]
    BY DEF Taken
  <2>10. p \in played_cards' \ played
    BY <1>4
  <2> QED
    BY <2>3, <2>6, <2>8, <2>9, <2>10, LastTrickPlays
<1>5. \/ p \in played
      \/ Len(stack) = Active /\ endTrick(stack, leader, played, own, queued)
  BY <1>1
<1> QED
  BY <1>3, <1>4, <1>5

\* play_card, outside cascadePremoves, plays a card that is held and at whose seat
\* the turn is.
LEMMA PlayCardTakes ==
  ASSUME IInv, CardIInv, NEW s, NEW card, play_card(s, card)
  PROVE  LET own == [cards EXCEPT ![turn] = erase(@, card)]
         IN  /\ phase = "PLAYING" /\ turn = s
             /\ Taken(card, own, premoves) /\ playTop(card, own, premoves)
             /\ own[turn] = erase(cards[turn], card)
             /\ pc' = cascadeNext'
<1>1. phase = "PLAYING" /\ turn_token = s /\ Holds(cards[turn], card) /\ pc' = cascadeNext'
  BY DEF play_card, CardIInv, LoopsHaveWork
<1>2. turn = s /\ turn \in Seat /\ cards \in [Seat -> Seq(Card)]
  BY <1>1 DEF IInv, TurnHoldsToken, SeatsAreFilled, ControlTypeOK, CardIInv, CardsInOrder,
              CardTypeOK
<1>3. PICK own \in {IF cascading THEN cards
                    ELSE [cards EXCEPT ![turn] = erase(@, card)]} :
        playTop(card, own, premoves)
  BY Zenon DEF play_card
<1>4. own = [cards EXCEPT ![turn] = erase(@, card)]
  BY DEF CardIInv, LoopsHaveWork
<1>5. Taken(card, own, premoves)
  BY <1>1, <1>2, <1>4, TakenFromHand DEF CardIInv
<1>6. own[turn] = erase(cards[turn], card)
  BY <1>2, <1>4
<1> QED
  BY <1>1, <1>2, <1>3, <1>4, <1>5, <1>6

\* cascadePremoves plays a card that was queued.
LEMMA CascadeTakes ==
  ASSUME IInv, CardIInv, CascadeStep
  PROVE  LET card   == fetched(premoves[turn])
             queued == [premoves EXCEPT ![turn] = Tail(@)]
         IN  /\ phase = "PLAYING" /\ turn \in Human
             /\ Taken(card, cards, queued) /\ playTop(card, cards, queued)
             /\ pc' = cascadeNext'
<1>1. pc = "cascade" /\ phase = "PLAYING" /\ pc' = cascadeNext'
  BY DEF CascadeStep
<1>2. premoves[turn] # <<>> /\ turn \in Seat
  BY <1>1 DEF CardIInv, LoopsHaveWork, premoveAvailable, IInv, ControlTypeOK
<1>3. turn \in Human
  BY <1>2 DEF CardIInv, CardsInOrder, QueuesArePlayers
<1>4. PICK card \in {fetched(premoves[turn])},
           queued \in {[premoves EXCEPT ![turn] = Tail(@)]} :
        playTop(card, cards, queued)
  BY Zenon DEF CascadeStep
<1>5. card = fetched(premoves[turn]) /\ queued = [premoves EXCEPT ![turn] = Tail(@)]
  OBVIOUS
<1>6. Taken(card, cards, queued)
  BY <1>1, <1>2, <1>5, TakenFromQueue DEF CardIInv
<1> QED
  BY <1>1, <1>3, <1>4, <1>5, <1>6

\* A step that adds to the record plays a card: one a person has asked for, one of
\* a person's premoves, or one a bot has chosen.
LEMMA RecordsComeFromPlay ==
  ASSUME IInv, CardIInv, [Next]_vars, NEW p \in played_cards' \ played_cards
  PROVE  /\ phase = "PLAYING"
         /\ \E card, own, queued :
              /\ Taken(card, own, queued) /\ playTop(card, own, queued)
              /\ \/ turn \in Human
                 \/ /\ card \in botPlay(turn, cards[turn], trick, trump)
                    /\ own[turn] = erase(cards[turn], card)
<1>1. CASE TurnMove
  <2>1. PICK s \in Human : Order(s) \/ Pass(s) \/ Discard(s) \/ PlayCard(s)
    BY <1>1 DEF TurnMove
  <2>2. PlayCard(s)
    <3>1. ASSUME NEW alone, NEW suit, order(s, alone, suit)
          PROVE  played_cards' \subseteq played_cards
      BY <3>1 DEF order, startPlay
    <3>2. Order(s) => \E alone, suit : order(s, alone, suit)
      BY Zenon DEF Order
    <3>3. ~Order(s)
      BY <3>1, <3>2
    <3>4. ~Pass(s)
      BY DEF Pass, pass, table
    <3>5. ~Discard(s)
      BY DEF Discard, discard, startPlay
    <3> QED
      BY <2>1, <3>3, <3>4, <3>5
  <2>3. PICK card : play_card(s, card)
    BY <2>2, Zenon DEF PlayCard
  <2> QED
    BY <2>3, PlayCardTakes
<1>2. CASE Loop
  <2>1. CASE CascadeStep
    BY <2>1, CascadeTakes
  <2>2. CASE BotPlays
    <3>1. PICK card \in botPlay(turn, cards[turn], trick, trump) : play_card(turn, card)
      BY <2>2, Zenon DEF BotPlays
    <3> QED
      BY <3>1, PlayCardTakes
  <2>3. CASE BotVotes
    <3>1. \/ \E alone, suit : order(turn, alone, suit)
          \/ pass(turn)
      BY <2>3, Zenon DEF BotVotes
    <3>2. ASSUME NEW alone, NEW suit, order(turn, alone, suit)
          PROVE  played_cards' \subseteq played_cards
      BY <3>2 DEF order, startPlay
    <3> QED
      BY <3>1, <3>2 DEF pass, table
  <2>4. CASE BotDiscards
    <3>1. PICK card : discard(turn, card)
      BY <2>4, Zenon DEF BotDiscards
    <3> QED
      BY <3>1 DEF discard, startPlay
  <2>5. CASE CascadeThrows \/ BotThrows
    BY <2>5 DEF CascadeThrows, BotThrows, table
  <2> QED
    BY <1>2, <2>1, <2>2, <2>3, <2>4, <2>5 DEF Loop
<1>3. CASE OtherRequest
  <2>1. CASE Restart \/ Chat
    BY <2>1 DEF Restart, restart, Chat, table
  <2>2. ASSUME NEW s \in Human, Premove(s) \/ UndoPremove(s) \/ LayDown(s)
        PROVE  played_cards' = played_cards
    <3>1. \/ \E card : premove(s, card)
          \/ undo_premove(s)
          \/ lay_down(s)
      BY <2>2, Zenon DEF Premove, UndoPremove, LayDown
    <3> QED
      BY <3>1 DEF premove, undo_premove, lay_down, table
  <2> QED
    BY <1>3, <2>1, <2>2 DEF OtherRequest
<1>4. CASE Join \/ Reboot \/ UNCHANGED vars
  BY <1>4 DEF Join, Reboot, vars, table
<1> QED
  BY <1>1, <1>2, <1>3, <1>4 DEF Next

\* Whoever plays a card had it in the hand or among its premoves: the server's own
\* plays of premoves and of the last trick included (play_card, cascadePremoves,
\* endTrick).
THEOREM CardsPlayedWereHeld == Spec /\ [][CleanLayDown]_vars => CardsAreHeld
<1>1. ASSUME IInv, CardIInv, [Next]_vars, NEW p \in played_cards' \ played_cards
      PROVE  \/ p.card \in InHand(p.id)
             \/ \E i \in DOMAIN premoves[p.id] : premoves[p.id][i] = p.card
  <2>1. phase = "PLAYING" /\ turn \in Seat
    BY <1>1, RecordsComeFromPlay DEF IInv, ControlTypeOK
  <2>2. PICK card, own, queued : Taken(card, own, queued) /\ playTop(card, own, queued)
    BY <1>1, RecordsComeFromPlay
  <2>3. \A s \in Seat : /\ Range(own[s]) \subseteq Range(cards[s])
                        /\ Range(queued[s]) \subseteq Range(premoves[s])
    BY <2>2 DEF Taken
  <2>4. \/ p = [card |-> card, id |-> turn, illegal |-> Renege(card, own[turn], trick)]
        \/ /\ p.id \in Seat \ sitting_out /\ ~p.illegal
           /\ p.card \in Range(own[p.id]) \cup Range(queued[p.id])
    BY <1>1, <2>1, <2>2, WhatIsPlayed DEF CardIInv
  <2>5. p.card \in Range(cards[p.id]) \cup Range(premoves[p.id])
    <3>1. CASE p = [card |-> card, id |-> turn, illegal |-> Renege(card, own[turn], trick)]
      <4>1. p.card = card /\ p.id = turn
        BY <3>1
      <4> QED
        BY <2>2, <4>1 DEF Taken
    <3> QED
      BY <2>3, <2>4, <3>1
  <2> QED
    BY <2>5 DEF Range, InHand
<1>2. IInv /\ CardIInv /\ [Next]_vars =>
        [\A p \in played_cards' \ played_cards :
           \/ p.card \in InHand(p.id)
           \/ \E i \in DOMAIN premoves[p.id] : premoves[p.id][i] = p.card]_vars
  BY <1>1
<1> QED
  BY <1>2, CardsStayInOrder, ControlIsInOrder, PTL DEF Spec, CardsAreHeld
-----------------------------------------------------------------------------
(* Premoves are played *)

\* No premove that can be played waits unless the loop that plays it runs.
QueuesPlayOut == phase = "PLAYING" /\ pc # "cascade" => ~premoveAvailable(turn)

\* Outside play nobody has a premove, so a step from there leaves none to be played.
LEMMA QueuesEmptyOutsidePlay ==
  ASSUME IInv', CardIInv, phase # "PLAYING", premoves' = premoves
  PROVE  QueuesPlayOut'
<1>1. turn' \in Seat
  BY DEF IInv, ControlTypeOK
<1>2. premoves'[turn'] = <<>>
  BY <1>1, NoQueueOutsidePlay DEF CardIInv
<1> QED
  BY <1>2 DEF QueuesPlayOut, premoveAvailable

\* A step that moves neither cards nor the turn leaves nothing new to be played.
LEMMA QueuesUntouched ==
  ASSUME QueuesPlayOut, pc # "cascade", UNCHANGED <<phase, turn, hands>>
  PROVE  QueuesPlayOut'
BY DEF QueuesPlayOut, premoveAvailable, CardCount, hands

\* A step that enters the cascade whenever it can leaves no seat waiting.
LEMMA PlayKeepsQueuesPlayOut ==
  ASSUME pc' = cascadeNext'
  PROVE  QueuesPlayOut'
BY DEF cascadeNext, QueuesPlayOut

\* Only who is not at turn queues a card, and taking premoves back leaves none.
LEMMA PremovingKeepsQueuesPlayOut ==
  ASSUME IInv, CardIInv, QueuesPlayOut, pc = "idle",
         NEW s \in Human, (\E card : premove(s, card)) \/ undo_premove(s)
  PROVE  QueuesPlayOut'
<1>1. turn \in Seat /\ s \in Seat /\ cards \in [Seat -> Seq(Card)] /\ premoves \in [Seat -> Seq(Card)]
  BY DEF IInv, ControlTypeOK, CardIInv, CardsInOrder, CardTypeOK, Human
<1>2. ASSUME NEW card, premove(s, card)
      PROVE  QueuesPlayOut'
  <2>1. /\ s # turn /\ UNCHANGED <<phase, turn>>
        /\ cards' = [cards EXCEPT ![s] = erase(@, card)]
        /\ premoves' = [premoves EXCEPT ![s] = Append(@, card)]
    BY <1>2 DEF premove, IInv, TurnHoldsToken, SeatsAreFilled
  <2>2. cards'[turn] = cards[turn] /\ premoves'[turn] = premoves[turn]
    BY <1>1, <2>1
  <2> QED
    BY <2>1, <2>2 DEF QueuesPlayOut, premoveAvailable, CardCount
<1>3. CASE undo_premove(s)
  <2>1. /\ UNCHANGED <<phase, turn>>
        /\ cards' = [cards EXCEPT ![s] = cards[s] \o premoves[s]]
        /\ premoves' = [premoves EXCEPT ![s] = <<>>]
    BY <1>3 DEF undo_premove
  <2>2. CASE s = turn
    <3>1. premoves'[turn] = <<>>
      BY <1>1, <2>1, <2>2
    <3> QED
      BY <2>1, <3>1 DEF QueuesPlayOut, premoveAvailable
  <2>3. CASE s # turn
    <3>1. cards'[turn] = cards[turn] /\ premoves'[turn] = premoves[turn]
      BY <1>1, <2>1, <2>3
    <3> QED
      BY <2>1, <3>1 DEF QueuesPlayOut, premoveAvailable, CardCount
  <2> QED
    BY <2>2, <2>3
<1> QED
  BY <1>2, <1>3

\* No step but a shutdown inside a cascade leaves a seat waiting with a premove to play.
LEMMA NextKeepsQueuesPlayOut ==
  ASSUME IInv, IInv', CardIInv, QueuesPlayOut, [Next]_vars, [UncutCascade]_vars
  PROVE  QueuesPlayOut'
<1>1. CASE TurnMove
  <2>1. PICK s \in Human : Order(s) \/ Pass(s) \/ Discard(s) \/ PlayCard(s)
    BY <1>1 DEF TurnMove
  <2>2. \/ \E alone, suit : order(s, alone, suit)
        \/ pass(s)
        \/ \E card : discard(s, card)
        \/ \E card : play_card(s, card)
    BY <2>1, Zenon DEF Order, Pass, Discard, PlayCard
  <2>3. CASE \E card : play_card(s, card)
    BY <2>3, PlayCardTakes, PlayKeepsQueuesPlayOut
  <2>4. CASE \/ \E alone, suit : order(s, alone, suit)
             \/ pass(s)
             \/ \E card : discard(s, card)
    BY <2>4, QueuesEmptyOutsidePlay DEF order, pass, discard, hands, Voting
  <2> QED
    BY <2>2, <2>3, <2>4
<1>2. CASE OtherRequest
  <2>1. CASE Restart
    BY <2>1, QueuesEmptyOutsidePlay DEF Restart, restart, Waiting
  <2>2. CASE Chat
    BY <2>2, QueuesUntouched DEF Chat
  <2>3. ASSUME NEW s \in Human, Premove(s) \/ UndoPremove(s)
        PROVE  QueuesPlayOut'
    <3>1. pc = "idle" /\ ((\E card : premove(s, card)) \/ undo_premove(s))
      BY <2>3, Zenon DEF Premove, UndoPremove
    <3> QED
      BY <3>1, PremovingKeepsQueuesPlayOut
  <2>4. ASSUME NEW s \in Human, LayDown(s)
        PROVE  QueuesPlayOut'
    BY <2>4 DEF LayDown, lay_down, settle, nextHand, QueuesPlayOut
  <2> QED
    BY <1>2, <2>1, <2>2, <2>3, <2>4 DEF OtherRequest
<1>3. CASE Loop
  <2>1. CASE CascadeStep
    BY <2>1, CascadeTakes, PlayKeepsQueuesPlayOut
  <2>2. CASE CascadeThrows
    BY <2>2 DEF CascadeThrows, QueuesPlayOut
  <2>3. CASE BotVotes
    <3>1. \/ \E alone, suit : order(turn, alone, suit)
          \/ pass(turn)
      BY <2>3, Zenon DEF BotVotes
    <3> QED
      BY <3>1, QueuesEmptyOutsidePlay DEF order, pass, hands, Voting
  <2>4. CASE BotDiscards
    <3>1. \E card : discard(turn, card)
      BY <2>4, Zenon DEF BotDiscards
    <3> QED
      BY <3>1, QueuesEmptyOutsidePlay DEF discard
  <2>5. CASE BotPlays
    <3>1. PICK card : play_card(turn, card)
      BY <2>5, Zenon DEF BotPlays
    <3> QED
      BY <3>1, PlayCardTakes, PlayKeepsQueuesPlayOut
  <2>6. CASE BotThrows
    BY <2>6, QueuesUntouched DEF BotThrows
  <2> QED
    BY <1>3, <2>1, <2>2, <2>3, <2>4, <2>5, <2>6 DEF Loop
<1>4. CASE Join
  BY <1>4, QueuesEmptyOutsidePlay DEF Join, IInv, SeatsAreFilled, hands
<1>5. CASE Reboot
  <2>1. CASE UncutCascade
    BY <1>5, <2>1, QueuesUntouched DEF Reboot, UncutCascade
  <2>2. CASE UNCHANGED vars
    BY <1>5, <2>2 DEF Reboot, vars, hands, QueuesPlayOut, premoveAvailable, CardCount
  <2> QED
    BY <2>1, <2>2
<1>6. CASE UNCHANGED vars
  BY <1>6 DEF vars, hands, QueuesPlayOut, premoveAvailable, CardCount
<1> QED
  BY <1>1, <1>2, <1>3, <1>4, <1>5, <1>6 DEF Next

\* No request leaves a premove that can be played in the queue of whoever is at
\* turn, however many are queued: not a play, an undo, or a decision of a bot
\* (play_card, cascadePremoves, handleBotUpdates).
THEOREM PremovesArePlayed ==
  Spec /\ [][CleanLayDown]_vars /\ [][UncutCascade]_vars => []PremovesPlayOut
<1>1. Init => QueuesPlayOut
  BY DEF Init, QueuesPlayOut
<1>2. IInv /\ IInv' /\ CardIInv /\ QueuesPlayOut /\ [Next]_vars /\ [UncutCascade]_vars
        => QueuesPlayOut'
  BY NextKeepsQueuesPlayOut
<1>3. QueuesPlayOut => PremovesPlayOut
  BY DEF QueuesPlayOut, PremovesPlayOut
<1> QED
  BY <1>1, <1>2, <1>3, CardsStayInOrder, ControlIsInOrder, PTL DEF Spec
-----------------------------------------------------------------------------
(* The record of a hand *)

\* A hand without a card twice has as many cards as it is long.
LEMMA CardsOfHand ==
  ASSUME NEW hand \in Seq(Card), NoneTwice(hand, <<>>)
  PROVE  IsFiniteSet(Range(hand)) /\ Cardinality(Range(hand)) = Len(hand)
<1>1. Len(hand) \in Nat /\ DOMAIN hand = 1 .. Len(hand)
  BY LenProperties
<1>2. hand \in Bijection(1 .. Len(hand), Range(hand))
  BY <1>1 DEF Bijection, Injection, Surjection, IsInjective, Range, NoneTwice
<1>3. Cardinality(Range(hand)) = Len(hand)
  BY <1>1, <1>2, FS_CountingElements DEF ExistsBijection
<1>4. IsFiniteSet(1 .. Len(hand))
  BY <1>1, FS_Interval
<1>5. IsFiniteSet(Range(hand))
  BY <1>2, <1>4, FS_Surjection DEF Bijection
<1> QED
  BY <1>3, <1>5

\* Two hands without a common card have as many cards as both together.
LEMMA DisjointUnion ==
  ASSUME NEW S, NEW T, IsFiniteSet(S), IsFiniteSet(T), S \cap T = {}
  PROVE  IsFiniteSet(S \cup T) /\ Cardinality(S \cup T) = Cardinality(S) + Cardinality(T)
<1>1. /\ IsFiniteSet(S \cup T)
      /\ Cardinality(S \cup T) = Cardinality(S) + Cardinality(T) - Cardinality(S \cap T)
  BY FS_Union
<1>2. Cardinality(S) \in Nat /\ Cardinality(T) \in Nat /\ Cardinality(S \cap T) = 0
  BY FS_CardinalityType, FS_EmptySet
<1> QED
  BY <1>1, <1>2

\* Four hands of n cards, none of them twice.
LEMMA FourHands ==
  ASSUME NEW n \in Nat, NEW A, NEW B, NEW C, NEW D,
         IsFiniteSet(A), IsFiniteSet(B), IsFiniteSet(C), IsFiniteSet(D),
         Cardinality(A) = n, Cardinality(B) = n, Cardinality(C) = n, Cardinality(D) = n,
         A \cap B = {}, A \cap C = {}, A \cap D = {},
         B \cap C = {}, B \cap D = {}, C \cap D = {}
  PROVE  Cardinality((A \cup B) \cup (C \cup D)) = 4 * n
<1>1. /\ IsFiniteSet(A \cup B) /\ Cardinality(A \cup B) = Cardinality(A) + Cardinality(B)
      /\ IsFiniteSet(C \cup D) /\ Cardinality(C \cup D) = Cardinality(C) + Cardinality(D)
  BY DisjointUnion, Zenon
<1>2. (A \cup B) \cap (C \cup D) = {}
  OBVIOUS
<1>3. Cardinality((A \cup B) \cup (C \cup D)) = Cardinality(A \cup B) + Cardinality(C \cup D)
  BY <1>1, <1>2, DisjointUnion, Zenon
<1> QED
  BY <1>1, <1>3

\* The seats one by one.
LEMMA FourSeats == \A s : s \in Seat <=> s = 0 \/ s = 1 \/ s = 2 \/ s = 3
BY DEF Seat

\* What a seat holds is its hand and its queue.
LEMMA HeldAsRange ==
  /\ \A s : Held(s) = Range(cards[s]) \cup Range(premoves[s])
  /\ \A s : Held(s)' = Range(cards'[s]) \cup Range(premoves'[s])
BY DEF Held, InHand, Range

\* Play starts with four hands of different cards and nothing recorded.
LEMMA PlayStartsRecord ==
  ASSUME phase' = "PLAYING", played_cards' = {}, trick' = <<>>, Total(tricks)' = 0,
         cards' \in [Seat -> Seq(Card)], Active' \in Nat,
         \A s \in Seat : /\ premoves'[s] = <<>>
                         /\ Len(cards'[s]) = CardsPerHand
                         /\ NoneTwice(cards'[s], <<>>),
         \A s, t \in Seat : s # t => Range(cards'[s]) \cap Range(cards'[t]) = {}
  PROVE  RecordIInv'
<1> DEFINE of(s) == Range(cards'[s])
<1>1. Range(<<>>) = {}
  BY DEF Range
<1>2. \A s \in Seat : Held(s)' = of(s)
  BY <1>1, HeldAsRange
<1>3. HandsApart'
  BY <1>2 DEF HandsApart
<1>4. IsFiniteSet({}) /\ Cardinality({}) = 0
  BY FS_EmptySet
<1>5. PlayedOnce'
  BY <1>4 DEF PlayedOnce
<1>6. RecordMatchesTable'
  <2>1. Cardinality(played_cards') = Active' * Total(tricks)' + Len(trick')
    BY <1>4
  <2>2. DOMAIN trick' = {}
    OBVIOUS
  <2> QED
    BY <2>1, <2>2 DEF RecordMatchesTable
<1>7. AllCards' = (of(0) \cup of(1)) \cup (of(2) \cup of(3))
  <2>1. AllCards' = (UNION {Held(s)' : s \in Seat}) \cup {p.card : p \in played_cards'}
    BY DEF AllCards
  <2>2. {p.card : p \in played_cards'} = {}
    OBVIOUS
  <2>3. UNION {Held(s)' : s \in Seat} = UNION {of(s) : s \in Seat}
    BY <1>2
  <2>4. UNION {of(s) : s \in Seat} = (of(0) \cup of(1)) \cup (of(2) \cup of(3))
    <3> HIDE DEF of
    <3>1. \A x : (\E s \in Seat : x \in of(s)) <=>
                  x \in of(0) \/ x \in of(1) \/ x \in of(2) \/ x \in of(3)
      BY FourSeats, Zenon
    <3>2. \A x : x \in UNION {of(s) : s \in Seat} <=> \E s \in Seat : x \in of(s)
      OBVIOUS
    <3> QED
      BY <3>1, <3>2
  <2> QED
    BY <2>1, <2>2, <2>3, <2>4
<1>8. \A s \in Seat : IsFiniteSet(of(s)) /\ Cardinality(of(s)) = CardsPerHand
  BY CardsOfHand
<1>9. Cardinality((of(0) \cup of(1)) \cup (of(2) \cup of(3))) = 4 * CardsPerHand
  <2>1. \A s, t \in Seat : s # t => of(s) \cap of(t) = {}
    OBVIOUS
  <2> HIDE DEF of
  <2>2. /\ of(0) \cap of(1) = {} /\ of(0) \cap of(2) = {} /\ of(0) \cap of(3) = {}
        /\ of(1) \cap of(2) = {} /\ of(1) \cap of(3) = {} /\ of(2) \cap of(3) = {}
    BY <2>1, FourSeats
  <2>3. /\ IsFiniteSet(of(0)) /\ IsFiniteSet(of(1)) /\ IsFiniteSet(of(2)) /\ IsFiniteSet(of(3))
        /\ Cardinality(of(0)) = CardsPerHand /\ Cardinality(of(1)) = CardsPerHand
        /\ Cardinality(of(2)) = CardsPerHand /\ Cardinality(of(3)) = CardsPerHand
    BY <1>8, FourSeats
  <2>4. CardsPerHand \in Nat
    BY GameAssumption
  <2> QED
    BY <2>2, <2>3, <2>4, FourHands
<1> HIDE DEF of
<1>10. CardsInOnePlace'
  <2>1. \A s \in Seat : CardCount(s)' = CardsPerHand
    <3>1. Len(<<>>) = 0 /\ CardsPerHand + 0 = CardsPerHand
      BY GameAssumption
    <3> QED
      BY <3>1 DEF CardCount
  <2>2. Cardinality(played_cards') = 0
    BY <1>4
  <2>3. CardCount(0)' + CardCount(1)' + CardCount(2)' + CardCount(3)'
          + Cardinality(played_cards') = 4 * CardsPerHand
    <3>1. /\ CardCount(0)' = CardsPerHand /\ CardCount(1)' = CardsPerHand
          /\ CardCount(2)' = CardsPerHand /\ CardCount(3)' = CardsPerHand
      BY <2>1, FourSeats
    <3>2. CardsPerHand \in Nat
      BY GameAssumption
    <3> HIDE DEF CardCount
    <3> QED
      BY <2>2, <3>1, <3>2
  <2> QED
    BY <1>7, <1>9, <2>3 DEF CardsInOnePlace
<1> QED
  BY <1>3, <1>5, <1>6, <1>10 DEF RecordIInv

\* Outside play there is no record to keep.
LEMMA OutsidePlayRecord ==
  ASSUME phase' # "PLAYING", HandsApart'
  PROVE  RecordIInv'
BY DEF RecordIInv, PlayedOnce, RecordMatchesTable, CardsInOnePlace

\* dealCards gives four hands of different cards.
LEMMA DealtRecord ==
  ASSUME dealCards, CardsInOrder', phase' # "PLAYING"
  PROVE  RecordIInv'
<1>1. \A s \in Seat : premoves'[s] = <<>>
  BY DEF CardsInOrder, QueuesArePlayers
<1>2. Range(<<>>) = {}
  BY DEF Range
<1>3. \A s \in Seat : Held(s)' = Range(cards'[s])
  BY <1>1, <1>2, HeldAsRange
<1>4. \A s, t \in Seat : s # t => Range(cards'[s]) \cap Range(cards'[t]) = {}
  BY HandsAreDealt
<1> QED
  BY <1>3, <1>4, OutsidePlayRecord DEF HandsApart

\* After the end of a hand there is no record, and the next hand is dealt apart.
LEMMA SettledRecord ==
  ASSUME NEW team, NEW points, NEW last, NEW token, NEW left,
         settle(team, points, last, token, left), CardsInOrder'
  PROVE  RecordIInv'
<1>1. CASE phase' = "ENDED"
  BY <1>1, OutsidePlayRecord DEF HandsApart, Waiting
<1>2. CASE nextHand
  BY <1>2, DealtRecord DEF nextHand
<1> QED
  BY <1>1, <1>2 DEF settle

\* Cards may change places between a hand and its queue.
LEMMA SameRecord ==
  ASSUME RecordIInv,
         \A s \in Seat : Held(s)' = Held(s) /\ CardCount(s)' = CardCount(s),
         UNCHANGED <<phase, tricks, sitting_out, trick, played_cards>>
  PROVE  RecordIInv'
<1>1. HandsApart'
  BY DEF RecordIInv, HandsApart
<1>2. PlayedOnce'
  BY DEF RecordIInv, PlayedOnce
<1>3. RecordMatchesTable'
  BY DEF RecordIInv, RecordMatchesTable, Active, Total
<1>4. CardsInOnePlace'
  <2>1. AllCards' = AllCards
    <3>1. UNION {Held(s)' : s \in Seat} = UNION {Held(s) : s \in Seat}
      BY Zenon
    <3>2. /\ AllCards' = (UNION {Held(s)' : s \in Seat}) \cup {p.card : p \in played_cards'}
          /\ AllCards = (UNION {Held(s) : s \in Seat}) \cup {p.card : p \in played_cards}
      BY DEF AllCards
    <3> QED
      BY <3>1, <3>2
  <2>2. /\ CardCount(0)' = CardCount(0) /\ CardCount(1)' = CardCount(1)
        /\ CardCount(2)' = CardCount(2) /\ CardCount(3)' = CardCount(3)
    BY FourSeats
  <2> QED
    BY <2>1, <2>2, Zenon DEF RecordIInv, CardsInOnePlace
<1> QED
  BY <1>1, <1>2, <1>3, <1>4 DEF RecordIInv

\* The card taken, and it alone, is missing from what its seat holds.
TakenWhole(card, own, queued) ==
  Range(own[turn]) \cup Range(queued[turn]) = Held(turn) \ {card}

\* play_card takes the card out of the hand and no other.
LEMMA WholeFromHand ==
  ASSUME CardsInOrder, phase = "PLAYING", turn \in Seat,
         NEW card, Holds(cards[turn], card)
  PROVE  TakenWhole(card, [cards EXCEPT ![turn] = erase(@, card)], premoves)
<1> DEFINE own == [cards EXCEPT ![turn] = erase(@, card)]
<1>1. /\ cards[turn] \in Seq(Card) /\ premoves[turn] \in Seq(Card)
      /\ NoneTwice(cards[turn], premoves[turn])
      /\ own[turn] = erase(cards[turn], card)
  BY DEF CardsInOrder, CardTypeOK, Waiting
<1>2. /\ Range(own[turn]) = Range(cards[turn]) \ {card}
      /\ card \notin Range(premoves[turn])
  BY <1>1, HandWithoutCard
<1> HIDE DEF own
<1>3. TakenWhole(card, own, premoves)
  BY <1>2, HeldAsRange DEF TakenWhole
<1> QED
  BY <1>3 DEF own

\* The cascade takes the only card out of a queue of one.
LEMMA WholeFromQueue ==
  ASSUME CardsInOrder, phase = "PLAYING", turn \in Seat, Len(premoves[turn]) = 1
  PROVE  TakenWhole(fetched(premoves[turn]), cards, [premoves EXCEPT ![turn] = Tail(@)])
<1> DEFINE queued == [premoves EXCEPT ![turn] = Tail(@)]
           queue  == premoves[turn]
<1>1. /\ cards[turn] \in Seq(Card) /\ queue \in Seq(Card)
      /\ NoneTwice(cards[turn], queue)
      /\ queued[turn] = Tail(queue)
  BY DEF CardsInOrder, CardTypeOK, Waiting
<1>2. queue # <<>> /\ Len(Tail(queue)) = 0 /\ Tail(queue) \in Seq(Card)
  <2>1. Len(queue) = 1 /\ queue \in Seq(Card)
    BY <1>1
  <2> HIDE DEF queue
  <2>2. queue # <<>>
    BY <2>1
  <2>3. Tail(queue) \in Seq(Card) /\ Len(Tail(queue)) = Len(queue) - 1
    BY <2>1, <2>2, HeadTailProperties
  <2> QED
    BY <2>1, <2>2, <2>3
<1>3. queued[turn] = <<>>
  BY <1>1, <1>2, EmptySeq
<1>4. Range(queued[turn]) = {}
  BY <1>3 DEF Range
<1>5. fetched(queue) = queue[1] /\ DOMAIN queue = {1}
  BY <1>1 DEF fetched
<1>6. Range(queue) = {fetched(queue)}
  BY <1>5 DEF Range
<1>7. fetched(queue) \notin Range(cards[turn])
  BY <1>1, <1>5 DEF NoneTwice, Range
<1> HIDE DEF queued
<1>8. TakenWhole(fetched(queue), cards, queued)
  BY <1>4, <1>6, <1>7, HeldAsRange DEF TakenWhole
<1> QED
  BY <1>8 DEF queued

\* What playing a card does: the trick goes on, or it is full and goes to a seat, or
\* it is the last but one and its winner leads the last one, after which the hand is
\* settled.
LEMMA PlayTopSplits ==
  ASSUME IInv, CardsInOrder, phase = "PLAYING",
         NEW card, NEW own, NEW queued, Taken(card, own, queued),
         playTop(card, own, queued)
  PROVE  LET leader == IF trick = <<>> THEN turn ELSE trick_leader
             stack  == Append(trick, [card |-> card, id |-> turn])
             played == played_cards \cup {[card |-> card, id |-> turn,
                                           illegal |-> Renege(card, own[turn], trick)]}
         IN  \/ /\ Len(stack) # Active
                /\ trick' = stack /\ played_cards' = played
                /\ cards' = own /\ premoves' = queued
                /\ UNCHANGED <<phase, tricks, sitting_out>>
             \/ /\ Len(stack) = Active
                /\ \E i \in 1 .. Active :
                     /\ Takes(stack, i)
                     /\ turn' = TurnOrder(leader)[i]
                     /\ tricks' = [tricks EXCEPT ![TurnOrder(leader)[i]] = @ + 1]
                /\ trick' = <<>> /\ played_cards' = played
                /\ cards' = own /\ premoves' = queued
                /\ UNCHANGED <<phase, sitting_out>>
             \/ /\ Len(stack) = Active
                /\ \E i \in 1 .. Active :
                     LET winner == TurnOrder(leader)[i]
                         won    == [tricks EXCEPT ![winner] = @ + 1]
                     IN  /\ Takes(stack, i) /\ lastTrickDue(won)
                         /\ lastTrick(winner, won, played, own, queued)
<1>1. PICK leader \in {IF trick = <<>> THEN turn ELSE trick_leader},
           stack \in {Append(trick, [card |-> card, id |-> turn])},
           played \in {played_cards \cup {[card |-> card, id |-> turn,
                                           illegal |-> Renege(card, own[turn], trick)]}} :
        \/ /\ Len(stack) # Active
           /\ trick' = stack /\ played_cards' = played
           /\ cards' = own /\ premoves' = queued
           /\ UNCHANGED <<phase, tricks, sitting_out>>
        \/ /\ Len(stack) = Active
           /\ endTrick(stack, leader, played, own, queued)
  BY Zenon DEF playTop
<1>2. /\ leader = IF trick = <<>> THEN turn ELSE trick_leader
      /\ stack = Append(trick, [card |-> card, id |-> turn])
      /\ played = played_cards \cup {[card |-> card, id |-> turn,
                                      illegal |-> Renege(card, own[turn], trick)]}
  OBVIOUS
<1>3. CASE endTrick(stack, leader, played, own, queued) /\ Len(stack) = Active
  <2>1. PICK i \in 1 .. Active :
          /\ Takes(stack, i)
          /\ \E winner \in {TurnOrder(leader)[i]} :
               \E won \in {[tricks EXCEPT ![winner] = @ + 1]} :
                 \/ /\ tricks' = won
                    /\ trick' = <<>> /\ played_cards' = played
                    /\ turn' = winner
                    /\ cards' = own /\ premoves' = queued
                    /\ UNCHANGED <<phase, sitting_out>>
                 \/ /\ lastTrickDue(won)
                    /\ lastTrick(winner, won, played, own, queued)
    BY <1>3, Zenon DEF endTrick
  <2>2. PICK winner \in {TurnOrder(leader)[i]} :
          \E won \in {[tricks EXCEPT ![winner] = @ + 1]} :
            \/ /\ tricks' = won
               /\ trick' = <<>> /\ played_cards' = played
               /\ turn' = winner
               /\ cards' = own /\ premoves' = queued
               /\ UNCHANGED <<phase, sitting_out>>
            \/ /\ lastTrickDue(won)
               /\ lastTrick(winner, won, played, own, queued)
    BY <2>1
  <2>3. PICK won \in {[tricks EXCEPT ![winner] = @ + 1]} :
          \/ /\ tricks' = won
             /\ trick' = <<>> /\ played_cards' = played
             /\ turn' = winner
             /\ cards' = own /\ premoves' = queued
             /\ UNCHANGED <<phase, sitting_out>>
          \/ /\ lastTrickDue(won)
             /\ lastTrick(winner, won, played, own, queued)
    BY <2>2
  <2>4. winner = TurnOrder(leader)[i] /\ won = [tricks EXCEPT ![winner] = @ + 1]
    OBVIOUS
  <2> QED
    BY <1>2, <1>3, <2>1, <2>3, <2>4, Zenon
<1> QED
  BY <1>1, <1>2, <1>3, Zenon

\* One card moves from the seat at turn to the record.
LEMMA RecordGrows ==
  ASSUME CardsInOrder, RecordIInv, phase = "PLAYING", turn \in Seat,
         Active * Total(tricks) + Len(trick) \in Nat,
         NEW card, NEW illegal,
         Taken(card, cards', premoves'), TakenWhole(card, cards', premoves'),
         played_cards' = played_cards \cup {[card |-> card, id |-> turn, illegal |-> illegal]},
         phase' = phase,
         Active' * Total(tricks)' + Len(trick') = Active * Total(tricks) + Len(trick) + 1,
         \A i \in DOMAIN trick' : \/ \E j \in DOMAIN trick : trick'[i] = trick[j]
                                  \/ trick'[i] = [card |-> card, id |-> turn]
  PROVE  RecordIInv'
<1> DEFINE new == [card |-> card, id |-> turn, illegal |-> illegal]
<1>1. /\ HandsApart /\ PlayedOnce /\ RecordMatchesTable /\ CardsInOnePlace
      /\ phase \notin Waiting
  BY DEF RecordIInv, Waiting
<1>2. PICK t \in Seat : t = turn
  OBVIOUS
<1>3. /\ \A s : Held(s)' = Range(cards'[s]) \cup Range(premoves'[s])
      /\ \A s : Held(s) = Range(cards[s]) \cup Range(premoves[s])
  BY HeldAsRange
<1>4. Held(t)' = Held(t) \ {card} /\ card \in Held(t)
  <2>1. Range(cards'[t]) \cup Range(premoves'[t]) = Held(t) \ {card}
    BY <1>2 DEF TakenWhole
  <2>2. card \in Range(cards[t]) \cup Range(premoves[t])
    BY <1>2 DEF Taken
  <2> QED
    BY <1>3, <2>1, <2>2
<1>5. \A s \in Seat \ {t} : Held(s)' = Held(s)
  <2>1. \A s \in Seat \ {t} : cards'[s] = cards[s] /\ premoves'[s] = premoves[s]
    BY <1>2 DEF Taken
  <2> QED
    BY <1>3, <2>1
<1>6. \A s \in Seat : Held(s)' \subseteq Held(s) /\ (card \in Held(s) => s = t)
  BY <1>1, <1>4, <1>5 DEF HandsApart
<1>7. \A p \in played_cards : p.card # card
  BY <1>1, <1>4 DEF PlayedOnce
<1>8. new.card = card /\ new \notin played_cards /\ played_cards' = played_cards \cup {new}
  BY <1>7
<1>9. HandsApart'
  BY <1>1, <1>6 DEF HandsApart
<1>10. IsFiniteSet(played_cards') /\ Cardinality(played_cards') = Cardinality(played_cards) + 1
  <2> HIDE DEF new
  <2>1. IsFiniteSet(played_cards)
    BY <1>1 DEF PlayedOnce
  <2>2. /\ IsFiniteSet(played_cards \cup {new})
        /\ Cardinality(played_cards \cup {new}) = Cardinality(played_cards) + 1
    BY <1>8, <2>1, FS_AddElement
  <2> QED
    BY <1>8, <2>2
<1>11. PlayedOnce'
  <2> HIDE DEF new
  <2>1. \A p, q \in played_cards' : p.card = q.card => p = q
    BY <1>1, <1>7, <1>8 DEF PlayedOnce
  <2>2. \A p \in played_cards', s \in Seat : p.card \notin Held(s)'
    <3>1. \A p \in played_cards, s \in Seat : p.card \notin Held(s)
      BY <1>1 DEF PlayedOnce
    <3>2. \A s \in Seat : card \notin Held(s)'
      BY <1>4, <1>5, <1>6
    <3> QED
      BY <1>6, <1>8, <3>1, <3>2
  <2> QED
    BY <1>10, <2>1, <2>2 DEF PlayedOnce
<1>12. RecordMatchesTable'
  <2>1. Cardinality(played_cards') = Active' * Total(tricks)' + Len(trick')
    <3>1. Cardinality(played_cards) = Active * Total(tricks) + Len(trick)
      BY <1>1 DEF RecordMatchesTable
    <3> QED
      BY <1>10, <3>1
  <2>2. ASSUME NEW i \in DOMAIN trick'
        PROVE  \E p \in played_cards' : p.card = trick'[i].card /\ p.id = trick'[i].id
    <3>1. CASE \E j \in DOMAIN trick : trick'[i] = trick[j]
      BY <1>1, <1>8, <3>1 DEF RecordMatchesTable
    <3>2. CASE trick'[i] = [card |-> card, id |-> turn]
      <4>1. new.id = trick'[i].id /\ new.card = trick'[i].card
        BY <3>2
      <4> HIDE DEF new
      <4> QED
        BY <1>8, <4>1
    <3> QED
      BY <3>1, <3>2
  <2> QED
    BY <2>1, <2>2 DEF RecordMatchesTable
<1>13. AllCards' = AllCards
  <2>1. \A x : x \in AllCards <=> \/ \E s \in Seat : x \in Held(s)
                                  \/ \E p \in played_cards : x = p.card
    BY DEF AllCards
  <2>2. \A x : x \in AllCards' <=> \/ \E s \in Seat : x \in Held(s)'
                                   \/ \E p \in played_cards' : x = p.card
    BY DEF AllCards
  <2> HIDE DEF new
  <2>3. \A x : x \in AllCards' <=> x \in AllCards
    <3>1. ASSUME NEW x, x \in AllCards'
          PROVE  x \in AllCards
      BY <1>4, <1>6, <1>8, <2>1, <2>2, <3>1
    <3>2. ASSUME NEW x, x \in AllCards
          PROVE  x \in AllCards'
      <4>1. CASE \E s \in Seat : x \in Held(s)
        BY <1>4, <1>5, <1>8, <2>2, <4>1
      <4>2. CASE \E p \in played_cards : x = p.card
        BY <1>8, <2>2, <4>2
      <4> QED
        BY <2>1, <3>2, <4>1, <4>2
    <3> QED
      BY <3>1, <3>2
  <2> QED
    BY <2>3
<1>14. CardsInOnePlace'
  <2> DEFINE had(s) == CardCount(s)
             has(s) == CardCount(s)'
  <2>1. \A s \in Seat : had(s) \in Nat /\ has(s) = had(s) - IF s = t THEN 1 ELSE 0
    <3>1. \A s \in Seat : CardCount(s) \in Nat
      BY LenProperties DEF CardCount, CardsInOrder, CardTypeOK
    <3>2. CardCount(t)' = CardCount(t) - 1
      BY <1>2 DEF Taken, CardCount
    <3>3. \A s \in Seat \ {t} : CardCount(s)' = CardCount(s)
      BY <1>2 DEF Taken, CardCount
    <3> HIDE DEF CardCount
    <3> QED
      BY <3>1, <3>2, <3>3
  <2>2. had(0) + had(1) + had(2) + had(3) + Cardinality(played_cards) = 4 * CardsPerHand
    BY <1>1 DEF CardsInOnePlace
  <2>3. Cardinality(played_cards) \in Nat
    BY <1>1, FS_CardinalityType DEF PlayedOnce
  <2> HIDE DEF had, has
  <2>4. has(0) + has(1) + has(2) + has(3) = (had(0) + had(1) + had(2) + had(3)) - 1
    <3>1. /\ has(0) = had(0) - IF 0 = t THEN 1 ELSE 0
          /\ has(1) = had(1) - IF 1 = t THEN 1 ELSE 0
          /\ has(2) = had(2) - IF 2 = t THEN 1 ELSE 0
          /\ has(3) = had(3) - IF 3 = t THEN 1 ELSE 0
          /\ had(0) \in Nat /\ had(1) \in Nat /\ had(2) \in Nat /\ had(3) \in Nat
      BY <2>1, FourSeats
    <3>2. t = 0 \/ t = 1 \/ t = 2 \/ t = 3
      BY <1>2, FourSeats
    <3> QED
      BY <3>1, <3>2
  <2>5. has(0) + has(1) + has(2) + has(3) + Cardinality(played_cards') = 4 * CardsPerHand
    <3>1. had(0) \in Nat /\ had(1) \in Nat /\ had(2) \in Nat /\ had(3) \in Nat
      BY <2>1, FourSeats
    <3>2. /\ has(0) \in Int /\ has(1) \in Int /\ has(2) \in Int /\ has(3) \in Int
      BY <2>1, <3>1, FourSeats
    <3> DEFINE before == had(0) + had(1) + had(2) + had(3)
               after  == has(0) + has(1) + has(2) + has(3)
               all    == 4 * CardsPerHand
    <3>3. after = before - 1
      BY <2>4
    <3> HIDE DEF all
    <3>4. before \in Int
      BY <3>1
    <3>5. after \in Int
      BY <3>2
    <3>6. before + Cardinality(played_cards) = all
      BY <2>2 DEF all
    <3> HIDE DEF before, after
    <3>7. after + Cardinality(played_cards') = all
      BY <1>10, <2>3, <3>3, <3>4, <3>5, <3>6
    <3> QED
      BY <3>7 DEF after, all
  <2>6. Cardinality(AllCards)' = 4 * CardsPerHand
    BY <1>1, <1>13 DEF CardsInOnePlace
  <2> QED
    BY <2>5, <2>6 DEF CardsInOnePlace, has
<1> QED
  BY <1>9, <1>11, <1>12, <1>14 DEF RecordIInv

\* A card put on the table, with the tricks and the hand that end by it, keeps the record.
LEMMA PlayTopKeepsRecord ==
  ASSUME IInv, CardsInOrder, RecordIInv, phase = "PLAYING",
         NEW card, NEW own, NEW queued, Taken(card, own, queued), TakenWhole(card, own, queued),
         playTop(card, own, queued)
  PROVE  RecordIInv'
<1> DEFINE leader == IF trick = <<>> THEN turn ELSE trick_leader
           play   == [card |-> card, id |-> turn]
           stack  == Append(trick, play)
           new    == [card |-> card, id |-> turn, illegal |-> Renege(card, own[turn], trick)]
<1>1. CardsInOrder'
  BY PlayTopInOrder
<1>2. /\ leader \in Seat \ sitting_out /\ turn \in Seat
      /\ sitting_out \subseteq {Partner(caller)} /\ Partner(caller) \in Seat
      /\ Len(trick) \in 0 .. Active - 1
  BY TrickSoFar
<1>3. /\ Active \in {3, 4}
      /\ \A i \in 1 .. Active : TurnOrder(leader)[i] \in Seat
  <2> HIDE DEF leader
  <2>1. /\ Active \in {3, 4}
        /\ \A i \in 1 .. Active : TurnOrder(leader)[i] \in Seat \ sitting_out
    BY <1>2, TurnOrderGoesRound
  <2> QED
    BY <2>1
<1>4. /\ trick \in Seq(Play) /\ Len(trick) \in Nat
      /\ DOMAIN stack = 1 .. Len(trick) + 1 /\ Len(stack) = Len(trick) + 1
      /\ \A i \in 1 .. Len(trick) : stack[i] = trick[i] /\ i \in DOMAIN trick
      /\ stack[Len(trick) + 1] = play
  <2>1. trick \in Seq(Play) /\ play \in Play
    BY <1>2 DEF CardsInOrder, CardTypeOK, Taken, Play
  <2> HIDE DEF play
  <2> QED
    BY <2>1, AppendProperties, LenProperties
<1>5. tricks \in [Seat -> Nat] /\ Total(tricks) \in Nat
  BY TallyGrows, FourSeats DEF IInv, ControlTypeOK
<1>6. Active * Total(tricks) + Len(trick) \in Nat
  BY <1>3, <1>4, <1>5
<1> HIDE DEF leader, play, stack, new
<1>7. \/ /\ Len(stack) # Active
         /\ trick' = stack /\ played_cards' = played_cards \cup {new}
         /\ cards' = own /\ premoves' = queued
         /\ UNCHANGED <<phase, tricks, sitting_out>>
      \/ /\ Len(stack) = Active
         /\ \E i \in 1 .. Active :
              /\ Takes(stack, i)
              /\ turn' = TurnOrder(leader)[i]
              /\ tricks' = [tricks EXCEPT ![TurnOrder(leader)[i]] = @ + 1]
         /\ trick' = <<>> /\ played_cards' = played_cards \cup {new}
         /\ cards' = own /\ premoves' = queued
         /\ UNCHANGED <<phase, sitting_out>>
      \/ /\ Len(stack) = Active
         /\ \E i \in 1 .. Active :
              LET winner == TurnOrder(leader)[i]
                  won    == [tricks EXCEPT ![winner] = @ + 1]
              IN  /\ Takes(stack, i) /\ lastTrickDue(won)
                  /\ lastTrick(winner, won, played_cards \cup {new}, own, queued)
  BY PlayTopSplits, Zenon DEF leader, play, stack, new
<1>8. CASE /\ trick' = stack /\ played_cards' = played_cards \cup {new}
           /\ cards' = own /\ premoves' = queued
           /\ UNCHANGED <<phase, tricks, sitting_out>>
  <2>1. Active' * Total(tricks)' + Len(trick') = Active * Total(tricks) + Len(trick) + 1
    <3>1. Active' = Active /\ Total(tricks)' = Total(tricks)
      BY <1>8 DEF Active, Total
    <3>2. Len(trick') = Len(trick) + 1
      BY <1>4, <1>8
    <3>3. Active * Total(tricks) \in Int
      BY <1>3, <1>5
    <3> QED
      BY <1>4, <3>1, <3>2, <3>3
  <2>2. \A i \in DOMAIN trick' : \/ \E j \in DOMAIN trick : trick'[i] = trick[j]
                                 \/ trick'[i] = [card |-> card, id |-> turn]
    BY <1>4, <1>8 DEF play
  <2> QED
    BY <1>2, <1>6, <1>8, <2>1, <2>2, RecordGrows DEF new
<1>9. CASE /\ Len(stack) = Active
           /\ \E i \in 1 .. Active :
                /\ Takes(stack, i)
                /\ turn' = TurnOrder(leader)[i]
                /\ tricks' = [tricks EXCEPT ![TurnOrder(leader)[i]] = @ + 1]
           /\ trick' = <<>> /\ played_cards' = played_cards \cup {new}
           /\ cards' = own /\ premoves' = queued
           /\ UNCHANGED <<phase, sitting_out>>
  <2>1. Active' * Total(tricks)' + Len(trick') = Active * Total(tricks) + Len(trick) + 1
    <3>1. PICK i \in 1 .. Active : tricks' = [tricks EXCEPT ![TurnOrder(leader)[i]] = @ + 1]
      BY <1>9
    <3>2. Total(tricks)' = Total(tricks) + 1
      <4>1. TurnOrder(leader)[i] \in Seat
        BY <1>3
      <4>2. Total([tricks EXCEPT ![TurnOrder(leader)[i]] = @ + 1]) = Total(tricks) + 1
        BY <1>5, <4>1, TallyGrows
      <4>3. Total(tricks)' = Total(tricks')
        BY DEF Total
      <4> QED
        BY <3>1, <4>2, <4>3
    <3>3. Active' = Active /\ Len(trick') = 0 /\ Len(trick) + 1 = Active
      BY <1>4, <1>9 DEF Active
    <3> QED
      BY <1>3, <1>4, <1>5, <3>2, <3>3
  <2>2. DOMAIN trick' = {}
    BY <1>9
  <2> QED
    BY <1>2, <1>6, <1>9, <2>1, <2>2, RecordGrows DEF new
<1>10. ASSUME NEW i \in 1 .. Active,
              LET winner == TurnOrder(leader)[i]
                  won    == [tricks EXCEPT ![winner] = @ + 1]
              IN  lastTrick(winner, won, played_cards \cup {new}, own, queued)
       PROVE  RecordIInv'
  <2>1. PICK won, last, left : endHand(won, last, left)
    BY <1>10, Zenon DEF lastTrick
  <2>2. PICK team, points : settle(team, points, last, last, left)
    BY <2>1, Zenon DEF endHand
  <2> QED
    BY <1>1, <2>2, SettledRecord
<1> QED
  BY <1>7, <1>8, <1>9, <1>10

\* Before a card is played, what a seat holds is its hand.
LEMMA HandsBeforePlay ==
  ASSUME CardsInOrder, HandsApart, phase \notin Waiting, phase # "PLAYING"
  PROVE  \A s, t \in Seat : s # t => Range(cards[s]) \cap Range(cards[t]) = {}
<1>1. \A s \in Seat : premoves[s] = <<>>
  BY NoQueueOutsidePlay
<1>2. Range(<<>>) = {}
  BY DEF Range
<1>3. \A s \in Seat : Held(s) = Range(cards[s])
  BY <1>1, <1>2, HeldAsRange
<1> QED
  BY <1>3 DEF HandsApart

\* Before play, four hands of different cards are all the record asks for.
LEMMA HandsApartBeforePlay ==
  ASSUME CardsInOrder', phase' # "PLAYING",
         \A s, t \in Seat : s # t => Range(cards'[s]) \cap Range(cards'[t]) = {}
  PROVE  RecordIInv'
<1>1. \A s \in Seat : premoves'[s] = <<>>
  BY DEF CardsInOrder, QueuesArePlayers
<1>2. Range(<<>>) = {}
  BY DEF Range
<1>3. \A s \in Seat : Held(s)' = Range(cards'[s])
  BY <1>1, <1>2, HeldAsRange
<1> QED
  BY <1>3, OutsidePlayRecord DEF HandsApart

\* Play starts with all cards in hands and an empty record (order, discard).
LEMMA StartPlayRecord ==
  ASSUME IInv, CardsInOrder, CardsInOrder', phase # "PLAYING",
         NEW out, startPlay(out), UNCHANGED <<premoves, trick, tricks>>,
         \A s, t \in Seat : s # t => Range(cards'[s]) \cap Range(cards'[t]) = {}
  PROVE  RecordIInv'
<1>1. phase' = "PLAYING" /\ played_cards' = {}
  BY DEF startPlay
<1>2. trick' = <<>> /\ \A s \in Seat : premoves'[s] = <<>>
  BY NoQueueOutsidePlay DEF CardsInOrder
<1>3. Total(tricks)' = 0
  <2>1. tricks' = Nobody
    BY DEF IInv, TricksAreTallied
  <2> QED
    BY <2>1, NobodyHasNone DEF Total
<1>4. cards' \in [Seat -> Seq(Card)]
  BY DEF CardsInOrder, CardTypeOK
<1>5. Active' \in Nat
  <2>1. IsFiniteSet(Seat)
    <3>1. 0 \in Int /\ 3 \in Int
      OBVIOUS
    <3> QED
      BY <3>1, FS_Interval, Zenon DEF Seat
  <2>2. IsFiniteSet(Seat \ sitting_out')
    BY <2>1, FS_Subset
  <2>3. Cardinality(Seat \ sitting_out') \in Nat
    BY <2>2, FS_CardinalityType
  <2> QED
    BY <2>3 DEF Active
<1>6. \A s \in Seat : NoneTwice(cards'[s], <<>>)
  BY <1>1, <1>2 DEF CardsInOrder, Waiting
<1>7. ASSUME NEW s \in Seat
      PROVE  Len(cards'[s]) = CardsPerHand
  <2>1. CardCount(s)' + (IF \E i \in DOMAIN trick' : trick'[i].id = s THEN 1 ELSE 0)
          = CardsPerHand - IF s \in sitting_out' THEN 0 ELSE Total(tricks)'
    BY <1>1 DEF CardsInOrder, HandSizes
  <2>2. ~\E i \in DOMAIN trick' : trick'[i].id = s
    <3>1. DOMAIN <<>> = {}
      OBVIOUS
    <3> QED
      BY <1>2, <3>1
  <2>3. CardCount(s)' = Len(cards'[s]) + 0 /\ Len(cards'[s]) \in Nat
    <3>1. Len(<<>>) = 0 /\ cards'[s] \in Seq(Card)
      BY <1>4
    <3> QED
      BY <1>2, <3>1, LenProperties DEF CardCount
  <2>4. CardCount(s)' + 0 = CardsPerHand - 0
    <3> HIDE DEF CardCount
    <3> QED
      BY <1>3, <2>1, <2>2
  <2> QED
    BY <2>3, <2>4, GameAssumption
<1> QED
  BY <1>1, <1>2, <1>3, <1>4, <1>5, <1>6, <1>7, PlayStartsRecord

\* The dealer picks up a card that was in no hand (order).
LEMMA OrderKeepsRecord ==
  ASSUME IInv, CardsInOrder, CardsInOrder', RecordIInv,
         NEW s, NEW alone, NEW suit, order(s, alone, suit)
  PROVE  RecordIInv'
<1>1. /\ phase \in Voting
      /\ UNCHANGED <<dealer, top_card, premoves, tricks, trick>>
      /\ \/ /\ phase' = "DISCARDING"
            /\ cards' = [cards EXCEPT ![dealer] = Append(@, top_card)]
         \/ startPlay(sitting_out') /\ UNCHANGED cards
  BY Zenon DEF order
<1>2. \A t, u \in Seat : t # u => Range(cards[t]) \cap Range(cards[u]) = {}
  BY <1>1, HandsBeforePlay DEF RecordIInv, Voting, Waiting
<1>3. CASE /\ phase' = "DISCARDING"
           /\ cards' = [cards EXCEPT ![dealer] = Append(@, top_card)]
  <2>1. \A t \in Seat : top_card \notin Range(cards[t])
    BY <1>1 DEF CardsInOrder, TopCardIsTurnedUp, InHand, Range
  <2>2. dealer \in Seat /\ cards \in [Seat -> Seq(Card)] /\ top_card \in Card
    BY <1>1 DEF IInv, ControlTypeOK, CardsInOrder, CardTypeOK, TopCardIsTurnedUp
  <2>3. Range(cards'[dealer]) = Range(cards[dealer]) \cup {top_card}
    <3>1. cards'[dealer] = Append(cards[dealer], top_card) /\ cards[dealer] \in Seq(Card)
      BY <1>3, <2>2
    <3> QED
      BY <2>2, <3>1, AppendProperties, LenProperties DEF Range
  <2>4. \A t \in Seat \ {dealer} : cards'[t] = cards[t]
    BY <1>3, <2>2
  <2>5. \A t, u \in Seat : t # u => Range(cards'[t]) \cap Range(cards'[u]) = {}
    BY <1>2, <2>1, <2>3, <2>4
  <2> QED
    BY <1>3, <2>5, HandsApartBeforePlay
<1>4. CASE startPlay(sitting_out') /\ UNCHANGED cards
  <2>1. phase # "PLAYING"
    BY <1>1 DEF Voting
  <2>2. \A t, u \in Seat : t # u => Range(cards'[t]) \cap Range(cards'[u]) = {}
    BY <1>2, <1>4
  <2> DEFINE out == sitting_out'
  <2>3. startPlay(out)
    BY <1>4
  <2> HIDE DEF out
  <2> QED
    BY <1>1, <2>1, <2>2, <2>3, StartPlayRecord
<1> QED
  BY <1>1, <1>3, <1>4

\* A pass moves no card.
LEMMA PassKeepsRecord ==
  ASSUME CardsInOrder, CardsInOrder', RecordIInv, NEW s, pass(s)
  PROVE  RecordIInv'
<1>1. phase \in Voting /\ phase' \in Voting /\ UNCHANGED cards
  BY DEF pass, Voting, hands
<1>2. \A t, u \in Seat : t # u => Range(cards[t]) \cap Range(cards[u]) = {}
  BY <1>1, HandsBeforePlay DEF RecordIInv, Voting, Waiting
<1>3. phase' # "PLAYING" /\ cards' = cards
  BY <1>1 DEF Voting
<1> QED
  BY <1>2, <1>3, HandsApartBeforePlay

\* A discarded card was the dealer's only; the hands stay apart (discard).
LEMMA DiscardKeepsRecord ==
  ASSUME IInv, CardsInOrder, CardsInOrder', RecordIInv, NEW s, NEW card, discard(s, card)
  PROVE  RecordIInv'
<1>1. /\ phase = "DISCARDING" /\ Holds(cards[dealer], card)
      /\ cards' = [cards EXCEPT ![dealer] = erase(@, card)]
      /\ startPlay(sitting_out)
      /\ UNCHANGED <<premoves, tricks, trick>>
  BY DEF discard
<1>2. \A t, u \in Seat : t # u => Range(cards[t]) \cap Range(cards[u]) = {}
  BY <1>1, HandsBeforePlay DEF RecordIInv, Waiting
<1>3. /\ dealer \in Seat /\ cards \in [Seat -> Seq(Card)]
      /\ premoves[dealer] \in Seq(Card) /\ NoneTwice(cards[dealer], premoves[dealer])
  BY <1>1 DEF IInv, ControlTypeOK, CardsInOrder, CardTypeOK, Waiting
<1>4. Range(cards'[dealer]) \subseteq Range(cards[dealer])
  <2>1. cards'[dealer] = erase(cards[dealer], card) /\ cards[dealer] \in Seq(Card)
    BY <1>1, <1>3
  <2>2. Range(erase(cards[dealer], card)) = Range(cards[dealer]) \ {card}
    BY <1>1, <1>3, <2>1, HandWithoutCard
  <2> QED
    BY <2>1, <2>2
<1>5. \A t \in Seat \ {dealer} : cards'[t] = cards[t]
  BY <1>1, <1>3
<1>6. \A t, u \in Seat : t # u => Range(cards'[t]) \cap Range(cards'[u]) = {}
  BY <1>2, <1>4, <1>5
<1> QED
  BY <1>1, <1>6, StartPlayRecord

\* A card that moves between a hand and its queue stays with its seat.
LEMMA QueueMoveKeepsRecord ==
  ASSUME CardsInOrder, RecordIInv, phase = "PLAYING", NEW s \in Seat,
         NEW hand \in Seq(Card), NEW queue \in Seq(Card),
         cards' = [cards EXCEPT ![s] = hand], premoves' = [premoves EXCEPT ![s] = queue],
         Len(hand) + Len(queue) = CardCount(s),
         Range(hand) \cup Range(queue) = Range(cards[s]) \cup Range(premoves[s]),
         UNCHANGED <<phase, tricks, sitting_out, trick, played_cards>>
  PROVE  RecordIInv'
<1>1. cards \in [Seat -> Seq(Card)] /\ premoves \in [Seat -> Seq(Card)]
  BY DEF CardsInOrder, CardTypeOK
<1>2. /\ cards'[s] = hand /\ premoves'[s] = queue
      /\ \A t \in Seat \ {s} : cards'[t] = cards[t] /\ premoves'[t] = premoves[t]
  BY <1>1
<1>3. \A t \in Seat : CardCount(t)' = CardCount(t)
  BY <1>2 DEF CardCount
<1>4. \A t \in Seat : Held(t)' = Held(t)
  BY <1>2, HeldAsRange
<1> QED
  BY <1>3, <1>4, SameRecord

\* A card premoved goes from the hand to the queue of its seat (premove).
LEMMA PremoveKeepsRecord ==
  ASSUME CardsInOrder, RecordIInv, NEW s \in Human, NEW card, premove(s, card)
  PROVE  RecordIInv'
<1> DEFINE hand  == erase(cards[s], card)
           queue == Append(premoves[s], card)
<1>1. /\ phase = "PLAYING" /\ Holds(cards[s], card)
      /\ cards' = [cards EXCEPT ![s] = hand] /\ premoves' = [premoves EXCEPT ![s] = queue]
      /\ UNCHANGED <<phase, tricks, sitting_out, trick, played_cards>>
  BY Zenon DEF premove, table
<1>2. s \in Seat /\ cards[s] \in Seq(Card) /\ premoves[s] \in Seq(Card)
      /\ NoneTwice(cards[s], premoves[s])
  BY <1>1 DEF CardsInOrder, CardTypeOK, Human, Waiting
<1>3. /\ card \in Card /\ hand \in Seq(Card) /\ Len(hand) = Len(cards[s]) - 1
      /\ Range(hand) = Range(cards[s]) \ {card}
      /\ NoneTwice(hand, premoves[s]) /\ card \notin Range(premoves[s])
  BY <1>1, <1>2, HandWithoutCard
<1>4. card \in Range(cards[s])
  BY <1>1 DEF Holds, Range
<1> HIDE DEF hand
<1>5. /\ queue \in Seq(Card) /\ Len(queue) = Len(premoves[s]) + 1
      /\ Range(queue) = Range(premoves[s]) \cup {card}
  <2>1. card \notin Range(hand)
    BY <1>3
  <2> QED
    BY <1>2, <1>3, <2>1, QueueWithCard
<1> HIDE DEF queue
<1>6. Len(hand) + Len(queue) = CardCount(s)
  <2>1. \A a, b \in Nat : a - 1 + (b + 1) = a + b
    OBVIOUS
  <2>2. Len(cards[s]) \in Nat /\ Len(premoves[s]) \in Nat
    BY <1>2, LenProperties
  <2> QED
    BY <1>3, <1>5, <2>1, <2>2 DEF CardCount
<1>7. Range(hand) \cup Range(queue) = Range(cards[s]) \cup Range(premoves[s])
  BY <1>3, <1>4, <1>5
<1> QED
  BY <1>1, <1>2, <1>3, <1>5, <1>6, <1>7, QueueMoveKeepsRecord

\* A queue taken back goes to the hand of its seat (undo_premove).
LEMMA UndoPremoveKeepsRecord ==
  ASSUME CardsInOrder, RecordIInv, NEW s \in Human, undo_premove(s)
  PROVE  RecordIInv'
<1> DEFINE hand == cards[s] \o premoves[s]
<1>1. /\ phase = "PLAYING"
      /\ cards' = [cards EXCEPT ![s] = hand] /\ premoves' = [premoves EXCEPT ![s] = <<>>]
      /\ UNCHANGED <<phase, tricks, sitting_out, trick, played_cards>>
  BY Zenon DEF undo_premove, table
<1>2. s \in Seat /\ cards[s] \in Seq(Card) /\ premoves[s] \in Seq(Card)
      /\ NoneTwice(cards[s], premoves[s])
  BY <1>1 DEF CardsInOrder, CardTypeOK, Human, Waiting
<1>3. /\ hand \in Seq(Card) /\ Len(hand) = Len(cards[s]) + Len(premoves[s])
      /\ Range(hand) = Range(cards[s]) \cup Range(premoves[s])
  BY <1>2, HandWithQueue
<1> HIDE DEF hand
<1>4. <<>> \in Seq(Card) /\ Len(<<>>) = 0 /\ Range(<<>>) = {}
  BY DEF Range
<1>5. Len(hand) + Len(<<>>) = CardCount(s)
  BY <1>3, <1>4, LenProperties DEF CardCount
<1>6. Range(hand) \cup Range(<<>>) = Range(cards[s]) \cup Range(premoves[s])
  BY <1>3, <1>4
<1> QED
  BY <1>1, <1>2, <1>3, <1>4, <1>5, <1>6, QueueMoveKeepsRecord

\* A card a person plays goes to the record (play_card).
LEMMA PlayCardKeepsRecord ==
  ASSUME IInv, CardIInv, RecordIInv, NEW s, NEW card, play_card(s, card)
  PROVE  RecordIInv'
<1> DEFINE own == [cards EXCEPT ![turn] = erase(@, card)]
<1>1. /\ phase = "PLAYING" /\ turn = s
      /\ Taken(card, own, premoves) /\ playTop(card, own, premoves)
  BY PlayCardTakes
<1>2. turn \in Seat /\ CardsInOrder
  BY DEF IInv, ControlTypeOK, CardIInv
<1>3. Holds(cards[turn], card)
  BY DEF play_card, CardIInv, LoopsHaveWork
<1>4. TakenWhole(card, own, premoves)
  BY <1>1, <1>2, <1>3, WholeFromHand
<1> HIDE DEF own
<1> QED
  BY <1>1, <1>2, <1>4, PlayTopKeepsRecord

\* A premoved card that is played goes to the record (cascadePremoves).
LEMMA CascadeKeepsRecord ==
  ASSUME IInv, CardIInv, RecordIInv, CascadeStep, Len(premoves[turn]) = 1
  PROVE  RecordIInv'
<1> DEFINE card   == fetched(premoves[turn])
           queued == [premoves EXCEPT ![turn] = Tail(@)]
<1>1. phase = "PLAYING" /\ Taken(card, cards, queued) /\ playTop(card, cards, queued)
  BY CascadeTakes
<1>2. turn \in Seat /\ CardsInOrder
  BY DEF IInv, ControlTypeOK, CardIInv
<1>3. TakenWhole(card, cards, queued)
  BY <1>1, <1>2, WholeFromQueue
<1> HIDE DEF card, queued
<1> QED
  BY <1>1, <1>2, <1>3, PlayTopKeepsRecord

\* Steps that touch neither cards nor the tally keep the record.
LEMMA RecordUntouched ==
  ASSUME RecordIInv, UNCHANGED <<phase, hands, tricks, sitting_out, table>>
  PROVE  RecordIInv'
<1>1. \A s \in Seat : Held(s)' = Held(s) /\ CardCount(s)' = CardCount(s)
  BY DEF Held, InHand, CardCount, hands
<1> QED
  BY <1>1, SameRecord DEF table

\* Every step of a room keeps the record, as long as queues of one card are cascaded.
LEMMA NextKeepsRecord ==
  ASSUME IInv, CardIInv, CardIInv', RecordIInv, [Next]_vars, [SingleCascade]_vars
  PROVE  RecordIInv'
<1>1. CardsInOrder /\ CardsInOrder'
  BY DEF CardIInv
<1>2. CASE TurnMove
  <2>1. PICK s \in Human : Order(s) \/ Pass(s) \/ Discard(s) \/ PlayCard(s)
    BY <1>2 DEF TurnMove
  <2>2. \/ \E alone, suit : order(s, alone, suit)
        \/ pass(s)
        \/ \E card : discard(s, card)
        \/ \E card : play_card(s, card)
    BY <2>1, Zenon DEF Order, Pass, Discard, PlayCard
  <2> QED
    BY <1>1, <2>2, OrderKeepsRecord, PassKeepsRecord, DiscardKeepsRecord, PlayCardKeepsRecord
<1>3. CASE OtherRequest
  <2>1. CASE Restart
    <3>1. dealCards /\ phase' = "VOTE_ROUND1"
      BY <2>1 DEF Restart, restart, nextHand
    <3> QED
      BY <1>1, <3>1, DealtRecord
  <2>2. CASE Chat
    BY <2>2, RecordUntouched DEF Chat
  <2>3. ASSUME NEW s \in Human, Premove(s) \/ UndoPremove(s)
        PROVE  RecordIInv'
    <3>1. (\E card : premove(s, card)) \/ undo_premove(s)
      BY <2>3, Zenon DEF Premove, UndoPremove
    <3> QED
      BY <1>1, <3>1, PremoveKeepsRecord, UndoPremoveKeepsRecord
  <2>4. ASSUME NEW s \in Human, LayDown(s)
        PROVE  RecordIInv'
    <3>1. \E team, points, last, token, left : settle(team, points, last, token, left)
      BY <2>4, Zenon DEF LayDown, lay_down
    <3> QED
      BY <1>1, <3>1, SettledRecord
  <2> QED
    BY <1>3, <2>1, <2>2, <2>3, <2>4 DEF OtherRequest
<1>4. CASE Loop
  <2>1. CASE CascadeStep
    <3>1. CASE SingleCascade
      BY <2>1, <3>1, CascadeKeepsRecord DEF SingleCascade
    <3>2. CASE UNCHANGED vars
      BY <3>2, RecordUntouched DEF vars
    <3> QED
      BY <3>1, <3>2
  <2>2. CASE CascadeThrows
    BY <2>2 DEF CascadeThrows, CardIInv, LoopsHaveWork
  <2>3. CASE BotVotes
    <3>1. (\E alone, suit : order(turn, alone, suit)) \/ pass(turn)
      BY <2>3, Zenon DEF BotVotes
    <3> QED
      BY <1>1, <3>1, OrderKeepsRecord, PassKeepsRecord
  <2>4. CASE BotDiscards
    <3>1. \E card : discard(turn, card)
      BY <2>4, Zenon DEF BotDiscards
    <3> QED
      BY <1>1, <3>1, DiscardKeepsRecord
  <2>5. CASE BotPlays
    <3>1. \E card : play_card(turn, card)
      BY <2>5, Zenon DEF BotPlays
    <3> QED
      BY <3>1, PlayCardKeepsRecord
  <2>6. CASE BotThrows
    BY <2>6, RecordUntouched DEF BotThrows
  <2> QED
    BY <1>4, <2>1, <2>2, <2>3, <2>4, <2>5, <2>6 DEF Loop
<1>5. CASE Join
  <2>1. phase' = "LOBBY"
    BY <1>5 DEF Join, IInv, SeatsAreFilled
  <2> QED
    BY <2>1, OutsidePlayRecord DEF HandsApart, Waiting
<1>6. CASE Reboot
  BY <1>6, RecordUntouched DEF Reboot
<1>7. CASE UNCHANGED vars
  BY <1>7, RecordUntouched DEF vars
<1> QED
  BY <1>2, <1>3, <1>4, <1>5, <1>6, <1>7 DEF Next

\* On a table where hands are laid down cleanly and cards are premoved one at a time, the
\* record of a hand is true to the table, for any deals and any requests.
THEOREM RecordsStayTrue ==
  Spec /\ [][CleanLayDown]_vars /\ [][SingleCascade]_vars => []RecordIInv
<1>1. Init => RecordIInv
  BY DEF Init, RecordIInv, HandsApart, PlayedOnce, RecordMatchesTable, CardsInOnePlace, Waiting
<1>2. IInv /\ CardIInv /\ CardIInv' /\ RecordIInv /\ [Next]_vars /\ [SingleCascade]_vars
        => RecordIInv'
  BY NextKeepsRecord
<1> QED
  BY <1>1, <1>2, CardsStayInOrder, ControlIsInOrder, PTL DEF Spec

\* A hand's record holds one card of every active seat per trick, the cards on the table
\* among them (play_card, endTrick).
THEOREM RecordsMatchTheTable ==
  Spec /\ [][CleanLayDown]_vars /\ [][SingleCascade]_vars => []RecordMatchesTable
<1>1. RecordIInv => RecordMatchesTable
  BY DEF RecordIInv
<1> QED
  BY <1>1, RecordsStayTrue, PTL

\* While a hand is played every card dealt is in a hand, in a queue of premoves or in the
\* record, and in one of them only.
THEOREM CardsAreInOnePlace ==
  Spec /\ [][CleanLayDown]_vars /\ [][SingleCascade]_vars => []CardsInOnePlace
<1>1. RecordIInv => CardsInOnePlace
  BY DEF RecordIInv
<1> QED
  BY <1>1, RecordsStayTrue, PTL
-----------------------------------------------------------------------------
(* Who takes a trick *)

\* The seat the rules give a trick to is the one whose card takes it by the scores.
LEMMA WinnerTakes ==
  ASSUME trump \in Suit, NEW stack \in Seq(Play), stack # <<>>,
         \A j, k \in DOMAIN stack : stack[j].card = stack[k].card => j = k,
         NEW i \in DOMAIN stack, Takes(stack, i), stack[i].id \in Seat
  PROVE  Winner({stack[k] : k \in DOMAIN stack}, stack[1].card) = stack[i].id
<1> DEFINE led      == effectiveSuit(stack[1].card, trump)
           plays    == {stack[k] : k \in DOMAIN stack}
           wins(s)  == \E p \in plays : /\ p.id = s
                                        /\ \A q \in plays : ~Beats(q.card, p.card, led)
<1>1. \A k \in DOMAIN stack \ {i} : Beats(stack[i].card, stack[k].card, led)
  BY TricksGoByTheRules
<1>2. \A k \in DOMAIN stack : stack[k].card \in Card
  <2>1. \A k \in DOMAIN stack : stack[k] \in Play
    OBVIOUS
  <2> QED
    BY <2>1 DEF Play
<1>3. led \in Suit
  <2>1. stack[1].card \in Card
    <3>1. 1 \in DOMAIN stack
      BY LenProperties, EmptySeq
    <3> QED
      BY <1>2, <3>1
  <2> QED
    BY <2>1, ScoreBySuit
<1> HIDE DEF led
<1>4. \A k \in DOMAIN stack : ~Beats(stack[k].card, stack[i].card, led)
  <2>1. \A a, b \in Card : scoreCard(a, trump, led) > scoreCard(b, trump, led) <=> Beats(a, b, led)
    BY <1>3, ScoresAreTheRules
  <2>2. \A a \in Card : scoreCard(a, trump, led) \in Nat
    BY <1>3, ScoreIsNat
  <2>3. ASSUME NEW a \in Card, NEW b \in Card, Beats(a, b, led)
        PROVE  ~Beats(b, a, led)
    BY <2>1, <2>2, <2>3
  <2>4. ASSUME NEW a \in Card
        PROVE  ~Beats(a, a, led)
    BY <2>1, <2>2, <2>4
  <2>5. ASSUME NEW k \in DOMAIN stack
        PROVE  ~Beats(stack[k].card, stack[i].card, led)
    BY <1>1, <1>2, <2>3, <2>4, <2>5
  <2> QED
    BY <2>5
<1>5. wins(stack[i].id)
  BY <1>4
<1>6. ASSUME NEW s, wins(s)
      PROVE  s = stack[i].id
  <2>1. PICK k \in DOMAIN stack : /\ stack[k].id = s
                                  /\ \A q \in plays : ~Beats(q.card, stack[k].card, led)
    BY <1>6
  <2>2. ~Beats(stack[i].card, stack[k].card, led)
    BY <2>1
  <2> QED
    BY <1>1, <2>1, <2>2
<1> HIDE DEF wins
<1>7. (CHOOSE s \in Seat : wins(s)) = stack[i].id
  BY <1>5, <1>6
<1> QED
  BY <1>7, Zenon DEF Winner, wins, led, plays

\* The trick with the card that is played to it: seats in order, no card twice, none
\* but the newest missing in the record.
LEMMA StackInOrder ==
  ASSUME IInv, CardsInOrder, RecordIInv, phase = "PLAYING",
         NEW card, NEW own, NEW queued, Taken(card, own, queued)
  PROVE  LET leader == IF trick = <<>> THEN turn ELSE trick_leader
             play   == [card |-> card, id |-> turn]
             stack  == Append(trick, play)
         IN  /\ stack \in Seq(Play) /\ stack # <<>>
             /\ Len(stack) = Len(trick) + 1 /\ DOMAIN stack = 1 .. Len(trick) + 1
             /\ Len(trick) + 1 =< Active
             /\ trick # <<>> => stack[1] = trick[1]
             /\ \A k \in DOMAIN stack : stack[k].id = TurnOrder(leader)[k] /\ stack[k].id \in Seat
             /\ \A j, k \in DOMAIN stack : stack[j].card = stack[k].card => j = k
             /\ {stack[k] : k \in DOMAIN stack} = OnTable \cup {play}
             /\ \A p \in played_cards : p.card # card
<1> DEFINE leader == IF trick = <<>> THEN turn ELSE trick_leader
           play   == [card |-> card, id |-> turn]
           stack  == Append(trick, play)
           n      == Len(trick)
<1>1. /\ leader \in Seat \ sitting_out /\ turn \in Seat
      /\ sitting_out \subseteq {Partner(caller)} /\ Partner(caller) \in Seat
      /\ n \in 0 .. Active - 1 /\ DOMAIN trick = 1 .. n
      /\ turn = TurnOrder(leader)[n + 1]
      /\ \A i \in 1 .. n : trick[i].id = TurnOrder(leader)[i]
  BY TrickSoFar
<1>2. play \in Play /\ trick \in Seq(Play) /\ play.card = card /\ play.id = turn
  BY <1>1 DEF CardsInOrder, CardTypeOK, Taken, Play
<1> HIDE DEF leader, play
<1>3. /\ Active \in {3, 4}
      /\ \A i \in 1 .. Active : TurnOrder(leader)[i] \in Seat
      /\ \A i, j \in 1 .. Active : TurnOrder(leader)[i] = TurnOrder(leader)[j] => i = j
  <2>1. /\ Active \in {3, 4}
        /\ \A i \in 1 .. Active : TurnOrder(leader)[i] \in Seat \ sitting_out
        /\ \A i, j \in 1 .. Active : TurnOrder(leader)[i] = TurnOrder(leader)[j] => i = j
    BY <1>1, TurnOrderGoesRound
  <2> QED
    BY <2>1
<1>4. /\ stack \in Seq(Play) /\ Len(stack) = n + 1 /\ DOMAIN stack = 1 .. n + 1
      /\ \A i \in 1 .. n : stack[i] = trick[i]
      /\ stack[n + 1] = play
  BY <1>2, AppendProperties, LenProperties
<1> HIDE DEF stack
<1>5. n \in Nat /\ n + 1 =< Active /\ 1 .. n + 1 \subseteq 1 .. Active
  BY <1>1, <1>3
<1>6. \A k \in 1 .. n + 1 : k = n + 1 \/ k \in 1 .. n
  BY <1>5
<1>7. \A k \in 1 .. n + 1 : stack[k].id = TurnOrder(leader)[k] /\ stack[k].id \in Seat
  <2> HIDE DEF n
  <2>1. \A k \in 1 .. n + 1 : stack[k].id = TurnOrder(leader)[k]
    BY <1>1, <1>2, <1>4, <1>6
  <2>2. \A k \in 1 .. n + 1 : TurnOrder(leader)[k] \in Seat
    BY <1>3, <1>5
  <2> QED
    BY <2>1, <2>2
<1>8. \A p \in played_cards : p.card # card
  <2>1. card \in Held(turn)
    BY HeldAsRange DEF Taken
  <2> QED
    BY <1>1, <2>1 DEF RecordIInv, PlayedOnce
<1>9. \A i \in 1 .. n : \E p \in played_cards : p.card = trick[i].card /\ p.id = trick[i].id
  BY <1>1 DEF RecordIInv, RecordMatchesTable
<1>10. \A i \in 1 .. n : trick[i].card # card
  BY <1>8, <1>9
<1>11. \A i, j \in 1 .. n : trick[i].card = trick[j].card => i = j
  <2>1. ASSUME NEW i \in 1 .. n, NEW j \in 1 .. n, trick[i].card = trick[j].card
        PROVE  i = j
    <3>1. trick[i].id = trick[j].id
      BY <1>9, <2>1 DEF RecordIInv, PlayedOnce
    <3>2. TurnOrder(leader)[i] = TurnOrder(leader)[j]
      BY <1>1, <3>1
    <3>3. i \in 1 .. Active /\ j \in 1 .. Active
      BY <1>5
    <3> QED
      BY <1>3, <3>2, <3>3
  <2> QED
    BY <2>1
<1>12. \A j, k \in 1 .. n + 1 : stack[j].card = stack[k].card => j = k
  <2> HIDE DEF n
  <2> QED
    BY <1>2, <1>4, <1>6, <1>10, <1>11
<1>13. {stack[k] : k \in 1 .. n + 1} = OnTable \cup {play}
  <2>1. OnTable = {trick[k] : k \in 1 .. n}
    BY <1>1 DEF OnTable
  <2>2. n + 1 \in 1 .. n + 1 /\ \A k \in 1 .. n : k \in 1 .. n + 1
    BY <1>5
  <2> HIDE DEF n
  <2> QED
    BY <1>4, <1>6, <2>1, <2>2
<1>14. stack # <<>> /\ (trick # <<>> => stack[1] = trick[1])
  <2>1. stack # <<>>
    BY <1>4, <1>5
  <2>2. ASSUME trick # <<>>
        PROVE  stack[1] = trick[1]
    <3>1. n # 0
      BY <1>2, <2>2, EmptySeq
    <3>2. 1 \in 1 .. n
      BY <1>5, <3>1
    <3> QED
      BY <1>4, <3>2
  <2> QED
    BY <2>1, <2>2
<1> QED
  BY <1>4, <1>5, <1>7, <1>8, <1>12, <1>13, <1>14, Zenon DEF leader, play, stack

\* The card that fills a trick decides it by the rules.
LEMMA FullTrickWinner ==
  ASSUME IInv, CardsInOrder, RecordIInv, phase = "PLAYING", trick # <<>>,
         NEW card, NEW own, NEW queued, Taken(card, own, queued),
         Len(Append(trick, [card |-> card, id |-> turn])) = Active,
         NEW i \in 1 .. Active, Takes(Append(trick, [card |-> card, id |-> turn]), i)
  PROVE  Winner(OnTable \cup {[card |-> card, id |-> turn]}, trick[1].card)
           = TurnOrder(trick_leader)[i]
<1> DEFINE play  == [card |-> card, id |-> turn]
           stack == Append(trick, play)
<1>1. /\ stack \in Seq(Play) /\ stack # <<>>
      /\ Len(stack) = Len(trick) + 1 /\ DOMAIN stack = 1 .. Len(trick) + 1
      /\ stack[1] = trick[1]
      /\ \A k \in DOMAIN stack : stack[k].id = TurnOrder(trick_leader)[k] /\ stack[k].id \in Seat
      /\ \A j, k \in DOMAIN stack : stack[j].card = stack[k].card => j = k
      /\ {stack[k] : k \in DOMAIN stack} = OnTable \cup {play}
  BY StackInOrder
<1>2. Len(stack) = Active /\ Takes(stack, i)
  OBVIOUS
<1> HIDE DEF stack, play
<1>3. i \in DOMAIN stack /\ trump \in Suit
  BY <1>1, <1>2 DEF CardsInOrder, CardTypeOK
<1>4. stack[i].id \in Seat /\ stack[i].id = TurnOrder(trick_leader)[i]
  BY <1>1, <1>3
<1>5. Winner({stack[k] : k \in DOMAIN stack}, stack[1].card) = stack[i].id
  BY <1>1, <1>2, <1>3, <1>4, WinnerTakes
<1>6. Winner(OnTable \cup {play}, trick[1].card) = TurnOrder(trick_leader)[i]
  BY <1>1, <1>4, <1>5
<1> QED
  BY <1>6 DEF play

\* After the last trick the room votes on the next hand, or the game is over.
LEMMA HandOverIsNotPlay ==
  ASSUME NEW leader, NEW won, NEW played, NEW own, NEW queued,
         lastTrick(leader, won, played, own, queued)
  PROVE  phase' # "PLAYING"
<1>1. PICK count, last, left : endHand(count, last, left)
  BY Zenon DEF lastTrick
<1>2. PICK team, points : settle(team, points, last, last, left)
  BY <1>1, Zenon DEF endHand
<1> QED
  BY <1>2 DEF settle, nextHand

\* A card that ends a trick within a hand lets the best card on the table take it.
LEMMA BestCardTakesTrick ==
  ASSUME IInv, CardsInOrder, RecordIInv, phase = "PLAYING",
         NEW card, NEW own, NEW queued, Taken(card, own, queued),
         playTop(card, own, queued),
         trick # <<>>, trick' = <<>>, phase' = "PLAYING"
  PROVE  LET winner == Winner(OnTable \cup NewPlays, trick[1].card)
         IN  /\ turn' = winner
             /\ tricks' = [tricks EXCEPT ![winner] = @ + 1]
<1> DEFINE leader == IF trick = <<>> THEN turn ELSE trick_leader
           play   == [card |-> card, id |-> turn]
           stack  == Append(trick, play)
           new    == [card |-> card, id |-> turn, illegal |-> Renege(card, own[turn], trick)]
<1>1. leader = trick_leader
  OBVIOUS
<1>2. stack # <<>> /\ \A p \in played_cards : p.card # card
  BY StackInOrder
<1> HIDE DEF leader, stack, new, play
<1>3. \/ trick' = stack
      \/ /\ Len(stack) = Active
         /\ \E i \in 1 .. Active :
              /\ Takes(stack, i)
              /\ turn' = TurnOrder(leader)[i]
              /\ tricks' = [tricks EXCEPT ![TurnOrder(leader)[i]] = @ + 1]
         /\ played_cards' = played_cards \cup {new}
      \/ \E i \in 1 .. Active :
           LET winner == TurnOrder(leader)[i]
               won    == [tricks EXCEPT ![winner] = @ + 1]
           IN  lastTrick(winner, won, played_cards \cup {new}, own, queued)
  BY PlayTopSplits, Zenon DEF leader, stack, new, play
<1>4. /\ Len(stack) = Active
      /\ \E i \in 1 .. Active :
           /\ Takes(stack, i)
           /\ turn' = TurnOrder(leader)[i]
           /\ tricks' = [tricks EXCEPT ![TurnOrder(leader)[i]] = @ + 1]
      /\ played_cards' = played_cards \cup {new}
  BY <1>2, <1>3, HandOverIsNotPlay, Zenon
<1>5. PICK i \in 1 .. Active :
        /\ Takes(stack, i)
        /\ turn' = TurnOrder(leader)[i]
        /\ tricks' = [tricks EXCEPT ![TurnOrder(leader)[i]] = @ + 1]
  BY <1>4
<1>6. NewPlays = {play}
  <2>1. played_cards' \ played_cards = {new}
    <3>1. new \notin played_cards
      BY <1>2 DEF new
    <3> QED
      BY <1>4, <3>1
  <2>2. [card |-> new.card, id |-> new.id] = play
    BY DEF new, play
  <2> HIDE DEF new
  <2>3. {[card |-> p.card, id |-> p.id] : p \in {new}} = {play}
    BY <2>2
  <2> QED
    BY <2>1, <2>3 DEF NewPlays
<1>7. Winner(OnTable \cup {play}, trick[1].card) = TurnOrder(leader)[i]
  BY <1>1, <1>4, <1>5, FullTrickWinner DEF stack, play
<1> QED
  BY <1>5, <1>6, <1>7

\* A trick is taken off the table by the card that fills it.
LEMMA TricksEndByPlay ==
  ASSUME IInv, CardIInv, [Next]_vars, CleanLayDown, SingleCascade, trick # <<>>, trick' = <<>>
  PROVE  /\ phase = "PLAYING"
         /\ \E card, own, queued : /\ Taken(card, own, queued) /\ TakenWhole(card, own, queued)
                                   /\ playTop(card, own, queued)
<1>1. CardsInOrder /\ phase = "PLAYING" /\ turn \in Seat
  BY DEF CardIInv, CardsInOrder, IInv, ControlTypeOK
<1>2. ASSUME NEW s, NEW card, play_card(s, card)
      PROVE  \E top, own, queued : /\ Taken(top, own, queued) /\ TakenWhole(top, own, queued)
                                   /\ playTop(top, own, queued)
  <2> DEFINE own == [cards EXCEPT ![turn] = erase(@, card)]
  <2>1. Taken(card, own, premoves) /\ playTop(card, own, premoves)
    BY <1>2, PlayCardTakes
  <2>2. Holds(cards[turn], card)
    BY <1>2 DEF play_card, CardIInv, LoopsHaveWork
  <2>3. TakenWhole(card, own, premoves)
    BY <1>1, <2>2, WholeFromHand
  <2> HIDE DEF own
  <2> QED
    BY <2>1, <2>3
<1>3. CASE TurnMove
  <2>1. PICK s \in Human : Order(s) \/ Pass(s) \/ Discard(s) \/ PlayCard(s)
    BY <1>3 DEF TurnMove
  <2>2. \/ \E alone, suit : order(s, alone, suit)
        \/ pass(s)
        \/ \E card : discard(s, card)
        \/ \E card : play_card(s, card)
    BY <2>1, Zenon DEF Order, Pass, Discard, PlayCard
  <2> QED
    BY <1>1, <1>2, <2>2 DEF order, pass, discard, Voting
<1>4. CASE OtherRequest
  <2>1. ASSUME NEW s \in Human, Premove(s) \/ UndoPremove(s)
        PROVE  FALSE
    <3>1. (\E card : premove(s, card)) \/ undo_premove(s)
      BY <2>1, Zenon DEF Premove, UndoPremove
    <3> QED
      BY <3>1 DEF premove, undo_premove, table
  <2>2. ~\E s \in Human : LayDown(s)
    BY DEF CleanLayDown
  <2>3. ~Restart /\ ~Chat
    BY <1>1 DEF Restart, restart, Chat, table
  <2> QED
    BY <1>4, <2>1, <2>2, <2>3 DEF OtherRequest
<1>5. CASE Loop
  <2>1. CASE CascadeStep
    <3> DEFINE card   == fetched(premoves[turn])
               queued == [premoves EXCEPT ![turn] = Tail(@)]
    <3>1. Taken(card, cards, queued) /\ playTop(card, cards, queued)
      BY <2>1, CascadeTakes
    <3>2. TakenWhole(card, cards, queued)
      BY <1>1, <2>1, WholeFromQueue DEF SingleCascade
    <3> HIDE DEF card, queued
    <3> QED
      BY <1>1, <3>1, <3>2
  <2>2. CASE BotPlays
    <3>1. PICK card : play_card(turn, card)
      BY <2>2, Zenon DEF BotPlays
    <3> QED
      BY <1>1, <1>2, <3>1
  <2>3. ~CascadeThrows /\ ~BotVotes /\ ~BotDiscards /\ ~BotThrows
    BY <1>1 DEF CascadeThrows, BotVotes, BotDiscards, BotThrows, table, Voting
  <2> QED
    BY <1>5, <2>1, <2>2, <2>3 DEF Loop
<1>6. ~Join /\ ~Reboot /\ ~UNCHANGED vars
  BY DEF Join, Reboot, vars, table
<1> QED
  BY <1>1, <1>3, <1>4, <1>5, <1>6 DEF Next

\* A trick that is not the last but one goes to the best card on the table, trump and
\* the led suit considered with the left bauer, and its player leads the next (endTrick).
THEOREM TricksGoToTheBestCard ==
  Spec /\ [][CleanLayDown]_vars /\ [][SingleCascade]_vars => TrickGoesToBestCard
<1>1. ASSUME IInv, CardIInv, RecordIInv, [Next]_vars, [CleanLayDown]_vars,
             [SingleCascade]_vars, trick # <<>>, trick' = <<>>, phase' = "PLAYING"
      PROVE  LET winner == Winner(OnTable \cup NewPlays, trick[1].card)
             IN  /\ turn' = winner
                 /\ tricks' = [tricks EXCEPT ![winner] = @ + 1]
  <2>1. CardsInOrder /\ phase = "PLAYING"
    BY <1>1 DEF CardIInv, CardsInOrder
  <2>2. CleanLayDown /\ SingleCascade
    BY <1>1 DEF vars, table
  <2>3. PICK card, own, queued : Taken(card, own, queued) /\ playTop(card, own, queued)
    BY <1>1, <2>2, TricksEndByPlay
  <2> QED
    BY <1>1, <2>1, <2>3, BestCardTakesTrick
<1>2. IInv /\ CardIInv /\ RecordIInv /\ [Next]_vars /\ [CleanLayDown]_vars /\ [SingleCascade]_vars =>
        [trick # <<>> /\ trick' = <<>> /\ phase' = "PLAYING" =>
           LET winner == Winner(OnTable \cup NewPlays, trick[1].card)
           IN  /\ turn' = winner
               /\ tricks' = [tricks EXCEPT ![winner] = @ + 1]]_vars
  BY <1>1
<1> QED
  BY <1>2, RecordsStayTrue, CardsStayInOrder, ControlIsInOrder, PTL DEF Spec, TrickGoesToBestCard
-----------------------------------------------------------------------------
(* What a hand is worth *)

\* Partners sit two seats apart: the caller's team are the two seats endHand adds up.
LEMMA CallersSide ==
  ASSUME caller \in Seat
  PROVE  /\ caller % 2 \in Team /\ Partner(caller) \in {caller % 2, (caller % 2) + 2}
         /\ Partner(caller) \notin {1 - (caller % 2), 1 - (caller % 2) + 2}
         /\ \A won : won \in [Seat -> Nat] =>
              won[caller] + won[Partner(caller)] = won[caller % 2] + won[(caller % 2) + 2]
<1>1. caller = 0 \/ caller = 1 \/ caller = 2 \/ caller = 3
  BY FourSeats
<1>2. \A won : won \in [Seat -> Nat] =>
        won[0] \in Nat /\ won[1] \in Nat /\ won[2] \in Nat /\ won[3] \in Nat
  BY DEF Seat
<1>3. CASE caller = 0
  BY <1>2, <1>3 DEF Partner, Team
<1>4. CASE caller = 1
  BY <1>2, <1>4 DEF Partner, Team
<1>5. CASE caller = 2
  BY <1>2, <1>5 DEF Partner, Team
<1>6. CASE caller = 3
  BY <1>2, <1>6 DEF Partner, Team
<1> QED
  BY <1>1, <1>3, <1>4, <1>5, <1>6

\* The tricks of a hand decide its score as the rules have it.
LEMMA HandIsScored ==
  ASSUME IInv, phase = "PLAYING", NEW won \in [Seat -> Nat], Total(won) = CardsPerHand,
         NEW last, NEW left, endHand(won, last, left)
  PROVE  LET result == Outcome(won)
         IN  scores' = [scores EXCEPT ![result.team] = @ + result.points]
<1> DEFINE t0     == won[0] + won[2]
           t1     == won[1] + won[3]
           winner == IF t0 > t1 THEN 0 ELSE 1
           sweep  == CardsPerHand \in {t0, t1}
           alone  == {winner, winner + 2} \cap sitting_out # {}
           makers == caller % 2
           made   == won[caller] + won[Partner(caller)]
           points == worth(sweep, alone, makers # winner)
<1>1. scores' = [scores EXCEPT ![winner] = @ + points]
  BY Zenon DEF endHand, settle
<1>2. /\ t0 \in Nat /\ t1 \in Nat /\ t0 + t1 = CardsPerHand
  BY DEF Total, Seat
<1>3. CardsPerHand \in Nat /\ CardsPerHand > 1 /\ CardsPerHand % 2 = 1
  BY GameAssumption
<1>4. makers \in {0, 1} /\ made = IF makers = 0 THEN t0 ELSE t1
  <2>1. /\ makers \in {0, 1}
        /\ made = won[makers] + won[makers + 2]
    BY CallersSide DEF IInv, ControlTypeOK, Team
  <2>2. won[0] + won[0 + 2] = t0 /\ won[1] + won[1 + 2] = t1
    OBVIOUS
  <2> HIDE DEF makers, made, t0, t1
  <2> QED
    BY <2>1, <2>2
<1>5. sitting_out \subseteq {Partner(caller)}
  BY DEF IInv, SitterIsCallersPartner
<1>6. /\ winner = makers => (alone <=> sitting_out # {})
      /\ winner = 1 - makers => ~alone
  <2>1. Partner(caller) \in {makers, makers + 2} /\ Partner(caller) \notin {1 - makers, 1 - makers + 2}
    BY CallersSide DEF IInv, ControlTypeOK
  <2> HIDE DEF makers, winner
  <2> QED
    BY <1>5, <2>1
<1> HIDE DEF t0, t1, makers, made, alone
<1>7. t0 # t1
  <2>1. ASSUME t0 = t1
        PROVE  FALSE
    <3>1. CardsPerHand = 2 * t0
      BY <1>2, <2>1
    <3>2. (2 * t0) % 2 = 0
      BY <1>2
    <3> QED
      BY <1>3, <3>1, <3>2
  <2> QED
    BY <2>1
<1>8. /\ winner = makers <=> 2 * made > CardsPerHand
      /\ winner = makers => (sweep <=> made = CardsPerHand)
      /\ winner \in {0, 1}
      /\ made = CardsPerHand => 2 * made > CardsPerHand
  BY <1>2, <1>3, <1>4, <1>7
<1> HIDE DEF winner, sweep
<1>9. Outcome(won) = [team |-> winner, points |-> points]
  <2>1. Outcome(won) =
          IF made = CardsPerHand THEN [team |-> makers, points |-> IF sitting_out # {} THEN 4 ELSE 2]
          ELSE IF 2 * made > CardsPerHand THEN [team |-> makers, points |-> 1]
          ELSE [team |-> 1 - makers, points |-> 2]
    BY Zenon DEF Outcome, made, makers
  <2>2. CASE winner = makers
    <3>1. points = IF sweep /\ alone THEN 4 ELSE IF sweep THEN 2 ELSE 1
      BY <2>2 DEF worth
    <3> QED
      BY <1>6, <1>8, <2>1, <2>2, <3>1
  <2>3. CASE winner # makers
    <3>1. winner = 1 - makers
      BY <1>4, <1>8, <2>3
    <3>2. points = 2
      BY <1>6, <2>3, <3>1 DEF worth
    <3> QED
      BY <1>8, <2>1, <2>3, <3>1, <3>2
  <2> QED
    BY <2>2, <2>3
<1> HIDE DEF points
<1>10. Outcome(won).team = winner /\ Outcome(won).points = points
  BY <1>9
<1> QED
  BY <1>1, <1>10

\* The last trick, which the server plays, is a trick like any other: a card of every
\* seat that plays, in order, no card twice, and the hand is scored with it.
LastTrickDecides(leader, won, played, own, queued) ==
  /\ played \subseteq played_cards'
  /\ \E stack \in Seq(Play), i \in 1 .. Active :
       /\ DOMAIN stack = 1 .. Active /\ stack # <<>>
       /\ \A k \in 1 .. Active :
            /\ stack[k].id = TurnOrder(leader)[k] /\ stack[k].id \in Seat
            /\ stack[k].card \in Range(own[stack[k].id]) \cup Range(queued[stack[k].id])
       /\ \A j, k \in 1 .. Active : stack[j].card = stack[k].card => j = k
       /\ {[card |-> p.card, id |-> p.id] : p \in played_cards' \ played}
            = {stack[k] : k \in 1 .. Active}
       /\ Takes(stack, i)
       /\ \E left : endHand([won EXCEPT ![TurnOrder(leader)[i]] = @ + 1],
                            TurnOrder(leader)[i], left)

\* The server plays the last trick as people would play it (the loop in endTrick).
LEMMA LastTrickIsATrick ==
  ASSUME IInv, NEW leader \in Seat \ sitting_out, NEW won, NEW played,
         NEW own \in [Seat -> Seq(Card)], NEW queued \in [Seat -> Seq(Card)],
         \A s \in Seat \ sitting_out : Len(own[s]) + Len(queued[s]) = 1,
         \A s, t \in Seat : s # t => (Range(own[s]) \cup Range(queued[s]))
                                       \cap (Range(own[t]) \cup Range(queued[t])) = {},
         \A p \in played, s \in Seat : p.card \notin Range(own[s]) \cup Range(queued[s]),
         lastTrick(leader, won, played, own, queued)
  PROVE  LastTrickDecides(leader, won, played, own, queued)
<1> DEFINE card(s)      == fetched(IF own[s] # <<>> THEN own[s] ELSE queued[s])
           plays(o)     == {o[i] : i \in 1 .. Active}
           rest(o, s)   == IF s \in plays(o) /\ own[s] # <<>> THEN Tail(own[s]) ELSE own[s]
           verdict(o, t, i) == Renege(t[i].card, rest(o, o[i]), SubSeq(t, 1, i - 1))
           walk         == TurnOrder(leader)
           full         == [i \in 1 .. Active |-> [card |-> card(walk[i]), id |-> walk[i]]]
           rec(i)       == [card |-> full[i].card, id |-> walk[i], illegal |-> verdict(walk, full, i)]
<1>1. /\ played_cards' = played \cup {rec(i) : i \in 1 .. Active}
      /\ \E i \in 1 .. Active :
           /\ Takes(full, i)
           /\ \E left : endHand([won EXCEPT ![walk[i]] = @ + 1], walk[i], left)
  <2>1. PICK seats \in {TurnOrder(leader)} :
          \E stack \in {[i \in 1 .. Active |-> [card |-> card(seats[i]), id |-> seats[i]]]} :
            /\ played_cards' = played \cup
                 {[card |-> stack[i].card, id |-> seats[i],
                   illegal |-> verdict(seats, stack, i)] : i \in 1 .. Active}
            /\ \E i \in 1 .. Active :
                 /\ Takes(stack, i)
                 /\ endHand([won EXCEPT ![seats[i]] = @ + 1], seats[i],
                            [s \in Seat |-> rest(seats, s)])
    BY Zenon DEF lastTrick
  <2>2. PICK stack \in {[i \in 1 .. Active |-> [card |-> card(seats[i]), id |-> seats[i]]]} :
          /\ played_cards' = played \cup
               {[card |-> stack[i].card, id |-> seats[i],
                 illegal |-> verdict(seats, stack, i)] : i \in 1 .. Active}
          /\ \E i \in 1 .. Active :
               /\ Takes(stack, i)
               /\ endHand([won EXCEPT ![seats[i]] = @ + 1], seats[i],
                          [s \in Seat |-> rest(seats, s)])
    BY <2>1
  <2>3. seats = walk /\ stack = full
    OBVIOUS
  <2> HIDE DEF walk, verdict, rest, full
  <2> QED
    BY <2>2, <2>3, Zenon
<1>2. /\ Active \in {3, 4}
      /\ \A i \in 1 .. Active : walk[i] \in Seat \ sitting_out
      /\ \A i, j \in 1 .. Active : walk[i] = walk[j] => i = j
  <2>1. sitting_out \subseteq {Partner(caller)} /\ Partner(caller) \in Seat
    BY SeatsStay DEF IInv, ControlTypeOK, SitterIsCallersPartner
  <2> QED
    BY <2>1, TurnOrderGoesRound
<1>3. \A s \in Seat \ sitting_out :
        card(s) \in Card /\ card(s) \in Range(own[s]) \cup Range(queued[s])
  BY OneCardLeft
<1> HIDE DEF card, verdict, walk
<1>4. /\ DOMAIN full = 1 .. Active
      /\ \A i \in 1 .. Active : full[i] = [card |-> card(walk[i]), id |-> walk[i]]
  OBVIOUS
<1>5. \A i \in 1 .. Active :
        /\ full[i].card = card(walk[i]) /\ full[i].id = walk[i] /\ full[i] \in Play
        /\ full[i].card \in Range(own[walk[i]]) \cup Range(queued[walk[i]])
  BY <1>2, <1>3, <1>4 DEF Play
<1>6. full \in Seq(Play) /\ full # <<>>
  <2>1. full \in [1 .. Active -> Play] /\ Active \in Nat
    BY <1>2, <1>5
  <2>2. full \in Seq(Play)
    BY <2>1, SeqDef
  <2> HIDE DEF full
  <2>3. 1 \in DOMAIN full
    BY <1>2, <1>4
  <2> QED
    BY <2>2, <2>3
<1> HIDE DEF full
<1>7. \A j, k \in 1 .. Active : full[j].card = full[k].card => j = k
  <2>1. ASSUME NEW j \in 1 .. Active, NEW k \in 1 .. Active, full[j].card = full[k].card
        PROVE  walk[j] = walk[k]
    <3>1. walk[j] \in Seat /\ walk[k] \in Seat
      BY <1>2
    <3>2. /\ full[j].card \in Range(own[walk[j]]) \cup Range(queued[walk[j]])
          /\ full[k].card \in Range(own[walk[k]]) \cup Range(queued[walk[k]])
      BY <1>5
    <3> QED
      BY <2>1, <3>1, <3>2
  <2> QED
    BY <1>2, <2>1
<1>8. \A i \in 1 .. Active : /\ rec(i).card = full[i].card /\ rec(i).id = full[i].id
                             /\ [card |-> rec(i).card, id |-> rec(i).id] = full[i]
  BY <1>4, <1>5
<1> HIDE DEF rec
<1>9. played_cards' \ played = {rec(i) : i \in 1 .. Active}
  <2>1. \A i \in 1 .. Active : rec(i) \notin played
    BY <1>2, <1>5, <1>8
  <2> QED
    BY <1>1, <2>1
<1>10. {[card |-> p.card, id |-> p.id] : p \in played_cards' \ played}
         = {full[k] : k \in 1 .. Active}
  <2> DEFINE as(p) == [card |-> p.card, id |-> p.id]
  <2>1. \A i \in 1 .. Active : as(rec(i)) = full[i]
    BY <1>8
  <2> HIDE DEF as
  <2>2. {as(p) : p \in {rec(i) : i \in 1 .. Active}} = {full[k] : k \in 1 .. Active}
    <3>1. {as(p) : p \in {rec(i) : i \in 1 .. Active}} = {as(rec(i)) : i \in 1 .. Active}
      OBVIOUS
    <3>2. {as(rec(i)) : i \in 1 .. Active} = {full[k] : k \in 1 .. Active}
      BY <2>1
    <3> QED
      BY <3>1, <3>2
  <2> QED
    BY <1>9, <2>2 DEF as
<1>11. played \subseteq played_cards'
  BY <1>1
<1>12. PICK i \in 1 .. Active :
         /\ Takes(full, i)
         /\ \E left : endHand([won EXCEPT ![walk[i]] = @ + 1], walk[i], left)
  BY <1>1
<1>13. \A k \in 1 .. Active :
         /\ full[k].id = walk[k] /\ full[k].id \in Seat
         /\ full[k].card \in Range(own[full[k].id]) \cup Range(queued[full[k].id])
  BY <1>2, <1>5
<1> QED
  BY <1>4, <1>6, <1>7, <1>10, <1>11, <1>12, <1>13, Zenon DEF walk, LastTrickDecides

\* What is left when a card has been taken is apart from it, from the record, and from
\* what others hold.
LEMMA LeftIsApart ==
  ASSUME RecordIInv, phase = "PLAYING", turn \in Seat,
         NEW card, NEW own, NEW queued, Taken(card, own, queued), TakenWhole(card, own, queued)
  PROVE  LET held(s) == Range(own[s]) \cup Range(queued[s])
         IN  /\ \A s, t \in Seat : s # t => held(s) \cap held(t) = {}
             /\ \A s \in Seat : card \notin held(s)
             /\ \A p \in played_cards, s \in Seat : p.card \notin held(s)
<1> DEFINE held(s) == Range(own[s]) \cup Range(queued[s])
<1>1. held(turn) = Held(turn) \ {card} /\ card \in Held(turn)
  BY HeldAsRange DEF Taken, TakenWhole
<1>2. \A s \in Seat \ {turn} : held(s) = Held(s)
  <2>1. \A s \in Seat \ {turn} : own[s] = cards[s] /\ queued[s] = premoves[s]
    BY DEF Taken
  <2> QED
    BY <2>1, HeldAsRange
<1>3. \A s, t \in Seat : s # t => Held(s) \cap Held(t) = {}
  BY DEF RecordIInv, HandsApart, Waiting
<1>4. \A p \in played_cards, s \in Seat : p.card \notin Held(s)
  BY DEF RecordIInv, PlayedOnce
<1> HIDE DEF held
<1>5. \A s \in Seat : held(s) \subseteq Held(s) /\ card \notin held(s)
  BY <1>1, <1>2, <1>3
<1>6. \A s, t \in Seat : s # t => held(s) \cap held(t) = {}
  BY <1>3, <1>5
<1>7. \A p \in played_cards, s \in Seat : p.card \notin held(s)
  BY <1>4, <1>5
<1> QED
  BY <1>5, <1>6, <1>7 DEF held

\* A card that ends a hand decides two tricks, and with them the score, by the rules.
LEMMA HandGoesByTheRules ==
  ASSUME IInv, CardsInOrder, RecordIInv, phase = "PLAYING",
         NEW card, NEW own, NEW queued, Taken(card, own, queued), TakenWhole(card, own, queued),
         playTop(card, own, queued),
         trick # <<>>, trick' = <<>>, phase' # "PLAYING"
  PROVE  \E play \in NewPlays :
           LET first  == Winner(OnTable \cup {play}, trick[1].card)
               last   == NewPlays \ {play}
               led    == (CHOOSE p \in last : p.id = first).card
               second == Winner(last, led)
               won1   == [tricks EXCEPT ![first] = @ + 1]
               result == Outcome([won1 EXCEPT ![second] = @ + 1])
           IN  /\ play.id = turn
               /\ scores' = [scores EXCEPT ![result.team] = @ + result.points]
<1> DEFINE play   == [card |-> card, id |-> turn]
           stack  == Append(trick, play)
           new    == [card |-> card, id |-> turn, illegal |-> Renege(card, own[turn], trick)]
           played == played_cards \cup {new}
           held(s) == Range(own[s]) \cup Range(queued[s])
<1>1. /\ stack # <<>> /\ Len(stack) = Len(trick) + 1
      /\ \A p \in played_cards : p.card # card
  BY StackInOrder
<1>2. new.card = card /\ new.id = turn /\ [card |-> new.card, id |-> new.id] = play
      /\ play.id = turn /\ play.card = card
  OBVIOUS
<1> HIDE DEF stack, new, play
<1>3. /\ Len(stack) = Active
      /\ \E i \in 1 .. Active :
           LET winner == TurnOrder(trick_leader)[i]
               won    == [tricks EXCEPT ![winner] = @ + 1]
           IN  /\ Takes(stack, i) /\ lastTrickDue(won)
               /\ lastTrick(winner, won, played, own, queued)
  <2>1. \/ trick' = stack
        \/ phase' = phase
        \/ /\ Len(stack) = Active
           /\ \E i \in 1 .. Active :
                LET winner == TurnOrder(IF trick = <<>> THEN turn ELSE trick_leader)[i]
                    won    == [tricks EXCEPT ![winner] = @ + 1]
                IN  /\ Takes(stack, i) /\ lastTrickDue(won)
                    /\ lastTrick(winner, won, played, own, queued)
    BY PlayTopSplits, Zenon DEF stack, new, play
  <2>2. (IF trick = <<>> THEN turn ELSE trick_leader) = trick_leader
    OBVIOUS
  <2> QED
    BY <1>1, <2>1, <2>2, Zenon
<1>4. PICK i \in 1 .. Active :
        LET winner == TurnOrder(trick_leader)[i]
            won    == [tricks EXCEPT ![winner] = @ + 1]
        IN  /\ Takes(stack, i) /\ lastTrickDue(won)
            /\ lastTrick(winner, won, played, own, queued)
  BY <1>3
<1> DEFINE winner == TurnOrder(trick_leader)[i]
           won    == [tricks EXCEPT ![winner] = @ + 1]
<1>5. Takes(stack, i) /\ lastTrickDue(won) /\ lastTrick(winner, won, played, own, queued)
  BY <1>4
<1>6. /\ sitting_out \subseteq {Partner(caller)} /\ Partner(caller) \in Seat
      /\ turn \in Seat /\ tricks \in [Seat -> Nat] /\ trump \in Suit
  BY SeatsStay DEF IInv, ControlTypeOK, SitterIsCallersPartner, CardsInOrder, CardTypeOK
<1>7. trick_leader \in Seat \ sitting_out /\ Len(trick) + 1 = Active
  BY <1>1, <1>3, TrickSoFar
<1>8. winner \in Seat \ sitting_out
  BY <1>6, <1>7, TurnOrderGoesRound
<1> HIDE DEF winner
<1>9. /\ won \in [Seat -> Nat] /\ Total(won) = Total(tricks) + 1 /\ Total(tricks) \in Nat
      /\ Total(won) = CardsPerHand - 1
  <2>1. /\ won \in [Seat -> Nat] /\ Total(won) = Total(tricks) + 1 /\ Total(tricks) \in Nat
    BY <1>6, <1>8, TallyGrows
  <2> QED
    BY <1>5, <2>1 DEF lastTrickDue
<1> HIDE DEF won
<1>10. \A s \in Seat \ sitting_out : Len(own[s]) + Len(queued[s]) = 1
  <2>1. \A s \in Seat :
          /\ Len(own[s]) + Len(queued[s]) =
               CardsPerHand - IF s \in sitting_out THEN 0 ELSE Total(tricks) + 1
          /\ s \in sitting_out => queued[s] = <<>>
    BY <1>7, FullTrickSizes
  <2>2. \A s \in Seat \ sitting_out :
          Len(own[s]) + Len(queued[s]) = CardsPerHand - (Total(tricks) + 1)
    BY <2>1
  <2>3. CardsPerHand - (Total(tricks) + 1) = 1
    BY <1>9, GameAssumption
  <2> QED
    BY <2>2, <2>3
<1>11. /\ \A s, t \in Seat : s # t => held(s) \cap held(t) = {}
       /\ \A s \in Seat : card \notin held(s)
       /\ \A p \in played, s \in Seat : p.card \notin held(s)
  <2>1. /\ \A s, t \in Seat : s # t => held(s) \cap held(t) = {}
        /\ \A s \in Seat : card \notin held(s)
        /\ \A p \in played_cards, s \in Seat : p.card \notin held(s)
    BY <1>6, LeftIsApart
  <2> HIDE DEF held
  <2> QED
    BY <1>2, <2>1
<1>12. own \in [Seat -> Seq(Card)] /\ queued \in [Seat -> Seq(Card)]
  BY DEF Taken
<1> HIDE DEF played
<1>13. LastTrickDecides(winner, won, played, own, queued)
  <2>1. /\ \A s, t \in Seat : s # t => (Range(own[s]) \cup Range(queued[s]))
                                         \cap (Range(own[t]) \cup Range(queued[t])) = {}
        /\ \A p \in played, s \in Seat : p.card \notin Range(own[s]) \cup Range(queued[s])
    BY <1>11
  <2>2. lastTrick(winner, won, played, own, queued)
    BY <1>5
  <2> HIDE DEF held
  <2> QED
    BY <1>8, <1>10, <1>12, <2>1, <2>2, LastTrickIsATrick
<1>14. PICK full \in Seq(Play), j \in 1 .. Active :
         /\ DOMAIN full = 1 .. Active /\ full # <<>>
         /\ \A k \in 1 .. Active :
              /\ full[k].id = TurnOrder(winner)[k] /\ full[k].id \in Seat
              /\ full[k].card \in held(full[k].id)
         /\ \A k, m \in 1 .. Active : full[k].card = full[m].card => k = m
         /\ {[card |-> p.card, id |-> p.id] : p \in played_cards' \ played}
              = {full[k] : k \in 1 .. Active}
         /\ Takes(full, j)
         /\ \E left : endHand([won EXCEPT ![TurnOrder(winner)[j]] = @ + 1],
                              TurnOrder(winner)[j], left)
  BY <1>13, Zenon DEF LastTrickDecides
<1> HIDE DEF held
<1> DEFINE plays == {full[k] : k \in 1 .. Active}
           as(p) == [card |-> p.card, id |-> p.id]
<1>15. NewPlays = plays \cup {play}
  <2>1. new \notin played_cards /\ as(new) = play
    BY <1>1, <1>2
  <2>2. played_cards' \ played_cards = (played_cards' \ played) \cup {new}
    <3>1. played \subseteq played_cards'
      BY <1>13 DEF LastTrickDecides
    <3> QED
      BY <2>1, <3>1 DEF played
  <2>3. {as(p) : p \in played_cards' \ played} = plays
    BY <1>14
  <2> HIDE DEF as, plays
  <2>4. {as(p) : p \in played_cards' \ played_cards} = plays \cup {play}
    BY <2>1, <2>2, <2>3
  <2> QED
    BY <2>4 DEF NewPlays, as
<1>16. play \notin plays
  BY <1>2, <1>11, <1>14
<1>17. NewPlays \ {play} = plays /\ play \in NewPlays
  <2> HIDE DEF plays
  <2> QED
    BY <1>15, <1>16
<1>18. Winner(OnTable \cup {play}, trick[1].card) = winner
  BY <1>3, <1>5, FullTrickWinner DEF stack, play, winner
<1>19. /\ Active \in {3, 4} /\ TurnOrder(winner)[1] = winner
       /\ \A k, m \in 1 .. Active : TurnOrder(winner)[k] = TurnOrder(winner)[m] => k = m
       /\ \A k \in 1 .. Active : TurnOrder(winner)[k] \in Seat
  <2>1. /\ Active \in {3, 4} /\ TurnOrder(winner)[1] = winner
        /\ \A k, m \in 1 .. Active : TurnOrder(winner)[k] = TurnOrder(winner)[m] => k = m
        /\ \A k \in 1 .. Active : TurnOrder(winner)[k] \in Seat \ sitting_out
    BY <1>6, <1>8, TurnOrderGoesRound
  <2> QED
    BY <2>1
<1>20. (CHOOSE p \in plays : p.id = winner) = full[1]
  <2>1. 1 \in 1 .. Active
    BY <1>19
  <2>2. full[1] \in plays /\ full[1].id = winner
    BY <1>14, <1>19, <2>1
  <2>3. \A p \in plays : p.id = winner => p = full[1]
    BY <1>14, <1>19, <2>1
  <2> HIDE DEF plays
  <2> QED
    BY <2>2, <2>3
<1>21. Winner(plays, full[1].card) = TurnOrder(winner)[j]
  <2>1. /\ full \in Seq(Play) /\ full # <<>> /\ j \in DOMAIN full
        /\ Takes(full, j) /\ full[j].id \in Seat /\ full[j].id = TurnOrder(winner)[j]
        /\ \A k, m \in DOMAIN full : full[k].card = full[m].card => k = m
    BY <1>14
  <2>2. Winner({full[k] : k \in DOMAIN full}, full[1].card) = full[j].id
    BY <1>6, <2>1, WinnerTakes
  <2> QED
    BY <1>14, <2>1, <2>2
<1> DEFINE final == [won EXCEPT ![TurnOrder(winner)[j]] = @ + 1]
<1>22. final \in [Seat -> Nat] /\ Total(final) = CardsPerHand
  <2>1. TurnOrder(winner)[j] \in Seat
    BY <1>19
  <2>2. final \in [Seat -> Nat] /\ Total(final) = Total(won) + 1
    BY <1>9, <2>1, TallyGrows
  <2> HIDE DEF final
  <2> QED
    BY <1>9, <2>2, GameAssumption
<1>23. scores' = [scores EXCEPT ![Outcome(final).team] = @ + Outcome(final).points]
  <2>1. PICK left : endHand(final, TurnOrder(winner)[j], left)
    BY <1>14
  <2> HIDE DEF final
  <2> QED
    BY <1>22, <2>1, HandIsScored
<1> HIDE DEF plays
<1>24. LET first  == Winner(OnTable \cup {play}, trick[1].card)
           last   == NewPlays \ {play}
           led    == (CHOOSE p \in last : p.id = first).card
           second == Winner(last, led)
           won1   == [tricks EXCEPT ![first] = @ + 1]
           result == Outcome([won1 EXCEPT ![second] = @ + 1])
       IN  scores' = [scores EXCEPT ![result.team] = @ + result.points]
  BY <1>17, <1>18, <1>20, <1>21, <1>23, Zenon DEF final, won
<1> QED
  BY <1>2, <1>17, <1>24, Zenon

\* A hand that is played out is scored by the rules: the last two tricks, of which the
\* server plays the second, go to their best cards, and the tricks decide (endHand).
THEOREM HandsAreScoredByTheRules ==
  Spec /\ [][CleanLayDown]_vars /\ [][SingleCascade]_vars => HandScoredByRules
<1> DEFINE goes ==
      \E play \in NewPlays :
        LET first  == Winner(OnTable \cup {play}, trick[1].card)
            last   == NewPlays \ {play}
            led    == (CHOOSE p \in last : p.id = first).card
            second == Winner(last, led)
            won1   == [tricks EXCEPT ![first] = @ + 1]
            result == Outcome([won1 EXCEPT ![second] = @ + 1])
        IN  /\ play.id = turn
            /\ scores' = [scores EXCEPT ![result.team] = @ + result.points]
<1>1. ASSUME IInv, CardIInv, RecordIInv, [Next]_vars, [CleanLayDown]_vars,
             [SingleCascade]_vars, trick # <<>>, trick' = <<>>, phase' # "PLAYING"
      PROVE  goes
  <2>1. CardsInOrder /\ CleanLayDown /\ SingleCascade
    BY <1>1 DEF CardIInv, vars, table
  <2>2. PICK card, own, queued :
          /\ Taken(card, own, queued) /\ TakenWhole(card, own, queued)
          /\ playTop(card, own, queued)
    BY <1>1, <2>1, TricksEndByPlay
  <2>3. phase = "PLAYING"
    BY <1>1, <2>1, TricksEndByPlay
  <2> QED
    BY <1>1, <2>1, <2>2, <2>3, HandGoesByTheRules, Zenon
<1> HIDE DEF goes
<1>2. IInv /\ CardIInv /\ RecordIInv /\ [Next]_vars /\ [CleanLayDown]_vars /\ [SingleCascade]_vars =>
        [trick # <<>> /\ trick' = <<>> /\ phase' # "PLAYING" => goes]_vars
  BY <1>1
<1>3. HandScoredByRules <=>
        [][trick # <<>> /\ trick' = <<>> /\ phase' # "PLAYING" => goes]_vars
  BY PTL DEF HandScoredByRules, goes
<1> QED
  BY <1>2, <1>3, RecordsStayTrue, CardsStayInOrder, ControlIsInOrder, PTL DEF Spec
-----------------------------------------------------------------------------
(* One premove at a time *)

\* Where one card is premoved at a time, no queue is longer.
QueuesAreShort == \A s \in Seat : Len(premoves[s]) =< 1

\* A card played makes no queue longer.
LEMMA PlayKeepsQueuesShort ==
  ASSUME IInv, CardsInOrder, CardsInOrder', phase = "PLAYING",
         NEW card, NEW own, NEW queued, Taken(card, own, queued),
         playTop(card, own, queued), \A s \in Seat : Len(queued[s]) =< 1
  PROVE  QueuesAreShort'
<1>1. premoves' = queued \/ phase' # "PLAYING"
  <2>1. \/ premoves' = queued
        \/ \E leader, won, played : lastTrick(leader, won, played, own, queued)
    BY PlayTopSplits, Zenon
  <2> QED
    BY <2>1, HandOverIsNotPlay
<1>2. CASE premoves' = queued
  BY <1>2 DEF QueuesAreShort
<1>3. CASE phase' # "PLAYING"
  <2>1. \A s \in Seat : premoves'[s] = <<>>
    BY <1>3 DEF CardsInOrder, QueuesArePlayers
  <2> QED
    BY <2>1 DEF QueuesAreShort
<1> QED
  BY <1>1, <1>2, <1>3

\* Where one card may be queued no queue is longer than that, whatever the step.
LEMMA NextKeepsQueuesShort ==
  ASSUME MaxPremoves =< 1, IInv, CardIInv, CardIInv', QueuesAreShort, [Next]_vars
  PROVE  QueuesAreShort'
<1>1. /\ CardsInOrder /\ CardsInOrder' /\ turn \in Seat
      /\ premoves \in [Seat -> Seq(Card)] /\ MaxPremoves \in Nat
  BY GameAssumption DEF CardIInv, CardsInOrder, CardTypeOK, IInv, ControlTypeOK
<1>2. CASE UNCHANGED premoves
  BY <1>2 DEF QueuesAreShort
<1>3. ASSUME NEW s, NEW card, play_card(s, card)
      PROVE  QueuesAreShort'
  <2> DEFINE own == [cards EXCEPT ![turn] = erase(@, card)]
  <2>1. phase = "PLAYING" /\ Taken(card, own, premoves) /\ playTop(card, own, premoves)
    BY <1>3, PlayCardTakes
  <2> HIDE DEF own
  <2> QED
    BY <1>1, <2>1, PlayKeepsQueuesShort DEF QueuesAreShort
<1>4. CASE CascadeStep
  <2> DEFINE card   == fetched(premoves[turn])
             queued == [premoves EXCEPT ![turn] = Tail(@)]
  <2>1. phase = "PLAYING" /\ Taken(card, cards, queued) /\ playTop(card, cards, queued)
    BY <1>4, CascadeTakes
  <2>2. premoves[turn] # <<>>
    BY <1>4 DEF CascadeStep, CardIInv, LoopsHaveWork, premoveAvailable
  <2>3. Len(Tail(premoves[turn])) = Len(premoves[turn]) - 1 /\ Len(premoves[turn]) \in Nat
    BY <1>1, <2>2, HeadTailProperties, LenProperties
  <2>4. /\ queued[turn] = Tail(premoves[turn])
        /\ \A s \in Seat \ {turn} : queued[s] = premoves[s]
    BY <1>1
  <2> HIDE DEF card, queued
  <2>5. \A s \in Seat : Len(queued[s]) =< 1
    <3>1. Len(premoves[turn]) =< 1 /\ \A s \in Seat \ {turn} : Len(premoves[s]) =< 1
      BY <1>1 DEF QueuesAreShort
    <3>2. Len(queued[turn]) =< 1
      BY <2>3, <2>4, <3>1
    <3>3. \A s \in Seat \ {turn} : Len(queued[s]) =< 1
      BY <2>4, <3>1
    <3> QED
      BY <3>2, <3>3
  <2> QED
    BY <1>1, <2>1, <2>5, PlayKeepsQueuesShort
<1>5. CASE TurnMove
  <2>1. PICK s \in Human : Order(s) \/ Pass(s) \/ Discard(s) \/ PlayCard(s)
    BY <1>5 DEF TurnMove
  <2>2. \/ \E alone, suit : order(s, alone, suit)
        \/ pass(s)
        \/ \E card : discard(s, card)
        \/ \E card : play_card(s, card)
    BY <2>1, Zenon DEF Order, Pass, Discard, PlayCard
  <2> QED
    BY <1>2, <1>3, <2>2 DEF order, pass, discard, hands
<1>6. CASE OtherRequest
  <2>1. ASSUME NEW s \in Human, Premove(s)
        PROVE  QueuesAreShort'
    <3>1. s \in Seat /\ Len(premoves[s]) < MaxPremoves
      BY <2>1 DEF Premove, Human
    <3>2. PICK card \in InHand(s) : premove(s, card)
      BY <2>1, Zenon DEF Premove
    <3>3. /\ premoves' = [premoves EXCEPT ![s] = Append(premoves[s], card)]
          /\ card \in Card
      BY <1>1, <3>1, <3>2 DEF premove, InHand, CardsInOrder, CardTypeOK
    <3>4. Len(Append(premoves[s], card)) = Len(premoves[s]) + 1 /\ Len(premoves[s]) \in Nat
      BY <1>1, <3>1, <3>3, AppendProperties, LenProperties
    <3>5. /\ Len(premoves'[s]) =< 1
          /\ \A t \in Seat \ {s} : premoves'[t] = premoves[t]
      BY <1>1, <3>1, <3>3, <3>4
    <3> QED
      BY <3>5 DEF QueuesAreShort
  <2>2. ASSUME NEW s \in Human, UndoPremove(s)
        PROVE  QueuesAreShort'
    <3>1. premoves' = [premoves EXCEPT ![s] = <<>>]
      BY <2>2 DEF UndoPremove, undo_premove
    <3>2. \A t \in Seat : premoves'[t] = <<>> \/ premoves'[t] = premoves[t]
      BY <1>1, <3>1
    <3> QED
      BY <3>2 DEF QueuesAreShort
  <2>3. CASE Restart \/ Chat \/ \E s \in Human : LayDown(s)
    BY <1>2, <2>3 DEF Restart, restart, Chat, LayDown, lay_down, hands
  <2> QED
    BY <1>6, <2>1, <2>2, <2>3 DEF OtherRequest
<1>7. CASE Loop
  <2>1. CASE CascadeThrows
    BY <2>1 DEF CascadeThrows, CardIInv, LoopsHaveWork
  <2>2. CASE BotVotes
    <3>1. (\E alone, suit : order(turn, alone, suit)) \/ pass(turn)
      BY <2>2, Zenon DEF BotVotes
    <3> QED
      BY <1>2, <3>1 DEF order, pass, hands
  <2>3. CASE BotDiscards \/ BotThrows
    BY <1>2, <2>3 DEF BotDiscards, discard, BotThrows, hands
  <2>4. CASE BotPlays
    <3>1. \E card : play_card(turn, card)
      BY <2>4, Zenon DEF BotPlays
    <3> QED
      BY <1>3, <3>1
  <2> QED
    BY <1>4, <1>7, <2>1, <2>2, <2>3, <2>4 DEF Loop
<1>8. CASE Join \/ Reboot \/ UNCHANGED vars
  BY <1>2, <1>8 DEF Join, Reboot, vars, hands
<1> QED
  BY <1>5, <1>6, <1>7, <1>8 DEF Next

\* So it is in every room of a server that offers no lay_down to clients that premove
\* one card at a time.
THEOREM RecordsStayTrueOneByOne ==
  ASSUME "lay_down" \notin Allowed, MaxPremoves =< 1
  PROVE  Spec => []RecordIInv
<1>1. Init => QueuesAreShort
  BY DEF Init, QueuesAreShort
<1>2. IInv /\ CardIInv /\ CardIInv' /\ QueuesAreShort /\ [Next]_vars => QueuesAreShort'
  BY NextKeepsQueuesShort
<1>3. IInv /\ CardIInv /\ QueuesAreShort => SingleCascade
  <2> SUFFICES ASSUME IInv, CardIInv, QueuesAreShort, CascadeStep
               PROVE  Len(premoves[turn]) = 1
    BY DEF SingleCascade
  <2>1. premoves[turn] # <<>> /\ turn \in Seat
    BY DEF CascadeStep, CardIInv, LoopsHaveWork, premoveAvailable, IInv, ControlTypeOK
  <2>2. premoves[turn] \in Seq(Card)
    BY <2>1 DEF CardIInv, CardsInOrder, CardTypeOK
  <2>3. Len(premoves[turn]) \in Nat /\ Len(premoves[turn]) # 0
    BY <2>1, <2>2, LenProperties, EmptySeq
  <2>4. Len(premoves[turn]) =< 1
    BY <2>1 DEF QueuesAreShort
  <2>5. \A n \in Nat : n # 0 /\ n =< 1 => n = 1
    OBVIOUS
  <2> QED
    BY <2>3, <2>4, <2>5, Zenon
<1>4. [Next]_vars => [CleanLayDown]_vars
  BY DEF CleanLayDown, LayDown
<1> QED
  BY <1>1, <1>2, <1>3, <1>4, CardsStayInOrderWithoutLayDown, ControlIsInOrder, RecordsStayTrue,
     PTL DEF Spec
=============================================================================
