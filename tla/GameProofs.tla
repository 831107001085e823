----------------------------- MODULE GameProofs -----------------------------
(***************************************************************************)
(* The control state of a room, proved for every deal, every hand size and *)
(* every winning score: IInv is inductive, and its parts are invariants of *)
(* Spec.  Cards and premoves play no role in it, so it holds with stale    *)
(* premoves and with tricks left over from a hand that was laid down.      *)
(***************************************************************************)
EXTENDS GameProperties, FiniteSetTheorems, TLAPS

USE DEF Seat, Team

\* A trick has at most four cards.
LEMMA ActiveRange == Active \in 0 .. 4
<1>1. IsFiniteSet(Seat) /\ Cardinality(Seat) = 4
  <2>1. 0 \in Int /\ 3 \in Int
    OBVIOUS
  <2>2. /\ IsFiniteSet(0 .. 3)
        /\ Cardinality(0 .. 3) = IF 0 > 3 THEN 0 ELSE 3 - 0 + 1
    BY <2>1, FS_Interval, Zenon
  <2> QED
    BY <2>2
<1>2. /\ IsFiniteSet(Seat \ sitting_out)
      /\ Cardinality(Seat \ sitting_out) =< Cardinality(Seat)
  BY <1>1, FS_Subset
<1>3. Cardinality(Seat \ sitting_out) \in Nat
  BY <1>2, FS_CardinalityType
<1> QED
  BY <1>1, <1>2, <1>3 DEF Active

\* Going round the table stays at the table.
LEMMA SeatsStay ==
  ASSUME NEW s \in Seat, NEW out
  PROVE  Left(s) \in Seat /\ Partner(s) \in Seat /\ advance(s, out) \in Seat
BY DEF Left, Partner, advance

\* Every player of a trick is a seat.
LEMMA TurnOrderSeats ==
  ASSUME NEW leader \in Seat, NEW i \in 1 .. Active
  PROVE  TurnOrder(leader)[i] \in Seat
<1> DEFINE second == advance(leader, sitting_out)
           third  == advance(second, sitting_out)
           fourth == advance(third, sitting_out)
<1>1. second \in Seat
  BY SeatsStay
<1>2. third \in Seat
  BY <1>1, SeatsStay
<1>3. fourth \in Seat
  BY <1>2, SeatsStay
<1>4. TurnOrder(leader) = <<leader, second, third, fourth>>
  BY DEF TurnOrder
<1>5. i \in 1 .. 4
  BY ActiveRange
<1> HIDE DEF second, third, fourth
<1> QED
  BY <1>1, <1>2, <1>3, <1>4, <1>5

\* A trick won adds one to the tally.
LEMMA TallyGrows ==
  ASSUME NEW count \in [Seat -> Nat], NEW w \in Seat
  PROVE  /\ [count EXCEPT ![w] = @ + 1] \in [Seat -> Nat]
         /\ Total([count EXCEPT ![w] = @ + 1]) = Total(count) + 1
         /\ Total(count) \in Nat
BY DEF Total

LEMMA NobodyHasNone == Nobody \in [Seat -> Nat] /\ Total(Nobody) = 0
BY DEF Nobody, Total

\* The next hand starts with its first voter at turn, holding the token.
LEMMA NextHandStarts ==
  ASSUME dealer \in Seat, nextHand
  PROVE  /\ phase' = "VOTE_ROUND1"
         /\ dealer' \in Seat /\ turn' \in Seat /\ turn_token' = turn'
BY SeatsStay DEF nextHand

\* However a hand ends, the score and the next turn are in order.
LEMMA SettleKeepsIInv ==
  ASSUME IInv, phase = "PLAYING",
         NEW team \in Team, NEW points \in 1 .. 4, NEW last \in Seat, NEW left,
         settle(team, points, last, last, left),
         UNCHANGED <<people, caller>>,
         trick_leader' \in Seat, cascading' \in BOOLEAN,
         pc' \in {"idle", "cascade", "bots"}
  PROVE  IInv'
<1> USE GameAssumption
<1>1. /\ dealer \in Seat /\ scores \in [Team -> Nat] /\ caller \in Seat
      /\ \A t \in Team : scores[t] < WinningScore
      /\ WinningScore \in Nat /\ CardsPerHand \in Nat /\ CardsPerHand >= 2
  BY DEF IInv, ControlTypeOK, ScoresDecideEnd
<1>2. /\ tricks' = Nobody /\ sitting_out' = {}
      /\ scores' = [scores EXCEPT ![team] = @ + points]
  BY DEF settle
<1>3. /\ phase' \in {"ENDED", "VOTE_ROUND1"}
      /\ phase' = "ENDED" <=> scores[team] + points >= WinningScore
      /\ dealer' \in Seat /\ turn' \in Seat /\ turn_token' = turn'
  <2>1. CASE ends(scores[team] + points)
    BY <1>1, <2>1 DEF settle, ends
  <2>2. CASE ~ends(scores[team] + points)
    BY <1>1, <2>2, NextHandStarts DEF settle, ends
  <2> QED
    BY <2>1, <2>2
<1>4. scores' \in [Team -> Nat] /\ ScoresDecideEnd'
  <2>1. /\ scores'[team] = scores[team] + points
        /\ \A t \in Team \ {team} : scores'[t] = scores[t]
        /\ scores' \in [Team -> Nat]
    BY <1>1, <1>2
  <2>2. phase' = "ENDED" <=> \E t \in Team : scores'[t] >= WinningScore
    BY <1>1, <1>3, <2>1
  <2>3. \E t \in Team : scores'[t] < WinningScore
    BY <1>1, <2>1
  <2>4. \A t \in Team : scores'[t] < WinningScore + 4
    BY <1>1, <2>1
  <2> QED
    BY <2>1, <2>2, <2>3, <2>4 DEF ScoresDecideEnd
<1>5. TricksAreTallied'
  BY <1>1, <1>2, NobodyHasNone DEF TricksAreTallied
<1>6. SitterIsCallersPartner' /\ SeatsAreFilled' /\ TurnHoldsToken'
  BY <1>2, <1>3 DEF IInv, SeatsAreFilled, SitterIsCallersPartner, TurnHoldsToken, people
<1>7. ControlTypeOK'
  BY <1>1, <1>2, <1>3, <1>4, NobodyHasNone
    DEF IInv, ControlTypeOK, people, Phase, Voting, Waiting
<1> QED
  BY <1>4, <1>5, <1>6, <1>7 DEF IInv

\* The last trick, or the first cards of the next hand: endTrick from its second
\* run on keeps control in order.
LEMMA LastTrickKeepsIInv ==
  ASSUME IInv, phase = "PLAYING",
         NEW leader \in Seat, NEW won \in [Seat -> Nat],
         NEW played, NEW own, NEW queued,
         lastTrick(leader, won, played, own, queued),
         UNCHANGED <<people, caller>>, cascading' \in BOOLEAN,
         pc' \in {"idle", "cascade", "bots"}
  PROVE  IInv'
<1>1. trick_leader' = leader
  BY Zenon DEF lastTrick
<1>2. PICK i \in 1 .. Active :
        \E last, left : /\ last = TurnOrder(leader)[i]
                       /\ endHand([won EXCEPT ![last] = @ + 1], last, left)
  BY Zenon DEF lastTrick
<1>3. PICK last, left : /\ last = TurnOrder(leader)[i]
                        /\ endHand([won EXCEPT ![last] = @ + 1], last, left)
  BY <1>2
<1>4. last \in Seat
  BY <1>3, TurnOrderSeats
<1>5. PICK team \in Team, points \in 1 .. 4 : settle(team, points, last, last, left)
  BY <1>3 DEF endHand, worth
<1> QED
  BY <1>1, <1>4, <1>5, SettleKeepsIInv

\* A trick that is full is won by a seat, and either leaves two tricks to come or
\* lets the last one be played.
LEMMA EndTrickKeepsIInv ==
  ASSUME IInv, phase = "PLAYING",
         NEW stack, NEW leader \in Seat, NEW played, NEW own, NEW queued,
         endTrick(stack, leader, played, own, queued),
         UNCHANGED <<people, caller>>, cascading' \in BOOLEAN,
         pc' \in {"idle", "cascade", "bots"}
  PROVE  IInv'
<1> USE GameAssumption
<1>1. PICK i, winner, won :
        /\ i \in 1 .. Active
        /\ winner = TurnOrder(leader)[i]
        /\ won = [tricks EXCEPT ![winner] = @ + 1]
        /\ \/ /\ ~lastTrickDue(won)
              /\ tricks' = won /\ trick_leader' = leader
              /\ turn' = winner /\ turn_token' = winner
              /\ UNCHANGED <<phase, dealer, scores, sitting_out>>
           \/ lastTrick(winner, won, played, own, queued)
  BY Zenon DEF endTrick
<1>2. winner \in Seat /\ tricks \in [Seat -> Nat]
  BY <1>1, TurnOrderSeats DEF IInv, ControlTypeOK
<1>3. /\ won \in [Seat -> Nat]
      /\ Total(won) = Total(tricks) + 1 /\ Total(tricks) \in Nat
      /\ Total(tricks) =< CardsPerHand - 2
  BY <1>1, <1>2, TallyGrows DEF IInv, TricksAreTallied
<1>4. CASE /\ ~lastTrickDue(won)
           /\ tricks' = won /\ trick_leader' = leader
           /\ turn' = winner /\ turn_token' = winner
           /\ UNCHANGED <<phase, dealer, scores, sitting_out>>
  <2>1. Total(tricks)' =< CardsPerHand - 2
    BY <1>3, <1>4 DEF lastTrickDue, Total
  <2>2. TricksAreTallied'
    BY <2>1, <1>4 DEF TricksAreTallied
  <2>3. ControlTypeOK'
    BY <1>2, <1>3, <1>4 DEF IInv, ControlTypeOK, people
  <2>4. SeatsAreFilled' /\ TurnHoldsToken' /\ SitterIsCallersPartner' /\ ScoresDecideEnd'
    BY <1>4 DEF IInv, SeatsAreFilled, TurnHoldsToken, SitterIsCallersPartner,
                ScoresDecideEnd, people, Partner
  <2> QED
    BY <2>2, <2>3, <2>4 DEF IInv
<1>5. CASE lastTrick(winner, won, played, own, queued)
  BY <1>2, <1>3, <1>5, LastTrickKeepsIInv
<1> QED
  BY <1>1, <1>4, <1>5

\* A card played, by whichever handler or loop, keeps control in order.
LEMMA PlayTopKeepsIInv ==
  ASSUME IInv, phase = "PLAYING", NEW card, NEW own, NEW queued,
         playTop(card, own, queued), cascading' \in BOOLEAN,
         pc' \in {"idle", "cascade", "bots"}
  PROVE  IInv'
<1>1. UNCHANGED <<people, caller>>
  BY DEF playTop, contract
<1>2. PICK leader, stack, played :
        /\ leader = IF trick = <<>> THEN turn ELSE trick_leader
        /\ \/ /\ trick_leader' = leader
              /\ turn' = advance(turn, sitting_out) /\ turn_token' = turn'
              /\ UNCHANGED <<phase, dealer, scores, tricks, sitting_out>>
           \/ endTrick(stack, leader, played, own, queued)
  BY Zenon DEF playTop
<1>3. leader \in Seat /\ turn \in Seat
  BY <1>2 DEF IInv, ControlTypeOK
<1>4. CASE /\ trick_leader' = leader
           /\ turn' = advance(turn, sitting_out) /\ turn_token' = turn'
           /\ UNCHANGED <<phase, dealer, scores, tricks, sitting_out>>
  <2>1. turn' \in Seat
    BY <1>3, <1>4, SeatsStay
  <2>2. ControlTypeOK'
    BY <1>1, <1>3, <1>4, <2>1 DEF IInv, ControlTypeOK, people
  <2>3. SeatsAreFilled' /\ TurnHoldsToken' /\ ScoresDecideEnd'
    BY <1>1, <1>4 DEF IInv, SeatsAreFilled, TurnHoldsToken, ScoresDecideEnd, people
  <2>4. SitterIsCallersPartner' /\ TricksAreTallied'
    BY <1>1, <1>4 DEF IInv, SitterIsCallersPartner, TricksAreTallied, Partner, Total
  <2> QED
    BY <2>2, <2>3, <2>4 DEF IInv
<1>5. CASE endTrick(stack, leader, played, own, queued)
  BY <1>1, <1>3, <1>5, EndTrickKeepsIInv
<1> QED
  BY <1>2, <1>4, <1>5
-----------------------------------------------------------------------------
(* The handlers *)

\* What a handler goes on with is a loop or nothing.
LEMMA LoopsAreLoops ==
  /\ botsNext \in {"idle", "bots"} /\ botsNext' \in {"idle", "bots"}
  /\ cascadeNext \in {"idle", "cascade", "bots"}
  /\ cascadeNext' \in {"idle", "cascade", "bots"}
BY DEF botsNext, cascadeNext

\* Cards, premoves and trumps may change freely.
LEMMA ControlUntouched ==
  ASSUME IInv, cascading' \in BOOLEAN, pc' \in {"idle", "cascade", "bots"},
         UNCHANGED <<people, phase, dealer, turn, caller, scores, tricks,
                     sitting_out, trick_leader, turn_token>>
  PROVE  IInv'
BY DEF IInv, ControlTypeOK, SeatsAreFilled, TurnHoldsToken, SitterIsCallersPartner,
       TricksAreTallied, ScoresDecideEnd, people, Partner, Total

\* The order of a caller that goes alone seats its partner out, and play or the
\* dealer's discard starts with nobody else.
LEMMA OrderKeepsIInv ==
  ASSUME IInv, NEW s, NEW alone, NEW suit, order(s, alone, suit)
  PROVE  IInv'
<1> USE GameAssumption
<1>1. /\ phase \in Voting /\ turn_token = s /\ caller' = turn
      /\ sitting_out' = sitting_out \cup IF alone THEN {Partner(turn)} ELSE {}
      /\ UNCHANGED <<people, dealer, scores, tricks, trick_leader, cascading>>
      /\ pc' = botsNext'
      /\ \/ /\ ~(alone /\ Partner(turn) = dealer)
            /\ phase' = "DISCARDING" /\ turn' = dealer
            /\ UNCHANGED turn_token
         \/ startPlay(sitting_out')
  BY Zenon DEF order
<1>2. /\ turn \in Seat /\ dealer \in Seat /\ turn_token = turn
      /\ sitting_out = {} /\ tricks = Nobody
      /\ seated = 4 /\ phase # "PLAYING" /\ phase # "ENDED"
  BY <1>1 DEF IInv, ControlTypeOK, SeatsAreFilled, TurnHoldsToken,
              SitterIsCallersPartner, TricksAreTallied, Voting
<1>3. sitting_out' \subseteq {Partner(turn)} /\ sitting_out' \subseteq Seat
  BY <1>1, <1>2, SeatsStay
<1>4. /\ phase' \in {"DISCARDING", "PLAYING"} /\ turn' \in Seat
      /\ IF phase' = "DISCARDING"
         THEN turn' = dealer /\ turn_token' = turn /\ dealer \notin sitting_out'
         ELSE turn_token' = turn'
  <2>1. CASE /\ ~(alone /\ Partner(turn) = dealer)
             /\ phase' = "DISCARDING" /\ turn' = dealer
             /\ UNCHANGED turn_token
    BY <1>1, <1>2, <2>1
  <2>2. CASE startPlay(sitting_out')
    BY <1>2, <2>2, SeatsStay DEF startPlay
  <2> QED
    BY <1>1, <2>1, <2>2
<1>5. ControlTypeOK'
  BY <1>1, <1>2, <1>3, <1>4, LoopsAreLoops DEF IInv, ControlTypeOK, people, Phase
<1>6. SeatsAreFilled' /\ TurnHoldsToken' /\ SitterIsCallersPartner'
  BY <1>1, <1>2, <1>3, <1>4
    DEF SeatsAreFilled, TurnHoldsToken, SitterIsCallersPartner, people, Partner
<1>7. TricksAreTallied' /\ ScoresDecideEnd'
  BY <1>1, <1>2, <1>4 DEF IInv, TricksAreTallied, ScoresDecideEnd, Total
<1> QED
  BY <1>5, <1>6, <1>7 DEF IInv

\* A pass hands the token on with the turn.
LEMMA PassKeepsIInv ==
  ASSUME IInv, NEW s, pass(s)
  PROVE  IInv'
<1>1. /\ phase \in Voting /\ phase' \in Voting
      /\ turn' = advance(turn, sitting_out) /\ turn_token' = turn'
      /\ UNCHANGED <<people, dealer, caller, scores, tricks, sitting_out,
                     trick_leader, cascading>>
      /\ pc' = botsNext'
  BY DEF pass, contract, table, Voting
<1>2. turn' \in Seat
  BY <1>1, SeatsStay DEF IInv, ControlTypeOK
<1>3. ControlTypeOK'
  BY <1>1, <1>2, LoopsAreLoops DEF IInv, ControlTypeOK, people, Phase
<1> QED
  BY <1>1, <1>3 DEF IInv, SeatsAreFilled, TurnHoldsToken, SitterIsCallersPartner,
        TricksAreTallied, ScoresDecideEnd, people, Partner, Total, Voting

\* The discard hands the token to the seat that leads.
LEMMA DiscardKeepsIInv ==
  ASSUME IInv, NEW s, NEW card, discard(s, card)
  PROVE  IInv'
<1>1. /\ phase = "DISCARDING" /\ phase' = "PLAYING"
      /\ turn' = advance(dealer, sitting_out) /\ turn_token' = turn'
      /\ UNCHANGED <<people, dealer, caller, scores, tricks, sitting_out,
                     trick_leader, cascading>>
      /\ pc' = botsNext'
  BY DEF discard, startPlay, contract
<1>2. turn' \in Seat
  BY <1>1, SeatsStay DEF IInv, ControlTypeOK
<1>3. ControlTypeOK'
  BY <1>1, <1>2, LoopsAreLoops DEF IInv, ControlTypeOK, people, Phase
<1> QED
  BY <1>1, <1>3 DEF IInv, SeatsAreFilled, TurnHoldsToken, SitterIsCallersPartner,
        TricksAreTallied, ScoresDecideEnd, people, Partner, Total

\* A card played on its player's own move.
LEMMA PlayCardKeepsIInv ==
  ASSUME IInv, NEW s, NEW card, play_card(s, card)
  PROVE  IInv'
<1>1. phase = "PLAYING" /\ UNCHANGED cascading
  BY DEF play_card
<1>2. pc' \in {"idle", "cascade", "bots"}
  BY LoopsAreLoops DEF play_card
<1>3. PICK own : playTop(card, own, premoves)
  BY Zenon DEF play_card
<1>4. cascading' \in BOOLEAN
  BY <1>1 DEF IInv, ControlTypeOK
<1> QED
  BY <1>1, <1>2, <1>3, <1>4, PlayTopKeepsIInv

\* Laying a hand down scores two or four points.
LEMMA LayDownKeepsIInv ==
  ASSUME IInv, NEW s, lay_down(s)
  PROVE  IInv'
<1>1. /\ phase = "PLAYING"
      /\ settle(turn % 2, IF Partner(turn) \in sitting_out THEN 4 ELSE 2,
                turn, turn_token, cards)
      /\ UNCHANGED <<people, caller, trick_leader, cascading>>
      /\ pc' = botsNext'
  BY Zenon DEF lay_down, contract, table
<1>2. /\ turn \in Seat /\ turn_token = turn
      /\ trick_leader' \in Seat /\ cascading' \in BOOLEAN
  BY <1>1 DEF IInv, ControlTypeOK, SeatsAreFilled, TurnHoldsToken
<1>3. PICK points \in 1 .. 4 : settle(turn % 2, points, turn, turn, cards)
  BY <1>1, <1>2
<1>4. turn % 2 \in Team
  BY <1>2
<1> QED
  BY <1>1, <1>2, <1>3, <1>4, LoopsAreLoops, SettleKeepsIInv

\* A game starts, or starts over, with no team at the winning score.
LEMMA RestartKeepsIInv ==
  ASSUME IInv, restart
  PROVE  IInv'
<1> USE GameAssumption
<1>1. /\ phase \in Waiting /\ seated' = 4
      /\ tricks' = Nobody /\ sitting_out' = {}
      /\ scores' = IF phase = "ENDED" THEN [t \in Team |-> 0] ELSE scores
      /\ nextHand
      /\ UNCHANGED <<humans, caller, trick_leader, cascading>>
      /\ pc' = botsNext'
  BY DEF restart, contract, table
<1>2. /\ phase' = "VOTE_ROUND1"
      /\ dealer' \in Seat /\ turn' \in Seat /\ turn_token' = turn'
  BY <1>1, NextHandStarts DEF IInv, ControlTypeOK
<1>3. /\ scores' \in [Team -> Nat]
      /\ \A t \in Team : scores'[t] < WinningScore
  BY <1>1 DEF IInv, ControlTypeOK, ScoresDecideEnd, Waiting
<1>4. ScoresDecideEnd'
  <2>1. 0 \in Team
    OBVIOUS
  <2> QED
    BY <1>2, <1>3, <2>1 DEF ScoresDecideEnd
<1>5. TricksAreTallied'
  BY <1>1, NobodyHasNone DEF TricksAreTallied
<1>6. ControlTypeOK'
  BY <1>1, <1>2, <1>3, NobodyHasNone, LoopsAreLoops
    DEF IInv, ControlTypeOK, Phase, Voting
<1>7. SeatsAreFilled' /\ TurnHoldsToken' /\ SitterIsCallersPartner'
  BY <1>1, <1>2 DEF SeatsAreFilled, TurnHoldsToken, SitterIsCallersPartner
<1> QED
  BY <1>4, <1>5, <1>6, <1>7 DEF IInv
-----------------------------------------------------------------------------
(* The steps of a room *)

\* A room starts with its control in order.
LEMMA InitIInv == Init => IInv
<1> SUFFICES ASSUME Init PROVE IInv
  OBVIOUS
<1> USE GameAssumption
<1>1. ControlTypeOK
  <2>1. /\ seated = 0 /\ humans = 0 /\ phase = "LOBBY"
        /\ dealer = 0 /\ turn = 0 /\ caller = 0 /\ trick_leader = 0
        /\ turn_token = NoSeat /\ sitting_out = {}
        /\ pc = "idle"
    BY DEF Init
  <2>2. scores = [t \in Team |-> 0] /\ tricks = Nobody
    BY Zenon DEF Init
  <2>3. scores \in [Team -> Nat] /\ tricks \in [Seat -> Nat]
    BY <2>2, NobodyHasNone
  <2>4. cascading \in BOOLEAN
    BY Zenon DEF Init
  <2> QED
    BY <2>1, <2>3, <2>4 DEF ControlTypeOK, Phase, Waiting
<1>2. SeatsAreFilled /\ TurnHoldsToken /\ SitterIsCallersPartner
  BY DEF Init, SeatsAreFilled, TurnHoldsToken, SitterIsCallersPartner
<1>3. TricksAreTallied
  BY NobodyHasNone DEF Init, TricksAreTallied
<1>4. ScoresDecideEnd
  <2>1. 0 \in Team
    OBVIOUS
  <2> QED
    BY <2>1 DEF Init, ScoresDecideEnd
<1> QED
  BY <1>1, <1>2, <1>3, <1>4 DEF IInv

\* Seats are taken in the lobby only, and the first one holds the token.
LEMMA JoinKeepsIInv ==
  ASSUME IInv, Join
  PROVE  IInv'
<1>1. ControlTypeOK'
  BY DEF Join, IInv, ControlTypeOK, contract, table
<1>2. /\ phase = "LOBBY" /\ phase' = "LOBBY" /\ seated \in 0 .. 4
      /\ IF seated = 0 THEN turn_token' = turn'
                       ELSE UNCHANGED <<turn_token, turn>> /\ turn_token = turn
  BY DEF Join, IInv, ControlTypeOK, SeatsAreFilled, TurnHoldsToken
<1>3. SeatsAreFilled' /\ TurnHoldsToken'
  BY <1>2 DEF SeatsAreFilled, TurnHoldsToken
<1>4. SitterIsCallersPartner' /\ TricksAreTallied' /\ ScoresDecideEnd'
  BY DEF Join, IInv, SitterIsCallersPartner, TricksAreTallied, ScoresDecideEnd,
         contract, Partner, Total
<1> QED
  BY <1>1, <1>3, <1>4 DEF IInv

\* The rehydrated room gives the token to the seat at turn; in a discard that
\* is the dealer, whoever held it before.
LEMMA RebootKeepsIInv ==
  ASSUME IInv, Reboot
  PROVE  IInv'
<1>1. ControlTypeOK'
  BY DEF Reboot, IInv, ControlTypeOK, people, contract, table
<1>2. SeatsAreFilled' /\ TurnHoldsToken'
  BY DEF Reboot, IInv, ControlTypeOK, SeatsAreFilled, TurnHoldsToken, people, contract, NoSeat
<1>3. SitterIsCallersPartner' /\ TricksAreTallied' /\ ScoresDecideEnd'
  BY DEF Reboot, IInv, SitterIsCallersPartner, TricksAreTallied, ScoresDecideEnd,
         contract, Partner, Total
<1> QED
  BY <1>1, <1>2, <1>3 DEF IInv

\* The moves of the person at turn.
LEMMA TurnMoveKeepsIInv ==
  ASSUME IInv, NEW s \in Human, Order(s) \/ Pass(s) \/ Discard(s) \/ PlayCard(s)
  PROVE  IInv'
<1>1. CASE Order(s)
  <2>1. \E alone, suit : order(s, alone, suit)
    BY <1>1, Zenon DEF Order
  <2> QED
    BY <2>1, OrderKeepsIInv
<1>2. CASE Pass(s)
  BY <1>2, PassKeepsIInv DEF Pass
<1>3. CASE Discard(s)
  BY <1>3, DiscardKeepsIInv DEF Discard
<1>4. CASE PlayCard(s)
  <2>1. \E card : play_card(s, card)
    BY <1>4, Zenon DEF PlayCard
  <2> QED
    BY <2>1, PlayCardKeepsIInv
<1> QED
  BY <1>1, <1>2, <1>3, <1>4

\* The other requests.
LEMMA OtherRequestKeepsIInv ==
  ASSUME IInv, OtherRequest
  PROVE  IInv'
<1>1. CASE Restart
  BY <1>1, RestartKeepsIInv DEF Restart
<1>2. CASE Chat
  BY <1>2, ControlUntouched DEF Chat, IInv, ControlTypeOK, contract, table
<1>3. ASSUME NEW s \in Human, Premove(s) \/ UndoPremove(s)
      PROVE  IInv'
  <2>1. (\E card : premove(s, card)) \/ undo_premove(s)
    BY <1>3, Zenon DEF Premove, UndoPremove
  <2>2. /\ UNCHANGED <<people, phase, dealer, turn, caller, scores, tricks,
                       sitting_out, trick_leader, turn_token, cascading>>
        /\ pc' = botsNext
    BY <2>1 DEF premove, undo_premove, contract, table
  <2> QED
    BY <2>2, LoopsAreLoops, ControlUntouched DEF IInv, ControlTypeOK
<1>4. ASSUME NEW s \in Human, LayDown(s)
      PROVE  IInv'
  BY <1>4, LayDownKeepsIInv DEF LayDown
<1> QED
  BY <1>1, <1>2, <1>3, <1>4 DEF OtherRequest

\* The rounds of the two loops.
LEMMA LoopKeepsIInv ==
  ASSUME IInv, Loop
  PROVE  IInv'
<1>1. CASE CascadeStep
  <2>1. PICK card, queued : playTop(card, cards, queued)
    BY <1>1, Zenon DEF CascadeStep
  <2>2. phase = "PLAYING" /\ cascading' \in BOOLEAN
    BY <1>1 DEF CascadeStep, IInv, ControlTypeOK
  <2>3. pc' \in {"idle", "cascade", "bots"}
    BY <1>1, LoopsAreLoops DEF CascadeStep
  <2> QED
    BY <2>1, <2>2, <2>3, PlayTopKeepsIInv
<1>2. CASE CascadeThrows
  BY <1>2, ControlUntouched DEF CascadeThrows, contract, table
<1>3. CASE BotVotes
  <2>1. (\E alone, suit : order(turn, alone, suit)) \/ pass(turn)
    BY <1>3, Zenon DEF BotVotes
  <2> QED
    BY <2>1, OrderKeepsIInv, PassKeepsIInv
<1>4. CASE BotDiscards
  <2>1. \E card : discard(turn, card)
    BY <1>4, Zenon DEF BotDiscards
  <2> QED
    BY <2>1, DiscardKeepsIInv
<1>5. CASE BotPlays
  <2>1. \E card : play_card(turn, card)
    BY <1>5, Zenon DEF BotPlays
  <2> QED
    BY <2>1, PlayCardKeepsIInv
<1>6. CASE BotThrows
  BY <1>6, ControlUntouched DEF BotThrows, IInv, ControlTypeOK, contract, table
<1> QED
  BY <1>1, <1>2, <1>3, <1>4, <1>5, <1>6 DEF Loop

\* IInv is inductive.
LEMMA NextKeepsIInv == IInv /\ [Next]_vars => IInv'
<1> SUFFICES ASSUME IInv, [Next]_vars PROVE IInv'
  OBVIOUS
<1>1. CASE Join
  BY <1>1, JoinKeepsIInv
<1>2. CASE TurnMove
  BY <1>2, TurnMoveKeepsIInv DEF TurnMove
<1>3. CASE OtherRequest
  BY <1>3, OtherRequestKeepsIInv
<1>4. CASE Loop
  BY <1>4, LoopKeepsIInv
<1>5. CASE Reboot
  BY <1>5, RebootKeepsIInv
<1>6. CASE UNCHANGED vars
  BY <1>6, ControlUntouched DEF vars, contract, table, IInv, ControlTypeOK
<1> QED
  BY <1>1, <1>2, <1>3, <1>4, <1>5, <1>6 DEF Next
-----------------------------------------------------------------------------
(* Theorems *)

\* The control state of a room is in order for ever: whatever is dealt, whoever
\* plays, with or without loners, premoves, hands laid down and restarts of the
\* process, and however many points a game is played to.
THEOREM ControlIsInOrder == Spec => []IInv
BY InitIInv, NextKeepsIInv, PTL DEF Spec

\* Only the seat at turn may act (turn_token of advanceTurn, endTrick and the
\* rehydrated Game), and a discard is asked of the dealer.
THEOREM TokenFollowsTurn == Spec => []TurnHoldsToken
<1>1. IInv => TurnHoldsToken
  BY DEF IInv
<1> QED
  BY <1>1, ControlIsInOrder, PTL

\* Nobody but the caller's partner ever sits out, during the caller's contract
\* only, and a dealer who sits out never has to discard (order, endHand, lay_down).
THEOREM OnlyThePartnerSitsOut == Spec => []SitterIsCallersPartner
<1>1. IInv => SitterIsCallersPartner
  BY DEF IInv
<1> QED
  BY <1>1, ControlIsInOrder, PTL

\* The last trick never waits for anybody, and no trick outlives its hand
\* (endTrick, endHand, lay_down, restart).
THEOREM TalliesAreOfOneHand == Spec => []TricksAreTallied
<1>1. IInv => TricksAreTallied
  BY DEF IInv
<1> QED
  BY <1>1, ControlIsInOrder, PTL

\* A game is over exactly when one team has reached the winning score (endHand,
\* lay_down, endGame, restart).
THEOREM GamesEndAtTheScore == Spec => []ScoresDecideEnd
<1>1. IInv => ScoresDecideEnd
  BY DEF IInv
<1> QED
  BY <1>1, ControlIsInOrder, PTL
-----------------------------------------------------------------------------
(* The cards *)

\* Where a card's score lies among the cards, by its effective suit.
LEMMA ScoreBySuit ==
  ASSUME NEW card \in Card, NEW t \in Suit, NEW led \in Suit
  PROVE  LET suit  == effectiveSuit(card, t)
             score == scoreCard(card, t, led)
         IN  /\ suit \in Suit /\ card.rank \in 0 .. 5
             /\ suit = t => score \in 26 .. 50
             /\ suit # t => score = IF suit = led THEN card.rank + 1 ELSE 0
BY DEF effectiveSuit, scoreCard, isLeft, isBauer, color, Card, Suit, Rank,
       DIAMONDS, CLUBS, SPADES, HEARTS, NINE, TEN, JACK, QUEEN, KING, ACE

\* Scores are natural numbers.
LEMMA ScoreIsNat ==
  ASSUME NEW card \in Card, NEW t \in Suit, NEW led \in Suit
  PROVE  scoreCard(card, t, led) \in Nat
BY DEF scoreCard, Card, Rank, NINE, ACE

\* scoreCard (Utils.hpp) is the rules of euchre in numbers: of two cards one scores
\* more than the other exactly when it beats it.
THEOREM ScoresAreTheRules ==
  ASSUME trump \in Suit, NEW led \in Suit, NEW a \in Card, NEW b \in Card
  PROVE  scoreCard(a, trump, led) > scoreCard(b, trump, led) <=> Beats(a, b, led)
<1> DEFINE suitA == effectiveSuit(a, trump)
           suitB == effectiveSuit(b, trump)
<1>1. /\ a.rank \in 0 .. 5
      /\ suitA = trump => scoreCard(a, trump, led) \in 26 .. 50
      /\ suitA # trump => scoreCard(a, trump, led) = IF suitA = led THEN a.rank + 1 ELSE 0
  BY ScoreBySuit
<1>2. /\ b.rank \in 0 .. 5
      /\ suitB = trump => scoreCard(b, trump, led) \in 26 .. 50
      /\ suitB # trump => scoreCard(b, trump, led) = IF suitB = led THEN b.rank + 1 ELSE 0
  BY ScoreBySuit
<1>3. CASE suitA = trump /\ suitB = trump
  <2>1. \A c \in Card : effectiveSuit(c, trump) = trump =>
          scoreCard(c, trump, led) = IF TrumpRank(c) \in {7, 8} THEN TrumpRank(c) + 42
                                                               ELSE c.rank + 26
    BY DEF effectiveSuit, scoreCard, TrumpRank, isLeft, isRight, isBauer, color,
           Card, Suit, Rank, JACK, NINE, ACE, DIAMONDS, HEARTS
  <2>2. \A c \in Card : /\ c.rank \in 0 .. 5
                        /\ TrumpRank(c) \in {7, 8, c.rank}
    BY DEF TrumpRank, Card, Rank, NINE, ACE
  <2> QED
    BY <1>3, <2>1, <2>2 DEF Beats
<1>4. CASE suitA = trump /\ suitB # trump
  BY <1>1, <1>2, <1>4 DEF Beats
<1>5. CASE suitA # trump /\ suitB = trump
  BY <1>1, <1>2, <1>5 DEF Beats
<1>6. CASE suitA # trump /\ suitB # trump
  BY <1>1, <1>2, <1>6 DEF Beats
<1> QED
  BY <1>3, <1>4, <1>5, <1>6

\* A card of the led suit is worth something.
LEMMA LedSuitScores ==
  ASSUME NEW card \in Card, NEW t \in Suit
  PROVE  scoreCard(card, t, effectiveSuit(card, t)) > 0
<1>1. effectiveSuit(card, t) \in Suit
  BY ScoreBySuit
<1> QED
  BY <1>1, ScoreBySuit

\* No two cards that can win a trick score the same.
LEMMA WinnersDoNotTie ==
  ASSUME NEW t \in Suit, NEW led \in Suit, NEW a \in Card, NEW b \in Card, a # b,
         scoreCard(a, t, led) = scoreCard(b, t, led)
  PROVE  scoreCard(a, t, led) = 0
BY DEF scoreCard, isBauer, color, Card, Suit, Rank,
       DIAMONDS, CLUBS, SPADES, HEARTS, NINE, JACK, ACE

\* A trick without a card twice is won by the rules: the card endTrick lets take
\* it beats every other card on the table, trump and the led suit considered.
THEOREM TricksGoByTheRules ==
  ASSUME trump \in Suit, NEW stack \in Seq(Play), stack # <<>>,
         \A j, k \in DOMAIN stack : stack[j].card = stack[k].card => j = k,
         NEW i \in DOMAIN stack, Takes(stack, i)
  PROVE  \A k \in DOMAIN stack \ {i} :
           Beats(stack[i].card, stack[k].card, effectiveSuit(stack[1].card, trump))
<1> DEFINE led      == effectiveSuit(stack[1].card, trump)
           score(k) == scoreCard(stack[k].card, trump, led)
<1>1. ASSUME NEW k \in DOMAIN stack
      PROVE  stack[k].card \in Card
  <2>1. stack[k] \in Play
    OBVIOUS
  <2> QED
    BY <2>1 DEF Play
<1>2. 1 \in DOMAIN stack
  OBVIOUS
<1>3. led \in Suit
  BY <1>1, <1>2, ScoreBySuit
<1>4. ASSUME NEW k \in DOMAIN stack
      PROVE  score(k) \in Nat
  BY <1>1, <1>3, <1>4, ScoreIsNat
<1>5. \A k \in DOMAIN stack : score(k) =< score(i)
  BY <1>4 DEF Takes
<1>6. score(1) > 0
  BY <1>1, <1>2, LedSuitScores
<1>7. score(i) > 0
  BY <1>2, <1>4, <1>5, <1>6
<1>8. ASSUME NEW k \in DOMAIN stack \ {i}
      PROVE  Beats(stack[i].card, stack[k].card, led)
  <2>1. stack[k].card \in Card /\ stack[i].card \in Card
    BY <1>1, <1>8
  <2>2. score(k) # score(i)
    BY <1>3, <1>7, <1>8, <2>1, WinnersDoNotTie
  <2>3. scoreCard(stack[i].card, trump, led) > scoreCard(stack[k].card, trump, led)
    BY <1>4, <1>5, <1>8, <2>2
  <2> HIDE DEF led
  <2> QED
    BY <1>3, <2>1, <2>3, ScoresAreTheRules
<1> QED
  BY <1>8
=============================================================================
