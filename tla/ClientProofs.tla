---------------------------- MODULE ClientProofs ----------------------------
(***************************************************************************)
(* Theorems about the client of one person (Client): it watches a room     *)
(* that keeps its own promises, shows it as it is once it has applied what *)
(* it received, and does not stop showing it.                              *)
(***************************************************************************)
EXTENDS Client, BotProofs

(* What is shown after each of the messages of a queue *)

\* Induction on the natural numbers up to n.
LEMMA UpTo ==
  ASSUME NEW n \in Nat, NEW S, 0 \in S, \A k \in 0 .. n - 1 : k \in S => k + 1 \in S
  PROVE  \A k \in 0 .. n : k \in S
<1> DEFINE left == {k \in 0 .. n : k \notin S}
<1> SUFFICES ASSUME left # {} PROVE FALSE
  OBVIOUS
<1>1. PICK m \in left : \A k \in left : m =< k
  <2>1. left \in SUBSET Nat
    OBVIOUS
  <2> HIDE DEF left
  <2> QED
    BY <2>1, LeastNat
<1>2. m # 0 /\ m \in 0 .. n /\ m \notin S
  OBVIOUS
<1>3. m - 1 \in 0 .. n - 1 /\ m - 1 \notin left
  BY <1>1, <1>2
<1>4. m - 1 \in S
  BY <1>3
<1> QED
  BY <1>2, <1>3, <1>4

\* The chain of what is shown exists, for a queue of any length.
LEMMA Shown ==
  ASSUME NEW first, NEW q, Len(q) \in Nat
  PROVE  LET at == showing(first, q)
         IN  at = [k \in 0 .. Len(q) |-> IF k = 0 THEN first ELSE after(q[k], at[k - 1])]
<1> DEFINE chain(n, f) ==
             f = [k \in 0 .. n |-> IF k = 0 THEN first ELSE after(q[k], f[k - 1])]
           S == {n \in 0 .. Len(q) : \E f : chain(n, f)}
<1>1. 0 \in S
  <2> DEFINE f == [k \in 0 .. 0 |-> first]
  <2>1. chain(0, f)
    OBVIOUS
  <2>2. 0 \in 0 .. Len(q)
    OBVIOUS
  <2> HIDE DEF chain, f
  <2> QED
    BY <2>1, <2>2
<1>2. ASSUME NEW n \in 0 .. Len(q) - 1, n \in S
      PROVE  n + 1 \in S
  <2>1. PICK f : chain(n, f)
    BY <1>2
  <2> DEFINE g == [k \in 0 .. n + 1 |-> IF k =< n THEN f[k] ELSE after(q[n + 1], f[n])]
  <2>2. ASSUME NEW k \in 0 .. n + 1
        PROVE  g[k] = IF k = 0 THEN first ELSE after(q[k], g[k - 1])
    <3>1. CASE k = 0
      BY <2>1, <3>1
    <3>2. CASE k \in 1 .. n
      <4>1. k \in 0 .. n /\ k - 1 \in 0 .. n + 1 /\ k - 1 =< n /\ k # 0
        BY <3>2
      <4>2. g[k] = f[k] /\ g[k - 1] = f[k - 1]
        BY <4>1, <3>2
      <4>3. f[k] = after(q[k], f[k - 1])
        BY <2>1, <4>1
      <4> QED
        BY <4>1, <4>2, <4>3
    <3>3. CASE k = n + 1
      <4>1. g[k] = after(q[n + 1], f[n]) /\ g[n] = f[n] /\ k # 0 /\ k - 1 = n
        BY <3>3
      <4> QED
        BY <4>1, <3>3
    <3> QED
      BY <3>1, <3>2, <3>3
  <2>3. chain(n + 1, g)
    BY <2>2, Zenon
  <2>4. n + 1 \in 0 .. Len(q)
    OBVIOUS
  <2> QED
    BY <2>3, <2>4
<1>3. \A n \in 0 .. Len(q) : n \in S
  <2> HIDE DEF S
  <2> QED
    BY <1>1, <1>2, UpTo
<1>4. \E f : chain(Len(q), f)
  BY <1>3
<1> QED
  BY <1>4 DEF showing

\* Step by step.
LEMMA ShownSteps ==
  ASSUME NEW M, NEW q \in Seq(M), NEW first
  PROVE  LET at == showing(first, q)
         IN  /\ at[0] = first
             /\ \A k \in 1 .. Len(q) : at[k] = after(q[k], at[k - 1])
<1> DEFINE at == showing(first, q)
<1>1. Len(q) \in Nat
  OBVIOUS
<1>2. at = [k \in 0 .. Len(q) |-> IF k = 0 THEN first ELSE after(q[k], at[k - 1])]
  BY <1>1, Shown
<1> HIDE DEF at
<1>3. at[0] = first
  BY <1>1, <1>2
<1>4. ASSUME NEW k \in 1 .. Len(q)
      PROVE  at[k] = after(q[k], at[k - 1])
  BY <1>2
<1> QED
  BY <1>3, <1>4 DEF at

\* Applying the first message leaves the rest of the chain.
LEMMA ShownTail ==
  ASSUME NEW first, NEW M, NEW q \in Seq(M), q # <<>>
  PROVE  \A k \in 0 .. Len(q) - 1 :
           showing(after(Head(q), first), Tail(q))[k] = showing(first, q)[k + 1]
<1> DEFINE at   == showing(first, q)
           rest == showing(after(Head(q), first), Tail(q))
           S    == {k \in 0 .. Len(q) - 1 : rest[k] = at[k + 1]}
<1>1. /\ Len(q) \in Nat \ {0} /\ Tail(q) \in Seq(M) /\ Len(Tail(q)) = Len(q) - 1
      /\ Head(q) = q[1] /\ \A k \in 1 .. Len(q) - 1 : Tail(q)[k] = q[k + 1]
  OBVIOUS
<1>2. at[0] = first /\ \A k \in 1 .. Len(q) : at[k] = after(q[k], at[k - 1])
  BY ShownSteps
<1>3. /\ rest[0] = after(Head(q), first)
      /\ \A k \in 1 .. Len(q) - 1 : rest[k] = after(Tail(q)[k], rest[k - 1])
  <2> DEFINE p == Tail(q)
  <2>1. p \in Seq(M) /\ Len(p) = Len(q) - 1
    BY <1>1
  <2> HIDE DEF p
  <2>2. LET c == showing(after(Head(q), first), p)
        IN  /\ c[0] = after(Head(q), first)
            /\ \A k \in 1 .. Len(p) : c[k] = after(p[k], c[k - 1])
    BY <2>1, ShownSteps
  <2> QED
    BY <2>1, <2>2 DEF p
<1> HIDE DEF at, rest
<1>4. 0 \in S
  <2>1. 1 \in 1 .. Len(q) /\ 1 - 1 = 0 /\ 0 + 1 = 1 /\ 0 \in 0 .. Len(q) - 1
    BY <1>1
  <2>2. at[1] = after(q[1], at[0])
    BY <1>2, <2>1
  <2> QED
    BY <1>1, <1>2, <1>3, <2>1, <2>2
<1>5. ASSUME NEW k \in 0 .. Len(q) - 1 - 1, k \in S
      PROVE  k + 1 \in S
  <2>1. k + 1 \in 1 .. Len(q) - 1 /\ k + 1 + 1 \in 1 .. Len(q)
        /\ k + 1 - 1 = k /\ k + 1 + 1 - 1 = k + 1 /\ k + 1 \in 0 .. Len(q) - 1
    BY <1>1
  <2>2. rest[k + 1] = after(q[k + 1 + 1], rest[k])
    BY <1>1, <1>3, <2>1
  <2>3. at[k + 1 + 1] = after(q[k + 1 + 1], at[k + 1])
    BY <1>2, <2>1
  <2> QED
    BY <1>5, <2>1, <2>2, <2>3
<1>6. \A k \in 0 .. Len(q) - 1 : k \in S
  <2>1. Len(q) - 1 \in Nat
    BY <1>1
  <2> HIDE DEF S
  <2> QED
    BY <1>4, <1>5, <2>1, UpTo
<1> QED
  BY <1>6 DEF at, rest

\* Messages that come in are applied where the others lead.
LEMMA ShownMore ==
  ASSUME NEW first, NEW M, NEW q \in Seq(M), NEW r \in Seq(M)
  PROVE  /\ \A k \in 0 .. Len(q) : showing(first, q \o r)[k] = showing(first, q)[k]
         /\ \A k \in 0 .. Len(r) : showing(first, q \o r)[Len(q) + k]
                                     = showing(showing(first, q)[Len(q)], r)[k]
<1> DEFINE at   == showing(first, q)
           more == showing(first, q \o r)
           rest == showing(at[Len(q)], r)
           S    == {k \in 0 .. Len(q) : more[k] = at[k]}
           T    == {k \in 0 .. Len(r) : more[Len(q) + k] = rest[k]}
<1>1. /\ Len(q) \in Nat /\ Len(r) \in Nat
      /\ q \o r \in Seq(M) /\ Len(q \o r) = Len(q) + Len(r)
      /\ \A k \in 1 .. Len(q) : (q \o r)[k] = q[k]
      /\ \A k \in 1 .. Len(r) : (q \o r)[Len(q) + k] = r[k]
  OBVIOUS
<1>2. at[0] = first /\ \A k \in 1 .. Len(q) : at[k] = after(q[k], at[k - 1])
  BY ShownSteps
<1>3. /\ more[0] = first
      /\ \A k \in 1 .. Len(q) + Len(r) : more[k] = after((q \o r)[k], more[k - 1])
  <2> DEFINE p == q \o r
  <2>1. p \in Seq(M) /\ Len(p) = Len(q) + Len(r)
    BY <1>1
  <2> HIDE DEF p
  <2>2. /\ showing(first, p)[0] = first
        /\ \A k \in 1 .. Len(p) : showing(first, p)[k] = after(p[k], showing(first, p)[k - 1])
    <3> HIDE DEF at, more, rest
    <3> QED
      BY <2>1, ShownSteps
  <2> QED
    BY <2>1, <2>2 DEF p
<1>4. rest[0] = at[Len(q)] /\ \A k \in 1 .. Len(r) : rest[k] = after(r[k], rest[k - 1])
  BY ShownSteps
<1> HIDE DEF at, more, rest
<1>5. \A k \in 0 .. Len(q) : k \in S
  <2>1. 0 \in S
    BY <1>1, <1>2, <1>3
  <2>2. ASSUME NEW k \in 0 .. Len(q) - 1, k \in S
        PROVE  k + 1 \in S
    <3>1. /\ k + 1 \in 1 .. Len(q) /\ k + 1 \in 1 .. Len(q) + Len(r)
          /\ k + 1 - 1 = k /\ k + 1 \in 0 .. Len(q)
      BY <1>1
    <3>2. more[k + 1] = after(q[k + 1], more[k])
      BY <1>1, <1>3, <3>1
    <3>3. at[k + 1] = after(q[k + 1], at[k])
      BY <1>2, <3>1
    <3> QED
      BY <2>2, <3>1, <3>2, <3>3
  <2> HIDE DEF S
  <2> QED
    BY <1>1, <2>1, <2>2, UpTo
<1>6. \A k \in 0 .. Len(r) : k \in T
  <2>1. 0 \in T
    <3>1. Len(q) \in S /\ Len(q) + 0 = Len(q) /\ 0 \in 0 .. Len(r)
      BY <1>1, <1>5
    <3> QED
      BY <1>4, <3>1
  <2>2. ASSUME NEW k \in 0 .. Len(r) - 1, k \in T
        PROVE  k + 1 \in T
    <3>1. /\ k + 1 \in 1 .. Len(r) /\ Len(q) + (k + 1) \in 1 .. Len(q) + Len(r)
          /\ k + 1 - 1 = k /\ Len(q) + (k + 1) - 1 = Len(q) + k /\ k + 1 \in 0 .. Len(r)
      BY <1>1
    <3>2. more[Len(q) + (k + 1)] = after(r[k + 1], more[Len(q) + k])
      BY <1>1, <1>3, <3>1
    <3>3. rest[k + 1] = after(r[k + 1], rest[k])
      BY <1>4, <3>1
    <3> QED
      BY <2>2, <3>1, <3>2, <3>3
  <2> HIDE DEF T
  <2> QED
    BY <1>1, <2>1, <2>2, UpTo
<1> QED
  BY <1>5, <1>6 DEF at, more, rest

-----------------------------------------------------------------------------
(* What the room does, as far as it is told *)

\* Whatever somebody may ask of the room, this person too.
Asked(s) ==
  Order(s) \/ Pass(s) \/ Discard(s) \/ PlayCard(s) \/ Premove(s) \/ UndoPremove(s) \/ LayDown(s)
RoomActs == Restart \/ Chat \/ Loop \/ \E s \in Human : Asked(s)

\* Whose the cards on the table are.
TrickIds == [i \in DOMAIN trick |-> trick[i].id]

\* Nothing that is shown changes.
Silent ==
  /\ sent = <<>>
  /\ UNCHANGED <<phase, dealer, turn, trump, scores, tricks, sitting_out, trick, turn_token>>
  /\ \A s \in Seat : CardCount(s)' = CardCount(s)

Starts ==
  /\ phase \in Waiting /\ phase' = "VOTE_ROUND1"
  /\ sent = <<deal>> \o <<update>>
  /\ tricks = Nobody /\ sitting_out = {}
  /\ UNCHANGED <<tricks, sitting_out, trick>>

Orders ==
  /\ phase \in Voting /\ phase' \in {"DISCARDING", "PLAYING"}
  /\ sent = <<ordered, update>>
  /\ sitting_out' = IF sitting_out' # {} THEN {Partner(turn)} ELSE {}
  /\ sitting_out = {}
  /\ phase = "VOTE_ROUND2" => phase' = "PLAYING"
  /\ phase = "VOTE_ROUND1" /\ phase' = "PLAYING" => dealer \in sitting_out'
  /\ UNCHANGED <<dealer, tricks, trick>>

Passes ==
  /\ phase \in Voting /\ phase' \in Voting /\ turn' # turn
  /\ sent = <<update>>
  /\ UNCHANGED <<tricks, sitting_out, trick>>

Discards ==
  /\ phase = "DISCARDING" /\ phase' = "PLAYING" /\ turn = dealer
  /\ sent = <<[type |-> "discarded", id |-> turn], update>>
  /\ UNCHANGED <<dealer, tricks, sitting_out, trick>>

CardLeaves ==
  \A s \in Seat : CardCount(s)' = CardCount(s) - IF s = turn THEN 1 ELSE 0

PlaysOn ==
  /\ phase = "PLAYING" /\ phase' = "PLAYING" /\ CardIsPlayed
  /\ sent = <<playedCard>> \o <<>> \o <<update>>
  /\ TrickIds' = Append(TrickIds, turn)
  /\ CardLeaves
  /\ UNCHANGED <<tricks, sitting_out>>

TakesTrick ==
  /\ phase = "PLAYING" /\ phase' = "PLAYING" /\ CardIsPlayed
  /\ sent = <<playedCard>> \o <<[type |-> "win_trick", id |-> turn']>>
              \o <<update>>
  /\ turn' \in Seat /\ tricks' = [tricks EXCEPT ![turn'] = @ + 1]
  /\ trick' = <<>>
  /\ CardLeaves
  /\ UNCHANGED sitting_out

EndsHand ==
  /\ phase = "PLAYING" /\ phase' \in {"VOTE_ROUND1", "ENDED"} /\ CardIsPlayed
  /\ sent = <<playedCard>> \o handEnds \o <<update>>
  /\ tricks' = Nobody /\ sitting_out' = {} /\ trick' = <<>>

LaysDown ==
  /\ phase = "PLAYING" /\ phase' \in {"VOTE_ROUND1", "ENDED"}
  /\ sent = <<[type |-> "win_hand"]>> \o dealt \o <<update>>
  /\ tricks' = Nobody /\ sitting_out' = {} /\ UNCHANGED trick

\* The phases, apart.
LEMMA Phases ==
  /\ Voting = {"VOTE_ROUND1", "VOTE_ROUND2"} /\ Waiting = {"LOBBY", "ENDED"}
  /\ Phase = {"VOTE_ROUND1", "VOTE_ROUND2", "LOBBY", "ENDED", "DISCARDING", "PLAYING"}
BY DEF Voting, Waiting, Phase

\* Before play nobody sits out, nobody has a trick, and no card is on the table.
LEMMA BeforePlay ==
  ASSUME IInv, CardsInOrder, phase \notin {"DISCARDING", "PLAYING"}
  PROVE  sitting_out = {} /\ tricks = Nobody /\ trick = <<>>
BY DEF IInv, SitterIsCallersPartner, TricksAreTallied, CardsInOrder

\* An order is told with who goes alone, and then what it has changed (order).
LEMMA OrderIsTold ==
  ASSUME IInv, CardsInOrder, NEW s, NEW alone, NEW suit, order(s, alone, suit)
  PROVE  Orders
<1>1. /\ phase \in Voting
      /\ sitting_out' = sitting_out \cup IF alone THEN {Partner(turn)} ELSE {}
      /\ UNCHANGED <<dealer, tricks, trick>>
      /\ IF phase = "VOTE_ROUND1" /\ ~(alone /\ Partner(turn) = dealer)
         THEN phase' = "DISCARDING" ELSE phase' = "PLAYING"
  BY DEF order, startPlay
<1>2. sitting_out = {}
  BY <1>1, BeforePlay, Phases
<1>3. /\ sitting_out' = IF sitting_out' # {} THEN {Partner(turn)} ELSE {}
      /\ phase = "VOTE_ROUND1" /\ phase' = "PLAYING" => dealer \in sitting_out'
  BY <1>1, <1>2
<1>4. sent = <<ordered, update>>
  <2>1. phase \notin Waiting /\ phase # "DISCARDING" /\ ~CardIsPlayed /\ phase # "PLAYING"
    BY <1>1, Phases DEF CardIsPlayed
  <2>2. phase' \notin Voting
    BY <1>1, Phases
  <2> QED
    BY <1>1, <2>1, <2>2 DEF sent
<1> QED
  BY <1>1, <1>2, <1>3, <1>4, Phases DEF Orders

\* A vote passed on is told with the next voter (pass).
LEMMA PassIsTold ==
  ASSUME IInv, NEW s, pass(s)
  PROVE  Passes
<1>1. /\ phase \in Voting /\ phase' \in Voting
      /\ turn' = advance(turn, sitting_out)
      /\ UNCHANGED <<tricks, sitting_out, trick>>
  BY DEF pass, table, Voting
<1>2. turn \in Seat
  BY DEF IInv, ControlTypeOK
<1>3. turn' # turn
  BY <1>1, <1>2 DEF advance, Left, Seat
<1>4. sent = <<update>>
  BY <1>1, <1>3, Phases DEF sent, CardIsPlayed
<1> QED
  BY <1>1, <1>3, <1>4 DEF Passes

\* The dealer's discard is told before play starts (discard).
LEMMA DiscardIsTold ==
  ASSUME IInv, NEW s, NEW card, discard(s, card)
  PROVE  Discards
<1>1. /\ phase = "DISCARDING" /\ phase' = "PLAYING"
      /\ UNCHANGED <<dealer, tricks, sitting_out, trick>>
  BY DEF discard, startPlay
<1>2. turn = dealer
  BY <1>1 DEF IInv, TurnHoldsToken
<1>3. sent = <<[type |-> "discarded", id |-> turn], update>>
  BY <1>1, Phases DEF sent, CardIsPlayed
<1> QED
  BY <1>1, <1>2, <1>3 DEF Discards

\* A game that starts is told with the deal (restart).
LEMMA RestartIsTold ==
  ASSUME IInv, CardsInOrder, restart
  PROVE  Starts
<1>1. /\ phase \in Waiting /\ phase' = "VOTE_ROUND1"
      /\ tricks' = Nobody /\ sitting_out' = {} /\ trick' = trick
  BY DEF restart, nextHand, table
<1>2. sitting_out = {} /\ tricks = Nobody
  BY <1>1, BeforePlay, Phases
<1>3. sent = <<deal>> \o <<update>>
  BY <1>1, Phases DEF sent, CardIsPlayed, dealt
<1> QED
  BY <1>1, <1>2, <1>3 DEF Starts

\* A hand laid down is told as its end (lay_down).
LEMMA LayDownIsTold ==
  ASSUME NEW s, lay_down(s)
  PROVE  LaysDown
<1>1. /\ phase = "PLAYING" /\ trick' = trick
      /\ settle(turn % 2, IF Partner(turn) \in sitting_out THEN 4 ELSE 2, turn, turn_token, cards)
  BY DEF lay_down, table
<1>2. tricks' = Nobody /\ sitting_out' = {} /\ phase' \in {"VOTE_ROUND1", "ENDED"}
  BY <1>1 DEF settle, nextHand
<1>3. sent = <<[type |-> "win_hand"]>> \o dealt \o <<update>>
  BY <1>1, <1>2, Phases DEF sent, CardIsPlayed
<1> QED
  BY <1>1, <1>2, <1>3 DEF LaysDown

\* A card that leaves a hand or a queue is one card less of the seat at turn.
LEMMA TakenLeaves ==
  ASSUME CardsInOrder, turn \in Seat, NEW card, Taken(card, cards', premoves')
  PROVE  CardLeaves
<1> SUFFICES ASSUME NEW s \in Seat
             PROVE  CardCount(s)' = CardCount(s) - IF s = turn THEN 1 ELSE 0
  BY DEF CardLeaves
<1>1. CASE s = turn
  BY <1>1 DEF Taken, CardCount
<1>2. CASE s # turn
  <2>1. cards'[s] = cards[s] /\ premoves'[s] = premoves[s]
    BY <1>2 DEF Taken
  <2>2. cards[s] \in Seq(Card) /\ premoves[s] \in Seq(Card)
    BY DEF CardsInOrder, CardTypeOK
  <2>3. CardCount(s) \in Int
    BY <2>2, LenProperties DEF CardCount
  <2> QED
    BY <1>2, <2>1, <2>3 DEF CardCount
<1> QED
  BY <1>1, <1>2

\* Whose the cards on the table are, as sequences of seats.
LEMMA TrickIdsGrow ==
  ASSUME trick \in Seq(Play), turn \in Seat, NEW card \in Card,
         trick' = Append(trick, [card |-> card, id |-> turn])
  PROVE  TrickIds' = Append(TrickIds, turn)
<1> DEFINE play == [card |-> card, id |-> turn]
<1>1. play \in Play /\ play.id = turn
  BY DEF Play
<1> HIDE DEF play
<1>2. /\ Len(trick) \in Nat /\ DOMAIN trick = 1 .. Len(trick)
      /\ \A i \in 1 .. Len(trick) : trick[i] \in Play
      /\ DOMAIN Append(trick, play) = 1 .. Len(trick) + 1
      /\ \A i \in 1 .. Len(trick) : Append(trick, play)[i] = trick[i]
      /\ Append(trick, play)[Len(trick) + 1] = play
  BY <1>1
<1>3. TrickIds \in Seq(Seat) /\ Len(TrickIds) = Len(trick)
  BY <1>2 DEF TrickIds, Play
<1>4. TrickIds' = [i \in 1 .. Len(trick) + 1 |-> IF i = Len(trick) + 1 THEN turn ELSE trick[i].id]
  <2>1. trick' = Append(trick, play)
    BY DEF play
  <2> QED
    BY <1>1, <1>2, <2>1 DEF TrickIds
<1>5. TrickIds' \in Seq(Seat) /\ Len(TrickIds') = Len(trick) + 1
  BY <1>2, <1>4 DEF Play
<1>6. /\ Append(TrickIds, turn) \in Seq(Seat) /\ Len(Append(TrickIds, turn)) = Len(trick) + 1
      /\ Append(TrickIds, turn)[Len(trick) + 1] = turn
      /\ \A i \in 1 .. Len(trick) : Append(TrickIds, turn)[i] = TrickIds[i]
  BY <1>2, <1>3
<1>7. ASSUME NEW i \in 1 .. Len(trick) + 1
      PROVE  TrickIds'[i] = Append(TrickIds, turn)[i]
  <2>1. CASE i = Len(trick) + 1
    BY <1>4, <1>6, <2>1
  <2>2. CASE i \in 1 .. Len(trick)
    <3>1. TrickIds'[i] = trick[i].id
      BY <1>2, <1>4, <2>2
    <3>2. TrickIds[i] = trick[i].id
      BY <1>2, <2>2 DEF TrickIds
    <3> QED
      BY <1>6, <2>2, <3>1, <3>2
  <2>3. i = Len(trick) + 1 \/ i \in 1 .. Len(trick)
    BY LenProperties
  <2> QED
    BY <2>1, <2>2, <2>3
<1> QED
  BY <1>5, <1>6, <1>7, SeqEqual

\* A card played is told, then the trick it ends, or the last two tricks and the end
\* of the hand (play_card, endTrick, endHand).
LEMMA PlayIsTold ==
  ASSUME IInv, IInv', CardsInOrder, phase = "PLAYING",
         NEW card, NEW own, NEW queued, Taken(card, own, queued), playTop(card, own, queued)
  PROVE  PlaysOn \/ TakesTrick \/ EndsHand
<1> DEFINE leader == IF trick = <<>> THEN turn ELSE trick_leader
           play   == [card |-> card, id |-> turn]
           stack  == Append(trick, play)
           played == played_cards \cup {[card |-> card, id |-> turn,
                                         illegal |-> Renege(card, own[turn], trick)]}
<1>1. \/ /\ Len(stack) # Active
         /\ trick' = stack /\ cards' = own /\ premoves' = queued
         /\ UNCHANGED <<phase, tricks, sitting_out>>
      \/ /\ Len(stack) = Active
         /\ \E i \in 1 .. Active :
              /\ turn' = TurnOrder(leader)[i]
              /\ tricks' = [tricks EXCEPT ![TurnOrder(leader)[i]] = @ + 1]
         /\ trick' = <<>> /\ cards' = own /\ premoves' = queued
         /\ UNCHANGED <<phase, sitting_out>>
      \/ /\ Len(stack) = Active
         /\ \E w, won : lastTrick(w, won, played, own, queued)
  BY Zenon, PlayTopSplits
<1>2. /\ trick \in Seq(Play) /\ Len(trick) \in Nat
      /\ turn \in Seat /\ turn' \in Seat /\ card \in Card
  BY DEF CardsInOrder, CardTypeOK, IInv, ControlTypeOK, Taken
<1>3. play \in Play
  BY <1>2 DEF Play
<1> HIDE DEF play
<1>4. stack # trick /\ stack # <<>> /\ Len(stack) = Len(trick) + 1
  <2>1. stack \in Seq(Play) /\ Len(stack) = Len(trick) + 1
    BY <1>2, <1>3
  <2> QED
    BY <1>2, <2>1
<1>5. ASSUME Len(stack) = Active
      PROVE  trick # <<>>
  <2>1. leader \in Seat \ sitting_out /\ sitting_out \subseteq {Partner(caller)} /\ Partner(caller) \in Seat
    BY TrickSoFar
  <2>2. Active \in {3, 4}
    BY <2>1, TurnOrderGoesRound
  <2> QED
    BY <1>4, <1>5, <2>2
<1> HIDE DEF stack, leader, played
<1>6. ASSUME trick' # trick
      PROVE  CardIsPlayed /\
             sent = <<playedCard>>
                      \o (IF phase' # "PLAYING" THEN handEnds
                          ELSE IF trick' = <<>> THEN <<[type |-> "win_trick", id |-> turn']>>
                          ELSE <<>>)
                      \o <<update>>
  <2>1. phase \notin Voting /\ phase \notin Waiting /\ phase # "DISCARDING" /\ CardIsPlayed
    BY <1>6, Phases DEF CardIsPlayed
  <2> QED
    BY <1>6, <2>1 DEF sent
<1>7. CASE trick' = stack /\ cards' = own /\ premoves' = queued /\ UNCHANGED <<phase, tricks, sitting_out>>
  <2>1. CardLeaves
    BY <1>2, <1>7, TakenLeaves
  <2>2. TrickIds' = Append(TrickIds, turn)
    BY <1>2, <1>7, TrickIdsGrow DEF stack, play
  <2>3. CardIsPlayed /\ sent = <<playedCard>> \o <<>> \o <<update>>
    BY <1>4, <1>6, <1>7
  <2> QED
    BY <1>7, <2>1, <2>2, <2>3 DEF PlaysOn
<1>8. CASE /\ Len(stack) = Active
           /\ \E i \in 1 .. Active :
                /\ turn' = TurnOrder(leader)[i]
                /\ tricks' = [tricks EXCEPT ![TurnOrder(leader)[i]] = @ + 1]
           /\ trick' = <<>> /\ cards' = own /\ premoves' = queued
           /\ UNCHANGED <<phase, sitting_out>>
  <2>1. CardLeaves
    BY <1>2, <1>8, TakenLeaves
  <2>2. CardIsPlayed /\ sent = <<playedCard>> \o <<[type |-> "win_trick", id |-> turn']>>
                             \o <<update>>
    BY <1>5, <1>6, <1>8
  <2>3. tricks' = [tricks EXCEPT ![turn'] = @ + 1]
    BY <1>8
  <2> QED
    BY <1>2, <1>8, <2>1, <2>2, <2>3 DEF TakesTrick
<1>9. CASE Len(stack) = Active /\ \E w, won : lastTrick(w, won, played, own, queued)
  <2>1. PICK w, won : lastTrick(w, won, played, own, queued)
    BY <1>9
  <2>2. trick' = <<>> /\ \E tally, last, left : endHand(tally, last, left)
    BY <2>1, Zenon DEF lastTrick
  <2>3. PICK tally, last, left : endHand(tally, last, left)
    BY <2>2
  <2>4. tricks' = Nobody /\ sitting_out' = {} /\ phase' \in {"VOTE_ROUND1", "ENDED"}
    BY <2>3 DEF endHand, settle, nextHand
  <2>5. CardIsPlayed /\ sent = <<playedCard>> \o handEnds \o <<update>>
    BY <1>5, <1>6, <1>9, <2>2, <2>4
  <2> QED
    BY <2>2, <2>4, <2>5 DEF EndsHand
<1> QED
  BY <1>1, <1>7, <1>8, <1>9

\* A step that leaves alone what is shown is not told.  Cards only move between a
\* hand and its queue then.
LEMMA NothingIsTold ==
  ASSUME CardsInOrder, CardsInOrder',
         UNCHANGED <<phase, dealer, turn, trump, scores, tricks, sitting_out, trick, turn_token>>,
         UNCHANGED <<cards, premoves>> \/ phase = "PLAYING"
  PROVE  Silent
<1>1. sent = <<>>
  <2>1. /\ ~(phase \in Voting /\ phase' \notin Voting) /\ turn' = turn
        /\ ~(phase \in Waiting /\ phase' \in Voting)
        /\ ~(phase = "DISCARDING" /\ phase' = "PLAYING")
        /\ ~CardIsPlayed
        /\ ~(phase = "PLAYING" /\ phase' # "PLAYING")
    BY Phases DEF CardIsPlayed
  <2> QED
    BY <2>1 DEF sent
<1>2. ASSUME NEW s \in Seat
      PROVE  CardCount(s)' = CardCount(s)
  <2>1. CASE UNCHANGED <<cards, premoves>>
    BY <2>1 DEF CardCount
  <2>2. CASE phase = "PLAYING"
    <3> DEFINE out  == IF \E i \in DOMAIN trick : trick[i].id = s THEN 1 ELSE 0
               size == CardsPerHand - IF s \in sitting_out THEN 0 ELSE Total(tricks)
    <3>1. CardCount(s) + out = size
      BY <2>2 DEF CardsInOrder, HandSizes
    <3>2. CardCount(s)' + out = size
      BY <2>2 DEF CardsInOrder, HandSizes, Total
    <3>3. CardCount(s) \in Int /\ CardCount(s)' \in Int /\ out \in Int
      BY LenProperties DEF CardsInOrder, CardTypeOK, CardCount
    <3> HIDE DEF out, size
    <3>4. \A a, b, o, c : a \in Int /\ b \in Int /\ o \in Int /\ a + o = c /\ b + o = c => a = b
      OBVIOUS
    <3> QED
      BY <3>1, <3>2, <3>3, <3>4
  <2> QED
    BY <2>1, <2>2
<1> QED
  BY <1>1, <1>2 DEF Silent

\* Every step of a room but a join is of one of these kinds.
LEMMA RoomStepKinds ==
  ASSUME IInv, IInv', CardIInv, CardIInv',
         RoomActs
  PROVE  \/ Silent \/ Starts \/ Orders \/ Passes \/ Discards
         \/ PlaysOn \/ TakesTrick \/ EndsHand \/ LaysDown
<1> DEFINE Goal == \/ Silent \/ Starts \/ Orders \/ Passes \/ Discards
                   \/ PlaysOn \/ TakesTrick \/ EndsHand \/ LaysDown
<1>1. CardsInOrder /\ CardsInOrder'
  BY DEF CardIInv
<1>2. ASSUME NEW s, NEW card, play_card(s, card)
      PROVE  Goal
  <2> DEFINE own == [cards EXCEPT ![turn] = erase(@, card)]
  <2>1. phase = "PLAYING" /\ Taken(card, own, premoves) /\ playTop(card, own, premoves)
    BY <1>2, PlayCardTakes
  <2> HIDE DEF own
  <2> QED
    BY <1>1, <2>1, PlayIsTold
<1>3. ASSUME NEW s, NEW alone, NEW suit, order(s, alone, suit)
      PROVE  Goal
  BY <1>1, <1>3, OrderIsTold
<1>4. ASSUME NEW s, pass(s)
      PROVE  Goal
  BY <1>4, PassIsTold
<1>5. ASSUME NEW s, NEW card, discard(s, card)
      PROVE  Goal
  BY <1>5, DiscardIsTold
<1>6. CASE Restart
  BY <1>1, <1>6, RestartIsTold DEF Restart
<1>7. CASE Chat \/ BotThrows
  <2>1. /\ UNCHANGED <<phase, dealer, turn, trump, scores, tricks, sitting_out, trick, turn_token>>
        /\ UNCHANGED <<cards, premoves>>
    BY <1>7 DEF Chat, BotThrows, contract, hands, table
  <2> QED
    BY <1>1, <2>1, NothingIsTold
<1>8. ASSUME NEW s \in Human, Asked(s)
      PROVE  Goal
  <2>1. \/ \E alone, suit : order(s, alone, suit)
        \/ pass(s)
        \/ \E card : discard(s, card)
        \/ \E card : play_card(s, card)
        \/ \E card : premove(s, card)
        \/ undo_premove(s)
        \/ lay_down(s)
    BY <1>8, Zenon DEF Asked, Order, Pass, Discard, PlayCard, Premove, UndoPremove, LayDown
  <2>2. CASE (\E card : premove(s, card)) \/ undo_premove(s)
    <3>1. /\ UNCHANGED <<phase, dealer, turn, trump, scores, tricks, sitting_out, trick, turn_token>>
          /\ phase = "PLAYING"
      BY <2>2 DEF premove, undo_premove, contract, table
    <3> QED
      BY <1>1, <3>1, NothingIsTold
  <2>3. CASE lay_down(s)
    BY <2>3, LayDownIsTold
  <2> HIDE DEF Goal
  <2> QED
    BY <1>2, <1>3, <1>4, <1>5, <2>1, <2>2, <2>3
<1>9. CASE Loop
  <2>1. CASE CascadeStep
    <3> DEFINE card   == fetched(premoves[turn])
               queued == [premoves EXCEPT ![turn] = Tail(@)]
    <3>1. phase = "PLAYING" /\ Taken(card, cards, queued) /\ playTop(card, cards, queued)
      BY <2>1, CascadeTakes
    <3>2. \A top, own, left : Taken(top, own, left) /\ playTop(top, own, left)
                              => PlaysOn \/ TakesTrick \/ EndsHand
      BY <1>1, <3>1, PlayIsTold
    <3> HIDE DEF card, queued
    <3> QED
      BY <3>1, <3>2
  <2>2. ~CascadeThrows
    BY DEF CascadeThrows, CardIInv, LoopsHaveWork
  <2>3. ASSUME BotVotes \/ BotDiscards \/ BotPlays
        PROVE  \/ \E alone, suit : order(turn, alone, suit)
               \/ pass(turn)
               \/ \E card : discard(turn, card)
               \/ \E card : play_card(turn, card)
    BY <2>3, Zenon DEF BotVotes, BotDiscards, BotPlays
  <2>4. CASE BotVotes \/ BotDiscards \/ BotPlays
    <3>1. Goal
      <4> HIDE DEF Goal
      <4> QED
        BY <1>2, <1>3, <1>4, <1>5, <2>3, <2>4
    <3> QED
      BY <3>1
  <2> QED
    BY <1>7, <1>9, <2>1, <2>2, <2>4 DEF Loop
<1> QED
  BY <1>6, <1>7, <1>8, <1>9 DEF RoomActs

-----------------------------------------------------------------------------
(* What is shown at the end of a queue *)

final(first, q) == showing(first, q)[Len(q)]
Leads(first, q, last) == last = final(first, q)
Fit(first, q)   == \A i \in DOMAIN q : fits(q[i], showing(first, q)[i - 1])

\* The end of a queue of none or one.
LEMMA FinalOfFew ==
  ASSUME NEW x, NEW m
  PROVE  /\ final(x, <<>>) = x /\ Fit(x, <<>>)
         /\ final(x, <<m>>) = after(m, x) /\ (Fit(x, <<m>>) <=> fits(m, x))
<1>1. /\ <<>> \in Seq({m}) /\ Len(<<>>) = 0 /\ DOMAIN <<>> = {}
      /\ <<m>> \in Seq({m}) /\ Len(<<m>>) = 1 /\ DOMAIN <<m>> = {1} /\ <<m>>[1] = m
  OBVIOUS
<1>2. final(x, <<>>) = x /\ Fit(x, <<>>)
  BY <1>1, ShownSteps DEF final, Fit
<1> DEFINE q == <<m>>
<1>3. q \in Seq({m}) /\ Len(q) = 1 /\ DOMAIN q = {1} /\ q[1] = m
  BY <1>1
<1> HIDE DEF q
<1>4. showing(x, q)[0] = x /\ \A k \in 1 .. Len(q) : showing(x, q)[k] = after(q[k], showing(x, q)[k - 1])
  BY <1>3, ShownSteps
<1>5. 1 \in 1 .. Len(q) /\ 1 - 1 = 0
  BY <1>3
<1>6. showing(x, q)[1] = after(m, x)
  BY <1>3, <1>4, <1>5
<1>7. final(x, q) = after(m, x)
  BY <1>3, <1>6 DEF final
<1>8. Fit(x, q) <=> fits(m, x)
  BY <1>3, <1>4, <1>5 DEF Fit
<1> QED
  BY <1>2, <1>7, <1>8 DEF q

\* The end of two queues, one after the other.
LEMMA FinalOfBoth ==
  ASSUME NEW M, NEW q \in Seq(M), NEW r \in Seq(M), NEW x
  PROVE  final(x, q \o r) = final(final(x, q), r)
<1>1. Len(q) \in Nat /\ Len(r) \in Nat /\ Len(q \o r) = Len(q) + Len(r) /\ Len(r) \in 0 .. Len(r)
  OBVIOUS
<1>2. \A k \in 0 .. Len(r) : showing(x, q \o r)[Len(q) + k] = showing(final(x, q), r)[k]
  BY ShownMore DEF final
<1> QED
  BY <1>1, <1>2 DEF final

\* A queue can be applied when its parts can, one after the other.
LEMMA FitsMore ==
  ASSUME NEW M, NEW q \in Seq(M), NEW r \in Seq(M), NEW p, p = q \o r,
         NEW x, NEW y, Leads(x, q, y)
  PROVE  Fit(x, p) <=> Fit(x, q) /\ Fit(y, r)
<1>1. /\ Len(q) \in Nat /\ Len(r) \in Nat
      /\ DOMAIN q = 1 .. Len(q) /\ DOMAIN r = 1 .. Len(r) /\ DOMAIN p = 1 .. Len(q) + Len(r)
      /\ p \in Seq(M) /\ Len(p) = Len(q) + Len(r)
      /\ \A k \in 1 .. Len(q) : p[k] = q[k]
      /\ \A k \in 1 .. Len(r) : p[Len(q) + k] = r[k]
  OBVIOUS
<1>2. /\ \A k \in 0 .. Len(q) : showing(x, p)[k] = showing(x, q)[k]
      /\ \A k \in 0 .. Len(r) : showing(x, p)[Len(q) + k] = showing(final(x, q), r)[k]
  BY ShownMore DEF final
<1>3. y = final(x, q)
  BY DEF Leads
<1>4. ASSUME Fit(x, p)
      PROVE  Fit(x, q) /\ Fit(final(x, q), r)
  <2>1. ASSUME NEW i \in 1 .. Len(q)
        PROVE  fits(q[i], showing(x, q)[i - 1])
    <3>1. i \in DOMAIN p /\ i - 1 \in 0 .. Len(q)
      BY <1>1
    <3> QED
      BY <1>1, <1>2, <1>4, <3>1 DEF Fit
  <2>2. ASSUME NEW i \in 1 .. Len(r)
        PROVE  fits(r[i], showing(final(x, q), r)[i - 1])
    <3>1. Len(q) + i \in DOMAIN p /\ i - 1 \in 0 .. Len(r) /\ Len(q) + i - 1 = Len(q) + (i - 1)
      BY <1>1
    <3>2. fits(p[Len(q) + i], showing(x, p)[Len(q) + i - 1])
      BY <1>4, <3>1 DEF Fit
    <3>3. p[Len(q) + i] = r[i]
      BY <1>1
    <3>4. showing(x, p)[Len(q) + (i - 1)] = showing(final(x, q), r)[i - 1]
      BY <1>2, <3>1
    <3> QED
      BY <3>1, <3>2, <3>3, <3>4
  <2> QED
    BY <1>1, <2>1, <2>2 DEF Fit
<1>5. ASSUME Fit(x, q), Fit(final(x, q), r)
      PROVE  Fit(x, p)
  <2> SUFFICES ASSUME NEW i \in 1 .. Len(q) + Len(r)
               PROVE  fits(p[i], showing(x, p)[i - 1])
    BY <1>1 DEF Fit
  <2>1. CASE i \in 1 .. Len(q)
    <3>1. i - 1 \in 0 .. Len(q) /\ i \in DOMAIN q
      BY <1>1, <2>1
    <3> QED
      BY <1>1, <1>2, <1>5, <2>1, <3>1 DEF Fit
  <2>2. CASE i > Len(q)
    <3> DEFINE j == i - Len(q)
    <3>1. /\ j \in 1 .. Len(r) /\ j \in DOMAIN r /\ j - 1 \in 0 .. Len(r)
          /\ i = Len(q) + j /\ i - 1 = Len(q) + (j - 1)
      BY <1>1, <2>2
    <3> HIDE DEF j
    <3>2. fits(r[j], showing(final(x, q), r)[j - 1])
      BY <1>5, <3>1 DEF Fit
    <3>3. p[i] = r[j]
      BY <1>1, <3>1
    <3>4. showing(x, p)[Len(q) + (j - 1)] = showing(final(x, q), r)[j - 1]
      BY <1>2, <3>1
    <3> QED
      BY <3>1, <3>2, <3>3, <3>4
  <2> QED
    BY <1>1, <2>1, <2>2
<1> QED
  BY <1>3, <1>4, <1>5

\* What is shown after a message, by its type (apply_queued_action).
LEMMA ShowsByType ==
  ASSUME NEW m, NEW view
  PROVE  /\ m.type = "welcome"   => shows(m, view) = m.room
         /\ m.type = "update"    => shows(m, view) = updated(m, view)
         /\ m.type = "deal"      => shows(m, view) = [view EXCEPT !.card_count = [s \in Seat |-> CardsPerHand]]
         /\ m.type = "order"     => shows(m, view) = pickedUp(m, view)
         /\ m.type = "discarded" => shows(m, view) = discarded(m, view)
         /\ m.type = "play_card" => shows(m, view) = cardPlayed(m, view)
         /\ m.type = "last_card" => shows(m, view) = [view EXCEPT !.trick = m.ids]
         /\ m.type = "win_trick" => shows(m, view) = trickWon(m, view)
         /\ m.type = "win_hand"  => shows(m, view) = [view EXCEPT !.sitting_out = {}, !.tricks = Nobody]
<1> USE DEF shows
<1>1. CASE m.type = "welcome"
  BY <1>1
<1>2. CASE m.type = "update"
  BY <1>2
<1>3. CASE m.type = "deal"
  BY <1>3
<1>4. CASE m.type = "order"
  BY <1>4
<1>5. CASE m.type = "discarded"
  BY <1>5
<1>6. CASE m.type = "play_card"
  BY <1>6
<1>7. CASE m.type = "last_card"
  BY <1>7
<1>8. CASE m.type = "win_trick"
  BY <1>8
<1>9. CASE m.type = "win_hand"
  BY <1>9
<1> QED
  BY <1>1, <1>2, <1>3, <1>4, <1>5, <1>6, <1>7, <1>8, <1>9

\* Who is shown thinking after a message, by its type.
LEMMA ThinksByType ==
  ASSUME NEW m, NEW seats
  PROVE  /\ m.type = "order" => thinks(m, seats) = {}
         /\ m.type = "update" => thinks(m, seats) = IF votes(m) THEN {m.room.turn} ELSE seats
         /\ m.type = "welcome" => thinks(m, seats) = IF votes(m) THEN seats \cup {m.room.turn} ELSE seats
         /\ m.type \notin {"order", "update", "welcome"} => thinks(m, seats) = seats
<1>1. m.type = "order" => thinks(m, seats) = {}
  BY DEF thinks
<1>2. m.type = "update" => thinks(m, seats) = IF votes(m) THEN {m.room.turn} ELSE seats
  BY DEF thinks, set_think
<1>3. m.type = "welcome" => thinks(m, seats) = IF votes(m) THEN seats \cup {m.room.turn} ELSE seats
  BY DEF thinks
<1>4. m.type \notin {"order", "update", "welcome"} => thinks(m, seats) = seats
  BY DEF thinks
<1> QED
  BY <1>1, <1>2, <1>3, <1>4

\* What a message carries, by its type.
LEMMA MessagesByType ==
  ASSUME NEW m \in Message
  PROVE  /\ m.type \in {"welcome", "update", "deal", "win_hand", "order", "discarded", "play_card",
                        "win_trick", "last_card"}
         /\ m.type = "welcome" => m.room \in View
         /\ m.type \in {"welcome", "deal"} => m.hand \in Seq(Card) /\ m.top \in AnyCard
         /\ m.type = "update" => m.room \in Update
         /\ m.type \in {"order", "discarded", "play_card", "win_trick"} => m.id \in Seat
         /\ m.type = "last_card" => m.ids \in Seq(Seat)
<1>1. CASE m \in [type : {"welcome"}, room : View, hand : Seq(Card), top : AnyCard]
  BY <1>1
<1>2. CASE m \in [type : {"update"}, room : Update]
  BY <1>2
<1>3. CASE m \in [type : {"deal"}, hand : Seq(Card), top : AnyCard]
  BY <1>3
<1>4. CASE m \in [type : {"win_hand"}]
  BY <1>4
<1>5. CASE m \in [type : {"order"}, id : Seat, alone : BOOLEAN]
  BY <1>5
<1>6. CASE m \in [type : {"discarded", "win_trick"}, id : Seat]
  BY <1>6
<1>7. CASE m \in [type : {"play_card"}, id : Seat, card : AnyCard]
  BY <1>7
<1>8. CASE m \in [type : {"last_card"}, ids : Seq(Seat), card : AnyCard]
  BY <1>8
<1> QED
  BY <1>1, <1>2, <1>3, <1>4, <1>5, <1>6, <1>7, <1>8 DEF Message

\* Counting for a seat.
LEMMA Bumped ==
  ASSUME NEW f \in [Seat -> Int], NEW s \in Seat, NEW n \in Int
  PROVE  /\ bump(f, s, n) \in [Seat -> Int]
         /\ \A t \in Seat : bump(f, s, n)[t] = IF t = s THEN f[t] + n ELSE f[t]
BY DEF bump

\* What is shown keeps its type when some of it is replaced.
LEMMA ViewWith ==
  ASSUME NEW view \in View
  PROVE  /\ \A count \in [Seat -> Int] : [view EXCEPT !.card_count = count] \in View
         /\ \A ids \in Seq(Seat) : [view EXCEPT !.trick = ids] \in View
         /\ \A out \in SUBSET Seat, count \in [Seat -> Int] :
              [view EXCEPT !.sitting_out = out, !.card_count = count] \in View
         /\ \A ids \in Seq(Seat), count \in [Seat -> Int] :
              [view EXCEPT !.card_count = count, !.trick = ids] \in View
         /\ \A ids \in Seq(Seat), won \in [Seat -> Int] :
              [view EXCEPT !.trick = ids, !.tricks = won] \in View
         /\ \A out \in SUBSET Seat, won \in [Seat -> Int] :
              [view EXCEPT !.sitting_out = out, !.tricks = won] \in View
         /\ \A p \in Phase, d \in Seat, s \in Int, suit \in Suit, points \in [Team -> Nat] :
              [view EXCEPT !.phase = p, !.dealer = d, !.turn = s, !.trump = suit,
                           !.scores = points] \in View
BY DEF View

\* What is shown has its type after any message.
LEMMA ShowsView ==
  ASSUME NEW m \in Message, NEW view \in View
  PROVE  shows(m, view) \in View
<1>1. /\ view.card_count \in [Seat -> Int] /\ view.tricks \in [Seat -> Int]
      /\ view.dealer \in Seat /\ view.trick \in Seq(Seat) /\ view.sitting_out \in SUBSET Seat
  BY DEF View
<1>2. CASE m.type = "welcome"
  BY <1>2, MessagesByType, ShowsByType
<1>3. CASE m.type = "update"
  <2>1. m.room \in Update
    BY <1>3, MessagesByType
  <2>2. /\ m.room.phase \in Phase /\ m.room.dealer \in Seat /\ m.room.turn \in Int
        /\ m.room.trump \in Suit /\ m.room.scores \in [Team -> Nat]
    BY <2>1 DEF Update, Seat
  <2>3. updated(m, view) \in View
    BY <2>2, ViewWith DEF updated
  <2> QED
    BY <1>3, <2>3, ShowsByType
<1>4. CASE m.type = "deal"
  <2>1. [s \in Seat |-> CardsPerHand] \in [Seat -> Int]
    BY GameAssumption
  <2>2. [view EXCEPT !.card_count = [s \in Seat |-> CardsPerHand]] \in View
    BY <2>1, ViewWith
  <2> QED
    BY <1>4, <2>2, ShowsByType
<1>5. CASE m.type = "order"
  <2> DEFINE out   == view.sitting_out \cup IF m.alone THEN {Partner(m.id)} ELSE {}
             count == IF view.phase = "VOTE_ROUND1" /\ view.dealer # Me
                      THEN bump(view.card_count, view.dealer, 1) ELSE view.card_count
  <2>1. Partner(m.id) \in Seat
    BY <1>5, MessagesByType, SeatsStay
  <2>2. bump(view.card_count, view.dealer, 1) \in [Seat -> Int]
    BY <1>1 DEF bump
  <2>3. out \in SUBSET Seat /\ count \in [Seat -> Int]
    BY <1>1, <2>1, <2>2
  <2>4. pickedUp(m, view) = [view EXCEPT !.sitting_out = out, !.card_count = count]
    BY DEF pickedUp
  <2> HIDE DEF out, count
  <2>5. [view EXCEPT !.sitting_out = out, !.card_count = count] \in View
    BY <2>3, ViewWith
  <2>6. pickedUp(m, view) \in View
    BY <2>4, <2>5
  <2> QED
    BY <1>5, <2>6, ShowsByType
<1>6. CASE m.type = "discarded"
  <2> DEFINE count == bump(view.card_count, m.id, -1)
  <2>1. m.id \in Seat /\ -1 \in Int
    BY <1>6, MessagesByType
  <2>2. count \in [Seat -> Int]
    BY <1>1, <2>1, Bumped
  <2>3. discarded(m, view) \in {view, [view EXCEPT !.card_count = count]}
    BY DEF discarded
  <2> HIDE DEF count
  <2>4. [view EXCEPT !.card_count = count] \in View
    BY <2>2, ViewWith
  <2>5. discarded(m, view) \in View
    BY <2>3, <2>4
  <2> QED
    BY <1>6, <2>5, ShowsByType
<1>7. CASE m.type = "play_card"
  <2> DEFINE count == bump(view.card_count, m.id, -1)
             ids   == Append(view.trick, m.id)
  <2>1. m.id \in Seat /\ -1 \in Int
    BY <1>7, MessagesByType
  <2>2. count \in [Seat -> Int] /\ ids \in Seq(Seat)
    BY <1>1, <2>1 DEF bump
  <2>3. cardPlayed(m, view) = [view EXCEPT !.card_count = count, !.trick = ids]
    BY DEF cardPlayed
  <2> HIDE DEF count, ids
  <2>4. [view EXCEPT !.card_count = count, !.trick = ids] \in View
    BY <2>2, ViewWith
  <2>5. cardPlayed(m, view) \in View
    BY <2>3, <2>4
  <2> QED
    BY <1>7, <2>5, ShowsByType
<1>8. CASE m.type = "last_card"
  <2>1. [view EXCEPT !.trick = m.ids] \in View
    BY <1>8, MessagesByType, ViewWith
  <2> QED
    BY <1>8, <2>1, ShowsByType
<1>9. CASE m.type = "win_trick"
  <2> DEFINE won == bump(view.tricks, m.id, 1)
  <2>1. m.id \in Seat
    BY <1>9, MessagesByType
  <2>2. won \in [Seat -> Int] /\ <<>> \in Seq(Seat)
    BY <1>1, <2>1 DEF bump
  <2>3. trickWon(m, view) = [view EXCEPT !.trick = <<>>, !.tricks = won]
    BY DEF trickWon
  <2> HIDE DEF won
  <2>4. [view EXCEPT !.trick = <<>>, !.tricks = won] \in View
    BY <2>2, ViewWith
  <2>5. trickWon(m, view) \in View
    BY <2>3, <2>4
  <2> QED
    BY <1>9, <2>5, ShowsByType
<1>10. CASE m.type = "win_hand"
  <2>1. Nobody \in [Seat -> Int] /\ {} \in SUBSET Seat
    BY DEF Nobody
  <2>2. [view EXCEPT !.sitting_out = {}, !.tricks = Nobody] \in View
    BY <2>1, ViewWith
  <2> QED
    BY <1>10, <2>2, ShowsByType
<1> QED
  BY <1>2, <1>3, <1>4, <1>5, <1>6, <1>7, <1>8, <1>9, <1>10, MessagesByType

\* Every view of a chain has its type.
LEMMA ShownViews ==
  ASSUME NEW first, first.view \in View, NEW q \in Seq(Message)
  PROVE  \A k \in 0 .. Len(q) : showing(first, q)[k].view \in View
<1> DEFINE at == showing(first, q)
           S  == {k \in 0 .. Len(q) : at[k].view \in View}
<1>1. at[0] = first /\ \A k \in 1 .. Len(q) : at[k] = after(q[k], at[k - 1])
  BY ShownSteps
<1>2. Len(q) \in Nat /\ \A k \in 1 .. Len(q) : q[k] \in Message
  OBVIOUS
<1> HIDE DEF at
<1>3. 0 \in S
  BY <1>1, <1>2
<1>4. ASSUME NEW k \in 0 .. Len(q) - 1, k \in S
      PROVE  k + 1 \in S
  <2>1. k + 1 \in 1 .. Len(q) /\ k + 1 - 1 = k /\ k + 1 \in 0 .. Len(q)
    BY <1>2
  <2>2. at[k + 1] = after(q[k + 1], at[k]) /\ q[k + 1] \in Message /\ at[k].view \in View
    BY <1>1, <1>2, <1>4, <2>1
  <2>3. at[k + 1].view = shows(q[k + 1], at[k].view)
    BY <2>2 DEF after
  <2>4. shows(q[k + 1], at[k].view) \in View
    BY <2>2, ShowsView
  <2> QED
    BY <2>1, <2>3, <2>4
<1>5. \A k \in 0 .. Len(q) : k \in S
  <2> HIDE DEF S
  <2> QED
    BY <1>2, <1>3, <1>4, UpTo
<1> QED
  BY <1>5 DEF at

-----------------------------------------------------------------------------
(* What the room tells *)

\* The end of a queue of two.
LEMMA FinalOfTwo ==
  ASSUME NEW M, NEW a \in M, NEW b \in M, NEW q, q = <<a, b>>,
         NEW x, NEW y, y = after(a, x), NEW z, z = after(b, y)
  PROVE  q \in Seq(M) /\ Leads(x, q, z) /\ (fits(a, x) /\ fits(b, y) => Fit(x, q))
<1> DEFINE p == <<a, b>>
<1>1. p \in Seq(M) /\ Len(p) = 2 /\ DOMAIN p = {1, 2} /\ p[1] = a /\ p[2] = b
  OBVIOUS
<1> HIDE DEF p
<1>2. showing(x, p)[0] = x /\ \A k \in 1 .. Len(p) : showing(x, p)[k] = after(p[k], showing(x, p)[k - 1])
  <2>1. p \in Seq(M)
    BY <1>1
  <2> QED
    BY ONLY <2>1, ShownSteps
<1>3. 1 \in 1 .. Len(p) /\ 2 \in 1 .. Len(p) /\ 1 - 1 = 0 /\ 2 - 1 = 1
  BY <1>1
<1>4. showing(x, p)[1] = y
  BY <1>1, <1>2, <1>3
<1>5. showing(x, p)[2] = z
  BY <1>1, <1>2, <1>3, <1>4
<1>6. fits(a, x) /\ fits(b, y) => Fit(x, p)
  BY <1>1, <1>2, <1>3, <1>4 DEF Fit
<1> QED
  BY <1>1, <1>5, <1>6 DEF Leads, final, p

\* The end of a queue of four.
LEMMA FinalOfFour ==
  ASSUME NEW M, NEW a \in M, NEW b \in M, NEW c \in M, NEW d \in M, NEW q, q = <<a, b, c, d>>,
         NEW x, NEW y, y = after(a, x), NEW z, z = after(b, y), NEW v, v = after(c, z),
         NEW w, w = after(d, v)
  PROVE  /\ q \in Seq(M) /\ Leads(x, q, w)
         /\ fits(a, x) /\ fits(b, y) /\ fits(c, z) /\ fits(d, v) => Fit(x, q)
<1> DEFINE p == <<a, b, c, d>>
<1>1. /\ p \in Seq(M) /\ Len(p) = 4 /\ DOMAIN p = {1, 2, 3, 4}
      /\ p[1] = a /\ p[2] = b /\ p[3] = c /\ p[4] = d
  OBVIOUS
<1> HIDE DEF p
<1>2. showing(x, p)[0] = x /\ \A k \in 1 .. Len(p) : showing(x, p)[k] = after(p[k], showing(x, p)[k - 1])
  <2>1. p \in Seq(M)
    BY <1>1
  <2> QED
    BY ONLY <2>1, ShownSteps
<1>3. /\ 1 \in 1 .. Len(p) /\ 2 \in 1 .. Len(p) /\ 3 \in 1 .. Len(p) /\ 4 \in 1 .. Len(p)
      /\ 1 - 1 = 0 /\ 2 - 1 = 1 /\ 3 - 1 = 2 /\ 4 - 1 = 3
  BY <1>1
<1>4. showing(x, p)[1] = y
  BY <1>1, <1>2, <1>3
<1>5. showing(x, p)[2] = z
  BY <1>1, <1>2, <1>3, <1>4
<1>6. showing(x, p)[3] = v
  BY <1>1, <1>2, <1>3, <1>5
<1>7. showing(x, p)[4] = w
  BY <1>1, <1>2, <1>3, <1>6
<1>8. fits(a, x) /\ fits(b, y) /\ fits(c, z) /\ fits(d, v) => Fit(x, p)
  BY <1>1, <1>2, <1>3, <1>4, <1>5, <1>6 DEF Fit
<1> QED
  BY <1>1, <1>7, <1>8 DEF Leads, final, p

\* What a settled view shows, field by field.
Shows(view) ==
  /\ view.dealer = dealer /\ view.trump = trump /\ view.scores = scores
  /\ view.tricks = tricks /\ view.sitting_out = sitting_out /\ view.trick = TrickIds
  /\ (view.phase = "VOTE_ROUND1" <=> phase = "VOTE_ROUND1")
  /\ phase \notin Waiting => CountsAgree(view)

\* It is settled when it shows these.
LEMMA SettledShows ==
  ASSUME NEW view
  PROVE  (Settled(view) <=> Shows(view)) /\ (Settled(view)' <=> Shows(view)')
<1>1. DOMAIN room \ {"phase", "turn", "card_count"}
        = {"dealer", "trump", "scores", "tricks", "sitting_out", "trick"}
  BY DEF room
<1>2. DOMAIN room' \ {"phase", "turn", "card_count"}
        = {"dealer", "trump", "scores", "tricks", "sitting_out", "trick"}
  BY DEF room
<1>3. /\ room.dealer = dealer /\ room.trump = trump /\ room.scores = scores
      /\ room.tricks = tricks /\ room.sitting_out = sitting_out /\ room.trick = TrickIds
  BY DEF room, TrickIds
<1>4. /\ room'.dealer = dealer' /\ room'.trump = trump' /\ room'.scores = scores'
      /\ room'.tricks = tricks' /\ room'.sitting_out = sitting_out' /\ room'.trick = TrickIds'
  BY DEF room, TrickIds
<1>5. (\A field \in DOMAIN room \ {"phase", "turn", "card_count"} : view[field] = room[field])
      <=> /\ view.dealer = dealer /\ view.trump = trump /\ view.scores = scores
          /\ view.tricks = tricks /\ view.sitting_out = sitting_out /\ view.trick = TrickIds
  BY <1>1, <1>3
<1>6. (\A field \in DOMAIN room' \ {"phase", "turn", "card_count"} : view[field] = room'[field])
      <=> /\ view.dealer = dealer' /\ view.trump = trump' /\ view.scores = scores'
          /\ view.tricks = tricks' /\ view.sitting_out = sitting_out' /\ view.trick = TrickIds'
  BY <1>2, <1>4
<1>7. Settled(view) <=> Shows(view)
  BY <1>5 DEF Settled, Shows
<1>8. Settled(view)' <=> Shows(view)'
  BY <1>6 DEF Settled, Shows
<1> QED
  BY <1>7, <1>8

\* The end of a queue and one message more.
LEMMA FinalOfOneMore ==
  ASSUME NEW M, NEW q \in Seq(M), NEW m \in M, NEW p, p = q \o <<m>>,
         NEW x, NEW y, Leads(x, q, y), NEW z, z = after(m, y)
  PROVE  p \in Seq(M) /\ Leads(x, p, z) /\ (Fit(x, q) /\ fits(m, y) => Fit(x, p))
<1> DEFINE r == <<m>>
           last == after(m, y)
<1>1. r \in Seq(M) /\ p = q \o r
  OBVIOUS
<1>2. Leads(y, r, last) /\ (Fit(y, r) <=> fits(m, y))
  BY FinalOfFew DEF Leads
<1> HIDE DEF r, last
<1>3. p \in Seq(M) /\ Leads(x, p, last)
  <2>1. q \o r \in Seq(M)
    BY <1>1
  <2>2. final(x, q \o r) = final(final(x, q), r)
    BY <1>1, FinalOfBoth
  <2> QED
    BY <1>1, <1>2, <2>1, <2>2 DEF Leads
<1>4. Fit(x, p) <=> Fit(x, q) /\ Fit(y, r)
  BY <1>1, FitsMore
<1> QED
  BY <1>2, <1>3, <1>4 DEF last

\* What the fields of a view are after a message.
LEMMA FieldsAfter ==
  ASSUME NEW m, NEW v \in View, NEW w, w = shows(m, v)
  PROVE  /\ m.type = "update" =>
              /\ w.phase = m.room.phase /\ w.dealer = m.room.dealer /\ w.turn = m.room.turn
              /\ w.trump = m.room.trump /\ w.scores = m.room.scores
              /\ w.tricks = v.tricks /\ w.sitting_out = v.sitting_out
              /\ w.trick = v.trick /\ w.card_count = v.card_count
         /\ m.type \in {"deal", "order", "discarded", "play_card", "last_card", "win_trick", "win_hand"} =>
              /\ w.phase = v.phase /\ w.dealer = v.dealer /\ w.turn = v.turn
              /\ w.trump = v.trump /\ w.scores = v.scores
         /\ m.type = "deal" =>
              /\ w.tricks = v.tricks /\ w.sitting_out = v.sitting_out /\ w.trick = v.trick
              /\ w.card_count = [s \in Seat |-> CardsPerHand]
         /\ m.type = "order" =>
              /\ w.tricks = v.tricks /\ w.trick = v.trick
              /\ w.sitting_out = v.sitting_out \cup IF m.alone THEN {Partner(m.id)} ELSE {}
              /\ w.card_count = IF v.phase = "VOTE_ROUND1" /\ v.dealer # Me
                                THEN bump(v.card_count, v.dealer, 1) ELSE v.card_count
         /\ m.type = "discarded" =>
              /\ w.tricks = v.tricks /\ w.sitting_out = v.sitting_out /\ w.trick = v.trick
              /\ w.card_count = IF v.dealer = Me THEN v.card_count ELSE bump(v.card_count, m.id, -1)
         /\ m.type = "play_card" =>
              /\ w.tricks = v.tricks /\ w.sitting_out = v.sitting_out
              /\ w.trick = Append(v.trick, m.id) /\ w.card_count = bump(v.card_count, m.id, -1)
         /\ m.type = "last_card" =>
              /\ w.tricks = v.tricks /\ w.sitting_out = v.sitting_out
              /\ w.trick = m.ids /\ w.card_count = v.card_count
         /\ m.type = "win_trick" =>
              /\ w.tricks = bump(v.tricks, m.id, 1) /\ w.sitting_out = v.sitting_out
              /\ w.trick = <<>> /\ w.card_count = v.card_count
         /\ m.type = "win_hand" =>
              /\ w.tricks = Nobody /\ w.sitting_out = {}
              /\ w.trick = v.trick /\ w.card_count = v.card_count
<1>1. CASE m.type = "update"
  <2>1. w = updated(m, v)
    BY <1>1, ShowsByType
  <2> QED
    BY <1>1, <2>1 DEF updated, View
<1>2. CASE m.type = "deal"
  <2>1. w = [v EXCEPT !.card_count = [s \in Seat |-> CardsPerHand]]
    BY <1>2, ShowsByType
  <2> QED
    BY <1>2, <2>1 DEF View
<1>3. CASE m.type = "order"
  <2>1. w = pickedUp(m, v)
    BY <1>3, ShowsByType
  <2> QED
    BY <1>3, <2>1 DEF pickedUp, View
<1>4. CASE m.type = "discarded"
  <2>1. w = discarded(m, v)
    BY <1>4, ShowsByType
  <2> QED
    BY <1>4, <2>1 DEF discarded, View
<1>5. CASE m.type = "play_card"
  <2>1. w = cardPlayed(m, v)
    BY <1>5, ShowsByType
  <2> QED
    BY <1>5, <2>1 DEF cardPlayed, View
<1>6. CASE m.type = "last_card"
  <2>1. w = [v EXCEPT !.trick = m.ids]
    BY <1>6, ShowsByType
  <2> QED
    BY <1>6, <2>1 DEF View
<1>7. CASE m.type = "win_trick"
  <2>1. w = trickWon(m, v)
    BY <1>7, ShowsByType
  <2> QED
    BY <1>7, <2>1 DEF trickWon, View
<1>8. CASE m.type = "win_hand"
  <2>1. w = [v EXCEPT !.sitting_out = {}, !.tricks = Nobody]
    BY <1>8, ShowsByType
  <2> QED
    BY <1>8, <2>1 DEF View
<1> QED
  BY <1>1, <1>2, <1>3, <1>4, <1>5, <1>6, <1>7, <1>8

\* The messages of a room that goes on, a discard apart.
News == {m \in Message : m.type \notin {"welcome", "discarded"}}

\* The end of two queues of them, one after the other.
LEMMA FinalOfNews ==
  ASSUME NEW q, NEW r, NEW p, NEW x, NEW y, NEW z,
         q \in Seq(News), r \in Seq(News), p = q \o r, Leads(x, q, y), Leads(y, r, z)
  PROVE  p \in Seq(News) /\ Leads(x, p, z)
<1> DEFINE M == News
<1>1. q \in Seq(M) /\ r \in Seq(M)
  OBVIOUS
<1> HIDE DEF M
<1>2. q \o r \in Seq(M)
  BY <1>1
<1>3. final(x, q \o r) = final(final(x, q), r)
  BY <1>1, FinalOfBoth
<1> QED
  BY <1>2, <1>3 DEF Leads, M

\* An update settles what the messages before it have brought up to date.
LEMMA UpdateSettles ==
  ASSUME IInv', CardTypeOK', NEW z, z.view \in View,
         z.view.tricks = tricks', z.view.sitting_out = sitting_out', z.view.trick = TrickIds',
         phase' \notin Waiting => CountsAgree(z.view)',
         NEW y, y = after(update, z)
  PROVE  /\ update \in News
         /\ y.view.phase = phase' /\ y.view.turn = turn' /\ Settled(y.view)'
         /\ y.seats = IF phase' \in Voting THEN {turn'} ELSE z.seats
         /\ fits(update, z) <=> (phase' \in Voting => turn' \notin z.seats)
<1>1. /\ update.type = "update"
      /\ update.room.phase = phase' /\ update.room.dealer = dealer' /\ update.room.turn = turn'
      /\ update.room.trump = trump' /\ update.room.scores = scores'
  BY DEF update
<1>2. update \in Message
  <2>1. /\ phase' \in Phase /\ dealer' \in Seat /\ turn' \in Seat /\ trump' \in Suit
        /\ scores' \in [Team -> Nat]
    BY DEF IInv, ControlTypeOK, CardTypeOK
  <2>2. update \in [type : {"update"}, room : Update]
    BY <2>1 DEF update, Update
  <2> QED
    BY <2>2 DEF Message
<1>3. votes(update) <=> phase' \in Voting
  BY <1>1 DEF votes
<1>4. y.view = shows(update, z.view) /\ y.seats = thinks(update, z.seats)
  BY DEF after
<1>5. /\ y.view.phase = phase' /\ y.view.dealer = dealer' /\ y.view.turn = turn'
      /\ y.view.trump = trump' /\ y.view.scores = scores'
      /\ y.view.tricks = tricks' /\ y.view.sitting_out = sitting_out'
      /\ y.view.trick = TrickIds' /\ y.view.card_count = z.view.card_count
  BY <1>1, <1>4, FieldsAfter
<1>6. Settled(y.view)'
  <2>1. phase' \notin Waiting => CountsAgree(y.view)'
    BY <1>5 DEF CountsAgree, Others
  <2>2. Shows(y.view)'
    BY <1>5, <2>1 DEF Shows
  <2> QED
    BY <2>2, SettledShows
<1>7. y.seats = IF phase' \in Voting THEN {turn'} ELSE z.seats
  BY <1>1, <1>3, <1>4, ThinksByType
<1>8. fits(update, z) <=> (phase' \in Voting => turn' \notin z.seats)
  BY <1>1, <1>3 DEF fits
<1> QED
  BY <1>1, <1>2, <1>5, <1>6, <1>7, <1>8 DEF News

\* What is shown when a step of the room has been told.
Follows(x, y) ==
  /\ y.view.phase = phase' /\ y.view.turn = turn' /\ Settled(y.view)'
  /\ x.seats = Thinkers => y.seats = Thinkers' /\ Fit(x, sent)

\* The cards of the seats until play starts.
LEMMA BidCounts ==
  ASSUME HandSizes, phase \in Voting \cup {"DISCARDING"}
  PROVE  \A s \in Seat : CardCount(s) = CardsPerHand + IF phase = "DISCARDING" /\ s = dealer THEN 1 ELSE 0
<1> SUFFICES ASSUME NEW s \in Seat
             PROVE  CardCount(s) = CardsPerHand + IF phase = "DISCARDING" /\ s = dealer THEN 1 ELSE 0
  OBVIOUS
<1>1. /\ Len(cards[s]) = CardsPerHand + IF phase = "DISCARDING" /\ s = dealer THEN 1 ELSE 0
      /\ premoves[s] = <<>>
  BY DEF HandSizes
<1> QED
  BY <1>1, GameAssumption DEF CardCount

\* The same after a step.
LEMMA BidCountsNext ==
  ASSUME HandSizes', phase' \in Voting \cup {"DISCARDING"}
  PROVE  \A s \in Seat : CardCount(s)' = CardsPerHand + IF phase' = "DISCARDING" /\ s = dealer' THEN 1 ELSE 0
<1> SUFFICES ASSUME NEW s \in Seat
             PROVE  CardCount(s)' = CardsPerHand + IF phase' = "DISCARDING" /\ s = dealer' THEN 1 ELSE 0
  OBVIOUS
<1>1. /\ Len(cards'[s]) = CardsPerHand + IF phase' = "DISCARDING" /\ s = dealer' THEN 1 ELSE 0
      /\ premoves'[s] = <<>>
  BY DEF HandSizes
<1> QED
  BY <1>1, GameAssumption DEF CardCount

\* The cards of the seats as play starts.
LEMMA PlayCountsNext ==
  ASSUME CardsInOrder', phase' = "PLAYING", trick' = <<>>, tricks' = Nobody
  PROVE  \A s \in Seat : CardCount(s)' = CardsPerHand
<1> SUFFICES ASSUME NEW s \in Seat
             PROVE  CardCount(s)' = CardsPerHand
  OBVIOUS
<1>1. CardCount(s)' + (IF \E i \in DOMAIN trick' : trick'[i].id = s THEN 1 ELSE 0)
        = CardsPerHand - IF s \in sitting_out' THEN 0 ELSE Total(tricks')
  BY DEF CardsInOrder, HandSizes, Total
<1>2. ~(\E i \in DOMAIN trick' : trick'[i].id = s) /\ Total(tricks') = 0
  BY NobodyHasNone
<1>3. CardCount(s)' \in Int
  BY LenProperties DEF CardsInOrder, CardTypeOK, CardCount
<1> QED
  BY <1>1, <1>2, <1>3, GameAssumption

\* An order is shown as it is: who goes alone, the card picked up, the trump.
LEMMA OrdersFollow ==
  ASSUME IInv, IInv', CardsInOrder, CardsInOrder', drops' = drops, Orders,
         NEW x, x.view \in View, Settled(x.view)
  PROVE  sent \in Seq(News) /\ \E y : Leads(x, sent, y) /\ Follows(x, y)
<1> DEFINE alone == sitting_out' # {}
<1>1. turn \in Seat /\ alone \in BOOLEAN /\ dealer \in Seat
  BY DEF IInv, ControlTypeOK
<1>2. ordered = [type |-> "order", id |-> turn, alone |-> alone]
  BY DEF ordered
<1> HIDE DEF alone
<1>3. /\ ordered.type = "order" /\ ordered.id = turn /\ ordered.alone = alone
      /\ ordered \in [type : {"order"}, id : Seat, alone : BOOLEAN]
  BY <1>1, <1>2
<1>4. ordered \in News
  BY <1>3 DEF News, Message
<1>5. PICK m : m = ordered
  OBVIOUS
<1>6. m \in News /\ m \in Message /\ m.type = "order" /\ m.id = turn /\ m.alone = alone
  BY <1>3, <1>4, <1>5 DEF News
<1>7. PICK z : z = after(m, x)
  OBVIOUS
<1>8. z.view = shows(m, x.view) /\ z.seats = {}
  BY <1>6, <1>7, ThinksByType DEF after
<1>9. Shows(x.view)
  BY SettledShows
<1>10. z.view \in View
  BY <1>6, <1>8, ShowsView
<1>11. z.view.tricks = tricks' /\ z.view.trick = TrickIds'
  BY <1>6, <1>8, <1>9, FieldsAfter DEF Orders, Shows, TrickIds
<1>12. z.view.sitting_out = sitting_out'
  <2>1. z.view.sitting_out = x.view.sitting_out \cup IF alone THEN {Partner(turn)} ELSE {}
    BY <1>6, <1>8, FieldsAfter
  <2> QED
    BY <1>9, <2>1 DEF Orders, Shows, alone
<1>13. /\ z.view.card_count = IF phase = "VOTE_ROUND1" /\ dealer # Me
                              THEN bump(x.view.card_count, dealer, 1) ELSE x.view.card_count
       /\ x.view.card_count \in [Seat -> Int]
  <2>1. z.view.card_count = IF x.view.phase = "VOTE_ROUND1" /\ x.view.dealer # Me
                            THEN bump(x.view.card_count, x.view.dealer, 1) ELSE x.view.card_count
    BY <1>6, <1>8, FieldsAfter
  <2>2. x.view.dealer = dealer /\ (x.view.phase = "VOTE_ROUND1" <=> phase = "VOTE_ROUND1")
    BY <1>9 DEF Shows
  <2> QED
    BY <2>1, <2>2 DEF View
<1>14. CountsAgree(z.view)'
  <2> SUFFICES ASSUME NEW s \in Seat, s \notin sitting_out', s # Me
               PROVE  /\ z.view.card_count[s] =< CardCount(s)'
                      /\ drops' = 0 => z.view.card_count[s] = CardCount(s)'
    BY DEF CountsAgree, Others
  <2>1. phase \in Voting /\ phase \notin Waiting /\ phase # "DISCARDING"
    BY Phases DEF Orders
  <2>2. CardCount(s) = CardsPerHand
    BY <2>1, BidCounts, GameAssumption DEF CardsInOrder
  <2>3. /\ x.view.card_count[s] =< CardsPerHand
        /\ drops = 0 => x.view.card_count[s] = CardsPerHand
    BY <1>9, <2>1, <2>2 DEF Shows, CountsAgree, Others, Orders
  <2>4. z.view.card_count[s] = x.view.card_count[s]
                                 + IF phase = "VOTE_ROUND1" /\ s = dealer THEN 1 ELSE 0
    BY <1>1, <1>13, Bumped
  <2>5. x.view.card_count[s] \in Int
    BY <1>13
  <2>6. CASE phase' = "DISCARDING"
    <3>1. CardCount(s)' = CardsPerHand + IF s = dealer THEN 1 ELSE 0
      BY <2>6, BidCountsNext DEF CardsInOrder, Orders
    <3>2. phase = "VOTE_ROUND1"
      BY <2>1, <2>6 DEF Orders, Voting
    <3> QED
      BY <2>3, <2>4, <2>5, <3>1, <3>2, GameAssumption
  <2>7. CASE phase' = "PLAYING"
    <3>1. tricks' = Nobody /\ trick' = <<>>
      BY <2>1, BeforePlay, Phases DEF Orders
    <3>2. CardCount(s)' = CardsPerHand
      BY <2>7, <3>1, PlayCountsNext
    <3>3. ~(phase = "VOTE_ROUND1" /\ s = dealer)
      BY <2>7 DEF Orders
    <3> QED
      BY <2>3, <2>4, <2>5, <3>2, <3>3, GameAssumption
  <2> QED
    BY <2>6, <2>7 DEF Orders
<1>15. PICK y : y = after(update, z)
  OBVIOUS
<1>16. /\ update \in News
       /\ y.view.phase = phase' /\ y.view.turn = turn' /\ Settled(y.view)'
       /\ y.seats = IF phase' \in Voting THEN {turn'} ELSE z.seats
       /\ fits(update, z) <=> (phase' \in Voting => turn' \notin z.seats)
  BY <1>10, <1>11, <1>12, <1>14, <1>15, UpdateSettles DEF CardsInOrder
<1>17. phase' \notin Voting
  BY Phases DEF Orders
<1>18. fits(m, x)
  BY <1>6 DEF fits, votes
<1>19. /\ sent \in Seq(News) /\ Leads(x, sent, y)
       /\ fits(m, x) /\ fits(update, z) => Fit(x, sent)
  <2>1. sent = <<m, update>>
    BY <1>5 DEF Orders
  <2> QED
    BY <1>6, <1>7, <1>15, <1>16, <2>1, FinalOfTwo
<1>20. y.seats = Thinkers'
  BY <1>8, <1>16, <1>17 DEF Thinkers
<1> QED
  BY <1>16, <1>17, <1>18, <1>19, <1>20 DEF Follows

\* The end of a queue of one.
LEMMA FinalOfOne ==
  ASSUME NEW M, NEW m \in M, NEW q, q = <<m>>, NEW x, NEW y, y = after(m, x)
  PROVE  q \in Seq(M) /\ Leads(x, q, y) /\ (fits(m, x) => Fit(x, q))
<1>1. <<m>> \in Seq(M)
  OBVIOUS
<1>2. final(x, <<m>>) = after(m, x) /\ (Fit(x, <<m>>) <=> fits(m, x))
  BY FinalOfFew
<1> QED
  BY <1>1, <1>2 DEF Leads

\* News that names no voter leaves who thinks, but for an order, and can be applied.
LEMMA NewsFits ==
  ASSUME NEW m \in News, m.type # "update", NEW x, NEW y, y = after(m, x)
  PROVE  /\ fits(m, x) /\ y.view = shows(m, x.view)
         /\ y.seats = IF m.type = "order" THEN {} ELSE x.seats
         /\ m \in Message /\ (x.view \in View => y.view \in View)
<1>1. m \in Message /\ m.type \notin {"welcome", "discarded", "update"}
  BY DEF News
<1>2. fits(m, x)
  BY <1>1 DEF fits, votes
<1>3. y.view = shows(m, x.view) /\ y.seats = thinks(m, x.seats)
  BY DEF after
<1>4. y.seats = IF m.type = "order" THEN {} ELSE x.seats
  BY <1>1, <1>3, ThinksByType
<1>5. x.view \in View => y.view \in View
  BY <1>1, <1>3, ShowsView
<1> QED
  BY <1>1, <1>2, <1>3, <1>4, <1>5

\* What is told and then an update follow the room, when what is told has brought
\* up to date what the update does not carry.
LEMMA UpdateFollows ==
  ASSUME IInv', CardTypeOK', NEW x, NEW z, NEW q \in Seq(News), Leads(x, q, z),
         sent = q \o <<update>>, z.view \in View,
         z.view.tricks = tricks', z.view.sitting_out = sitting_out', z.view.trick = TrickIds',
         phase' \notin Waiting => CountsAgree(z.view)',
         x.seats = Thinkers => /\ Fit(x, q)
                               /\ IF phase' \in Voting THEN turn' \notin z.seats ELSE z.seats = {}
  PROVE  sent \in Seq(News) /\ \E y : Leads(x, sent, y) /\ Follows(x, y)
<1>1. PICK y : y = after(update, z)
  OBVIOUS
<1>2. /\ update \in News
      /\ y.view.phase = phase' /\ y.view.turn = turn' /\ Settled(y.view)'
      /\ y.seats = IF phase' \in Voting THEN {turn'} ELSE z.seats
      /\ fits(update, z) <=> (phase' \in Voting => turn' \notin z.seats)
  BY <1>1, UpdateSettles
<1>3. PICK m : m = update
  OBVIOUS
<1>4. sent \in Seq(News) /\ Leads(x, sent, y) /\ (Fit(x, q) /\ fits(m, z) => Fit(x, sent))
  <2>1. m \in News /\ sent = q \o <<m>> /\ y = after(m, z)
    BY <1>1, <1>2, <1>3
  <2> QED
    BY <2>1, FinalOfOneMore
<1>5. x.seats = Thinkers => y.seats = Thinkers' /\ Fit(x, sent)
  BY <1>2, <1>3, <1>4 DEF Thinkers
<1> QED
  BY <1>2, <1>4, <1>5 DEF Follows

\* A vote passed on is shown as it is.
LEMMA PassesFollow ==
  ASSUME IInv, IInv', CardsInOrder, CardsInOrder', drops' = drops, Passes,
         NEW x, x.view \in View, Settled(x.view)
  PROVE  sent \in Seq(News) /\ \E y : Leads(x, sent, y) /\ Follows(x, y)
<1>1. Shows(x.view)
  BY SettledShows
<1>2. /\ x.view.tricks = tricks' /\ x.view.sitting_out = sitting_out' /\ x.view.trick = TrickIds'
  BY <1>1 DEF Passes, Shows, TrickIds
<1>3. CountsAgree(x.view)'
  <2> SUFFICES ASSUME NEW s \in Seat, s \notin sitting_out', s # Me
               PROVE  /\ x.view.card_count[s] =< CardCount(s)'
                      /\ drops' = 0 => x.view.card_count[s] = CardCount(s)'
    BY DEF CountsAgree, Others
  <2>1. phase \in Voting /\ phase' \in Voting /\ phase \notin Waiting /\ sitting_out' = sitting_out
    BY Phases DEF Passes
  <2>2. CardCount(s) = CardsPerHand /\ CardCount(s)' = CardsPerHand
    BY <2>1, BidCounts, BidCountsNext, Phases, GameAssumption DEF CardsInOrder
  <2> QED
    BY <1>1, <2>1, <2>2 DEF Shows, CountsAgree, Others
<1>4. PICK y : y = after(update, x)
  OBVIOUS
<1>5. /\ update \in News
      /\ y.view.phase = phase' /\ y.view.turn = turn' /\ Settled(y.view)'
      /\ y.seats = IF phase' \in Voting THEN {turn'} ELSE x.seats
      /\ fits(update, x) <=> (phase' \in Voting => turn' \notin x.seats)
  BY <1>2, <1>3, <1>4, UpdateSettles DEF CardsInOrder
<1>6. PICK m : m = update
  OBVIOUS
<1>7. sent \in Seq(News) /\ Leads(x, sent, y) /\ (fits(m, x) => Fit(x, sent))
  <2>1. m \in News /\ sent = <<m>> /\ y = after(m, x)
    BY <1>4, <1>5, <1>6 DEF Passes
  <2> QED
    BY <2>1, FinalOfOne
<1>8. x.seats = Thinkers => y.seats = Thinkers' /\ Fit(x, sent)
  BY <1>5, <1>6, <1>7 DEF Thinkers, Passes
<1> QED
  BY <1>5, <1>7, <1>8 DEF Follows

\* What is shown of a deal, if there is one.
LEMMA DealFollows ==
  ASSUME HandSizes', CardTypeOK', phase' \in {"VOTE_ROUND1", "ENDED"}, NEW x, x.view \in View
  PROVE  /\ dealt \in Seq(News)
         /\ \E y : /\ Leads(x, dealt, y) /\ Fit(x, dealt)
                   /\ y.view \in View /\ y.seats = x.seats
                   /\ y.view.tricks = x.view.tricks /\ y.view.sitting_out = x.view.sitting_out
                   /\ y.view.trick = x.view.trick
                   /\ phase' \notin Waiting => CountsAgree(y.view)'
<1>1. CASE phase' = "ENDED"
  <2>1. dealt = <<>> /\ dealt \in Seq(News) /\ phase' \in Waiting
    BY <1>1 DEF dealt, Waiting
  <2>2. Leads(x, dealt, x) /\ Fit(x, dealt)
    BY <2>1, FinalOfFew DEF Leads
  <2> QED
    BY <2>1, <2>2
<1>2. CASE phase' = "VOTE_ROUND1"
  <2>1. PICK m : m = deal
    OBVIOUS
  <2>2. m.type = "deal" /\ m \in News
    <3>1. cards'[Me] \in Seq(Card) /\ top_card' \in AnyCard
      BY ClientAssumption DEF CardTypeOK, AnyCard
    <3>2. m \in [type : {"deal"}, hand : Seq(Card), top : AnyCard]
      BY <2>1, <3>1 DEF deal
    <3>3. m \in Message /\ m.type = "deal"
      BY <3>2 DEF Message
    <3> QED
      BY <3>3 DEF News
  <2>3. dealt = <<m>>
    BY <1>2, <2>1 DEF dealt
  <2>4. PICK y : y = after(m, x)
    OBVIOUS
  <2>5. fits(m, x) /\ y.view = shows(m, x.view) /\ y.seats = x.seats /\ y.view \in View
    BY <2>2, <2>4, NewsFits
  <2>6. dealt \in Seq(News) /\ Leads(x, dealt, y) /\ Fit(x, dealt)
    BY <2>2, <2>3, <2>4, <2>5, FinalOfOne
  <2>7. /\ y.view.tricks = x.view.tricks /\ y.view.sitting_out = x.view.sitting_out
        /\ y.view.trick = x.view.trick /\ y.view.card_count = [s \in Seat |-> CardsPerHand]
    BY <2>2, <2>5, FieldsAfter
  <2>8. CountsAgree(y.view)'
    <3> SUFFICES ASSUME NEW s \in Seat
                 PROVE  y.view.card_count[s] = CardCount(s)' /\ CardCount(s)' \in Nat
      BY DEF CountsAgree, Others
    <3>1. CardCount(s)' = CardsPerHand
      BY <1>2, BidCountsNext, Phases, GameAssumption
    <3> QED
      BY <2>7, <3>1, GameAssumption
  <2> QED
    BY <2>5, <2>6, <2>7, <2>8
<1> QED
  BY <1>1, <1>2

\* A game that starts is shown as it is.
LEMMA StartsFollow ==
  ASSUME IInv, IInv', CardsInOrder, CardsInOrder', Starts,
         NEW x, x.view \in View, Settled(x.view)
  PROVE  sent \in Seq(News) /\ \E y : Leads(x, sent, y) /\ Follows(x, y)
<1>1. Shows(x.view)
  BY SettledShows
<1>2. phase' = "VOTE_ROUND1" /\ phase' \in Voting /\ dealt = <<deal>>
  BY Phases DEF Starts, dealt
<1>3. dealt \in Seq(News) /\ sent = dealt \o <<update>>
  BY <1>2, DealFollows DEF Starts, CardsInOrder
<1>4. PICK y : /\ Leads(x, dealt, y) /\ Fit(x, dealt)
               /\ y.view \in View /\ y.seats = x.seats
               /\ y.view.tricks = x.view.tricks /\ y.view.sitting_out = x.view.sitting_out
               /\ y.view.trick = x.view.trick
               /\ phase' \notin Waiting => CountsAgree(y.view)'
  BY <1>2, DealFollows DEF CardsInOrder
<1>5. PICK q : q = dealt
  OBVIOUS
<1>6. y.view.tricks = tricks' /\ y.view.sitting_out = sitting_out' /\ y.view.trick = TrickIds'
  BY <1>1, <1>4 DEF Starts, Shows, TrickIds
<1>7. x.seats = Thinkers => turn' \notin y.seats
  BY <1>4, Phases DEF Starts, Thinkers
<1> QED
  BY <1>2, <1>3, <1>4, <1>5, <1>6, <1>7, UpdateFollows DEF CardsInOrder

\* The messages of a room that goes on.
Told == {m \in Message : m.type # "welcome"}

\* A card less.
LEMMA CardLess ==
  ASSUME NEW f \in [Seat -> Int], NEW s \in Seat
  PROVE  \A t \in Seat : bump(f, s, -1)[t] = f[t] - IF t = s THEN 1 ELSE 0
BY DEF bump

\* A discard is shown as it is, to who dealt too.
LEMMA DiscardsFollow ==
  ASSUME IInv, IInv', CardsInOrder, CardsInOrder', drops' = drops, Discards,
         NEW x, x.view \in View, Settled(x.view)
  PROVE  sent \in Seq(Told) /\ \E y : Leads(x, sent, y) /\ Follows(x, y)
<1>1. Shows(x.view) /\ turn \in Seat
  BY SettledShows DEF IInv, ControlTypeOK
<1>2. PICK m : m = [type |-> "discarded", id |-> turn]
  OBVIOUS
<1>3. m.type = "discarded" /\ m.id = turn /\ m \in Message /\ m \in Told
  BY <1>1, <1>2 DEF Told, Message
<1>4. PICK z : z = after(m, x)
  OBVIOUS
<1>5. z.view = shows(m, x.view) /\ z.seats = x.seats /\ z.view \in View
  BY <1>3, <1>4, ThinksByType, ShowsView DEF after
<1>6. fits(m, x)
  BY <1>1, <1>3 DEF fits, votes, Shows, Discards
<1>7. /\ z.view.tricks = tricks' /\ z.view.sitting_out = sitting_out' /\ z.view.trick = TrickIds'
      /\ z.view.card_count = IF dealer = Me THEN x.view.card_count
                             ELSE bump(x.view.card_count, dealer, -1)
  <2>1. /\ z.view.tricks = x.view.tricks /\ z.view.sitting_out = x.view.sitting_out
        /\ z.view.trick = x.view.trick
        /\ z.view.card_count = IF x.view.dealer = Me THEN x.view.card_count
                               ELSE bump(x.view.card_count, m.id, -1)
    BY <1>3, <1>5, FieldsAfter
  <2> QED
    BY <1>1, <1>3, <2>1 DEF Shows, Discards, TrickIds
<1>8. phase = "DISCARDING" /\ phase' = "PLAYING" /\ phase \notin Waiting /\ phase' \notin Voting
  BY Phases DEF Discards
<1>9. CountsAgree(z.view)'
  <2> SUFFICES ASSUME NEW s \in Seat, s \notin sitting_out', s # Me
               PROVE  /\ z.view.card_count[s] =< CardCount(s)'
                      /\ drops' = 0 => z.view.card_count[s] = CardCount(s)'
    BY DEF CountsAgree, Others
  <2>1. CardCount(s) = CardsPerHand + IF s = dealer THEN 1 ELSE 0
    BY <1>8, BidCounts DEF CardsInOrder
  <2>2. trick' = <<>> /\ tricks' = Nobody
    BY <1>8 DEF Discards, CardsInOrder, IInv, TricksAreTallied
  <2>3. CardCount(s)' = CardsPerHand
    BY <1>8, <2>2, PlayCountsNext
  <2>4. /\ x.view.card_count[s] =< CardsPerHand + IF s = dealer THEN 1 ELSE 0
        /\ drops = 0 => x.view.card_count[s] = CardsPerHand + IF s = dealer THEN 1 ELSE 0
    BY <1>1, <1>8, <2>1 DEF Shows, CountsAgree, Others, Discards
  <2>5. x.view.card_count \in [Seat -> Int] /\ dealer \in Seat
    BY DEF View, IInv, ControlTypeOK
  <2>6. z.view.card_count[s] = x.view.card_count[s] - IF s = dealer THEN 1 ELSE 0
    <3>1. CASE dealer = Me
      BY <1>7, <2>5, <3>1
    <3>2. CASE dealer # Me
      BY <1>7, <2>5, <3>2, CardLess
    <3> QED
      BY <3>1, <3>2
  <2> QED
    BY <2>3, <2>4, <2>5, <2>6, GameAssumption
<1>10. PICK y : y = after(update, z)
  OBVIOUS
<1>11. /\ update \in News
       /\ y.view.phase = phase' /\ y.view.turn = turn' /\ Settled(y.view)'
       /\ y.seats = IF phase' \in Voting THEN {turn'} ELSE z.seats
       /\ fits(update, z) <=> (phase' \in Voting => turn' \notin z.seats)
  BY <1>5, <1>7, <1>9, <1>10, UpdateSettles DEF CardsInOrder
<1>12. /\ sent \in Seq(Told) /\ Leads(x, sent, y)
       /\ fits(m, x) /\ fits(update, z) => Fit(x, sent)
  <2>1. sent = <<m, update>> /\ update \in Told
    BY <1>2, <1>11 DEF Discards, News, Told
  <2> QED
    BY <1>3, <1>4, <1>10, <2>1, FinalOfTwo
<1>13. x.seats = Thinkers => y.seats = Thinkers'
  BY <1>5, <1>8, <1>11, Phases DEF Thinkers
<1> QED
  BY <1>6, <1>8, <1>11, <1>12, <1>13 DEF Follows

\* A card played is shown as it is.
LEMMA CardFollows ==
  ASSUME IInv, ownCard \in AnyCard, phase = "PLAYING", NEW x, x.view \in View, Settled(x.view),
         NEW q, q = <<playedCard>>
  PROVE  /\ q \in Seq(News)
         /\ \E y : /\ Leads(x, q, y) /\ Fit(x, q)
                   /\ y.view \in View /\ y.seats = x.seats
                   /\ y.view.tricks = tricks /\ y.view.sitting_out = sitting_out
                   /\ y.view.trick = Append(TrickIds, turn)
                   /\ CardLeaves /\ CardsInOrder /\ sitting_out' = sitting_out /\ drops' = drops
                      => CountsAgree(y.view)'
<1>1. Shows(x.view) /\ turn \in Seat /\ phase \notin Waiting
  BY SettledShows, Phases DEF IInv, ControlTypeOK
<1>2. PICK m : m = playedCard
  OBVIOUS
<1>3. m.type = "play_card" /\ m.id = turn /\ m \in News
  <2>1. m \in [type : {"play_card"}, id : Seat, card : AnyCard] /\ m.id = turn
    BY <1>1, <1>2 DEF playedCard
  <2>2. m \in Message /\ m.type = "play_card"
    BY <2>1 DEF Message
  <2> QED
    BY <2>1, <2>2 DEF News
<1>4. PICK y : y = after(m, x)
  OBVIOUS
<1>5. fits(m, x) /\ y.view = shows(m, x.view) /\ y.seats = x.seats /\ y.view \in View
  BY <1>3, <1>4, NewsFits
<1>6. q \in Seq(News) /\ Leads(x, q, y) /\ Fit(x, q)
  <2>1. q = <<m>>
    BY <1>2
  <2> QED
    BY <1>3, <1>4, <1>5, <2>1, FinalOfOne
<1>7. /\ y.view.tricks = tricks /\ y.view.sitting_out = sitting_out
      /\ y.view.trick = Append(TrickIds, turn)
      /\ y.view.card_count = bump(x.view.card_count, turn, -1)
  <2>1. /\ y.view.tricks = x.view.tricks /\ y.view.sitting_out = x.view.sitting_out
        /\ y.view.trick = Append(x.view.trick, m.id)
        /\ y.view.card_count = bump(x.view.card_count, m.id, -1)
    BY <1>3, <1>5, FieldsAfter
  <2> QED
    BY <1>1, <1>3, <2>1 DEF Shows
<1>8. ASSUME CardLeaves, CardsInOrder, sitting_out' = sitting_out, drops' = drops
      PROVE  CountsAgree(y.view)'
  <2> SUFFICES ASSUME NEW s \in Seat, s \notin sitting_out', s # Me
               PROVE  /\ y.view.card_count[s] =< CardCount(s)'
                      /\ drops' = 0 => y.view.card_count[s] = CardCount(s)'
    BY DEF CountsAgree, Others
  <2>1. x.view.card_count \in [Seat -> Int]
    BY DEF View
  <2>2. CardCount(s) \in Int
    BY LenProperties DEF CardsInOrder, CardTypeOK, CardCount
  <2>3. CardCount(s)' = CardCount(s) - IF s = turn THEN 1 ELSE 0
    BY <1>8 DEF CardLeaves
  <2>4. /\ x.view.card_count[s] =< CardCount(s)
        /\ drops = 0 => x.view.card_count[s] = CardCount(s)
    BY <1>1, <1>8 DEF Shows, CountsAgree, Others
  <2>5. y.view.card_count[s] = x.view.card_count[s] - IF s = turn THEN 1 ELSE 0
    <3>1. bump(x.view.card_count, turn, -1)[s] = x.view.card_count[s] - IF s = turn THEN 1 ELSE 0
      BY <1>1, <2>1, CardLess
    <3> QED
      BY <1>7, <3>1, Zenon
  <2> QED
    BY <1>8, <2>1, <2>2, <2>3, <2>4, <2>5
<1> QED
  BY <1>5, <1>6, <1>7, <1>8

\* A card that does not end the trick.
LEMMA PlaysOnFollow ==
  ASSUME IInv, IInv', CardsInOrder, CardsInOrder', drops' = drops, PlaysOn, ownCard \in AnyCard,
         NEW x, x.view \in View, Settled(x.view)
  PROVE  sent \in Seq(News) /\ \E y : Leads(x, sent, y) /\ Follows(x, y)
<1>1. PICK q : q = <<playedCard>>
  OBVIOUS
<1>2. phase = "PLAYING" /\ phase' = "PLAYING" /\ phase \notin Voting /\ phase' \notin Voting
  BY Phases DEF PlaysOn
<1>3. q \in Seq(News)
  BY <1>1, <1>2, CardFollows
<1>4. PICK y : /\ Leads(x, q, y) /\ Fit(x, q)
               /\ y.view \in View /\ y.seats = x.seats
               /\ y.view.tricks = tricks /\ y.view.sitting_out = sitting_out
               /\ y.view.trick = Append(TrickIds, turn)
               /\ CardLeaves /\ CardsInOrder /\ sitting_out' = sitting_out /\ drops' = drops
                  => CountsAgree(y.view)'
  BY <1>1, <1>2, CardFollows
<1>5. sent = q \o <<update>>
  <2>1. q \o <<>> = q
    BY <1>3
  <2> QED
    BY <1>1, <2>1 DEF PlaysOn
<1>6. /\ y.view.tricks = tricks' /\ y.view.sitting_out = sitting_out' /\ y.view.trick = TrickIds'
      /\ CountsAgree(y.view)'
  BY <1>4 DEF PlaysOn
<1>7. x.seats = Thinkers => y.seats = {}
  BY <1>2, <1>4 DEF Thinkers
<1> QED
  BY <1>2, <1>3, <1>4, <1>5, <1>6, <1>7, UpdateFollows DEF CardsInOrder

TellsTrick(m, w) == m = [type |-> "win_trick", id |-> w]

\* A trick that is won leaves the table to its winner.
LEMMA TrickFollows ==
  ASSUME NEW w \in Seat, NEW m, TellsTrick(m, w),
         NEW x, x.view \in View, NEW y, y = after(m, x)
  PROVE  /\ m \in News /\ fits(m, x) /\ y.view \in View /\ y.seats = x.seats
         /\ y.view.tricks = [x.view.tricks EXCEPT ![w] = @ + 1]
         /\ y.view.sitting_out = x.view.sitting_out /\ y.view.trick = <<>>
         /\ y.view.card_count = x.view.card_count
<1>1. m.type = "win_trick" /\ m.id = w /\ m \in News
  BY DEF TellsTrick, News, Message
<1>2. fits(m, x) /\ y.view = shows(m, x.view) /\ y.seats = x.seats /\ y.view \in View
  BY <1>1, NewsFits
<1>3. /\ y.view.tricks = bump(x.view.tricks, m.id, 1) /\ y.view.sitting_out = x.view.sitting_out
      /\ y.view.trick = <<>> /\ y.view.card_count = x.view.card_count
  BY <1>1, <1>2, FieldsAfter
<1>4. y.view.tricks = [x.view.tricks EXCEPT ![w] = @ + 1]
  BY <1>1, <1>3 DEF bump
<1> QED
  BY <1>1, <1>2, <1>3, <1>4

\* A card that ends a trick, but not the hand.
LEMMA TakesTrickFollow ==
  ASSUME IInv, IInv', CardsInOrder, CardsInOrder', drops' = drops, TakesTrick, ownCard \in AnyCard,
         NEW x, x.view \in View, Settled(x.view)
  PROVE  sent \in Seq(News) /\ \E y : Leads(x, sent, y) /\ Follows(x, y)
<1>1. PICK q : q = <<playedCard>>
  OBVIOUS
<1>2. phase = "PLAYING" /\ phase' = "PLAYING" /\ phase \notin Voting /\ phase' \notin Voting
  BY Phases DEF TakesTrick
<1>3. q \in Seq(News)
  BY <1>1, <1>2, CardFollows
<1>4. PICK y : /\ Leads(x, q, y) /\ Fit(x, q)
               /\ y.view \in View /\ y.seats = x.seats
               /\ y.view.tricks = tricks /\ y.view.sitting_out = sitting_out
               /\ y.view.trick = Append(TrickIds, turn)
               /\ CardLeaves /\ CardsInOrder /\ sitting_out' = sitting_out /\ drops' = drops
                  => CountsAgree(y.view)'
  BY <1>1, <1>2, CardFollows
<1>5. PICK w : w = turn'
  OBVIOUS
<1>6. PICK m : TellsTrick(m, w)
  BY DEF TellsTrick
<1>7. PICK z : z = after(m, y)
  OBVIOUS
<1>8. /\ m \in News /\ fits(m, y) /\ z.view \in View /\ z.seats = y.seats
      /\ z.view.tricks = [y.view.tricks EXCEPT ![w] = @ + 1]
      /\ z.view.sitting_out = y.view.sitting_out /\ z.view.trick = <<>>
      /\ z.view.card_count = y.view.card_count
  <2>1. w \in Seat /\ y.view \in View
    BY <1>4, <1>5 DEF TakesTrick
  <2> QED
    BY <1>6, <1>7, <2>1, TrickFollows
<1>9. PICK p : p = q \o <<m>>
  OBVIOUS
<1>10. p \in Seq(News) /\ Leads(x, p, z) /\ Fit(x, p)
  BY <1>3, <1>4, <1>7, <1>8, <1>9, FinalOfOneMore
<1>11. sent = p \o <<update>>
  BY <1>1, <1>5, <1>6, <1>9 DEF TakesTrick, TellsTrick
<1>12. z.view.tricks = tricks' /\ z.view.sitting_out = sitting_out' /\ z.view.trick = TrickIds'
  BY <1>4, <1>5, <1>8 DEF TakesTrick, TrickIds
<1>13. CountsAgree(z.view)'
  <2>1. CountsAgree(y.view)'
    BY <1>4 DEF TakesTrick
  <2> QED
    BY <1>8, <2>1 DEF CountsAgree, Others
<1>14. x.seats = Thinkers => z.seats = {}
  BY <1>2, <1>4, <1>8 DEF Thinkers
<1> QED
  BY <1>2, <1>8, <1>10, <1>11, <1>12, <1>13, <1>14, UpdateFollows DEF CardsInOrder

\* The end of a hand clears what was shown of it.
LEMMA HandFollows ==
  ASSUME NEW m, m = [type |-> "win_hand"], NEW x, x.view \in View, NEW y, y = after(m, x)
  PROVE  /\ m \in News /\ fits(m, x) /\ y.view \in View /\ y.seats = x.seats
         /\ y.view.tricks = Nobody /\ y.view.sitting_out = {} /\ y.view.trick = x.view.trick
<1>1. m.type = "win_hand" /\ m \in News
  BY DEF News, Message
<1>2. fits(m, x) /\ y.view = shows(m, x.view) /\ y.seats = x.seats /\ y.view \in View
  BY <1>1, NewsFits
<1> QED
  BY <1>1, <1>2, FieldsAfter

\* A hand laid down is shown as its end.
LEMMA LaysDownFollow ==
  ASSUME IInv, IInv', CardsInOrder, CardsInOrder', LaysDown,
         NEW x, x.view \in View, Settled(x.view)
  PROVE  sent \in Seq(News) /\ \E y : Leads(x, sent, y) /\ Follows(x, y)
<1>1. PICK m : m = [type |-> "win_hand"]
  OBVIOUS
<1>2. PICK y : y = after(m, x)
  OBVIOUS
<1>3. /\ m \in News /\ fits(m, x) /\ y.view \in View /\ y.seats = x.seats
      /\ y.view.tricks = Nobody /\ y.view.sitting_out = {} /\ y.view.trick = x.view.trick
  BY <1>1, <1>2, HandFollows
<1>4. PICK q : q = <<m>>
  OBVIOUS
<1>5. q \in Seq(News) /\ Leads(x, q, y) /\ Fit(x, q)
  BY <1>2, <1>3, <1>4, FinalOfOne
<1>6. phase' \in {"VOTE_ROUND1", "ENDED"} /\ HandSizes' /\ CardTypeOK'
  BY DEF LaysDown, CardsInOrder
<1>7. PICK r : r = dealt
  OBVIOUS
<1>8. r \in Seq(News)
  BY <1>3, <1>6, <1>7, DealFollows
<1>9. PICK z : /\ Leads(y, r, z) /\ Fit(y, r)
               /\ z.view \in View /\ z.seats = y.seats
               /\ z.view.tricks = y.view.tricks /\ z.view.sitting_out = y.view.sitting_out
               /\ z.view.trick = y.view.trick
               /\ phase' \notin Waiting => CountsAgree(z.view)'
  BY <1>3, <1>6, <1>7, DealFollows
<1>10. PICK p : p = q \o r
  OBVIOUS
<1>11. p \in Seq(News) /\ Leads(x, p, z)
  BY <1>5, <1>8, <1>9, <1>10, FinalOfNews
<1>12. Fit(x, p)
  BY <1>5, <1>8, <1>9, <1>10, FitsMore
<1>13. sent = p \o <<update>>
  BY <1>1, <1>4, <1>7, <1>10 DEF LaysDown
<1>14. Shows(x.view)
  BY SettledShows
<1>15. z.view.tricks = tricks' /\ z.view.sitting_out = sitting_out' /\ z.view.trick = TrickIds'
  BY <1>3, <1>9, <1>14 DEF LaysDown, Shows, TrickIds
<1>16. x.seats = Thinkers => z.seats = {}
  BY <1>3, <1>9, Phases DEF Thinkers, LaysDown
<1> QED
  BY <1>9, <1>11, <1>12, <1>13, <1>15, <1>16, UpdateFollows DEF CardsInOrder

\* The cards of the last trick are of seats.
LEMMA LastCardsAreSeats ==
  ASSUME IInv, NEW w \in Seat
  PROVE  SubSeq(TurnOrder(w), 1, Active) \in Seq(Seat)
<1>1. /\ advance(w, sitting_out) \in Seat
      /\ advance(advance(w, sitting_out), sitting_out) \in Seat
      /\ advance(advance(advance(w, sitting_out), sitting_out), sitting_out) \in Seat
  BY SeatsStay
<1>2. \A i \in 1 .. 4 : TurnOrder(w)[i] \in Seat
  BY <1>1 DEF TurnOrder
<1>3. Active \in Int /\ \A i \in 1 .. Active : TurnOrder(w)[i] \in Seat
  BY <1>2, ActiveRange
<1> QED
  BY <1>3, SubSeqProperties

\* The card of this person that the server plays is a card.
LEMMA LastCardIsTold ==
  ASSUME CardTypeOK'
  PROVE  ownLastCard \in AnyCard
<1> DEFINE last == {p \in played_cards' \ played_cards : p.id = Me /\ p.card # ownCard}
<1>1. ownLastCard = IF last = {} THEN NoCard ELSE (CHOOSE p \in last : TRUE).card
  BY DEF ownLastCard
<1>2. \A p \in last : p.card \in Card
  BY DEF CardTypeOK, Verdict
<1>3. last # {} => (CHOOSE p \in last : TRUE) \in last
  OBVIOUS
<1> HIDE DEF last
<1> QED
  BY <1>1, <1>2, <1>3 DEF AnyCard

EndsWith(q, w, ids, card) ==
  q = <<[type |-> "win_trick", id |-> w], [type |-> "last_card", ids |-> ids, card |-> card],
        [type |-> "win_trick", id |-> w], [type |-> "win_hand"]>>

\* The last trick and the end of the hand clear the table.
LEMMA HandEndsFollow ==
  ASSUME NEW w \in Seat, NEW ids \in Seq(Seat), NEW card \in AnyCard,
         NEW q, EndsWith(q, w, ids, card), NEW x, x.view \in View
  PROVE  /\ q \in Seq(News)
         /\ \E y : /\ Leads(x, q, y) /\ Fit(x, q)
                   /\ y.view \in View /\ y.seats = x.seats
                   /\ y.view.tricks = Nobody /\ y.view.sitting_out = {} /\ y.view.trick = <<>>
<1> PICK a : TellsTrick(a, w)
  BY DEF TellsTrick
<1> PICK c : c = [type |-> "last_card", ids |-> ids, card |-> card]
  OBVIOUS
<1> PICK d : d = [type |-> "win_hand"]
  OBVIOUS
<1>1. PICK y : y = after(a, x)
  OBVIOUS
<1>2. /\ a \in News /\ fits(a, x) /\ y.view \in View /\ y.seats = x.seats
      /\ y.view.tricks = [x.view.tricks EXCEPT ![w] = @ + 1]
  BY <1>1, TrickFollows
<1>3. PICK z : z = after(c, y)
  OBVIOUS
<1>4. c.type = "last_card" /\ c \in News
  BY DEF News, Message
<1>5. fits(c, y) /\ z.view \in View /\ z.seats = y.seats
  BY <1>2, <1>3, <1>4, NewsFits
<1>6. PICK v : v = after(a, z)
  OBVIOUS
<1>7. /\ fits(a, z) /\ v.view \in View /\ v.seats = z.seats /\ v.view.trick = <<>>
      /\ v.view.tricks = [z.view.tricks EXCEPT ![w] = @ + 1]
  BY <1>5, <1>6, TrickFollows
<1>8. PICK u : u = after(d, v)
  OBVIOUS
<1>9. /\ d \in News /\ fits(d, v) /\ u.view \in View /\ u.seats = v.seats
      /\ u.view.tricks = Nobody /\ u.view.sitting_out = {} /\ u.view.trick = v.view.trick
  BY <1>7, <1>8, HandFollows
<1>10. q \in Seq(News) /\ Leads(x, q, u) /\ Fit(x, q)
  <2>1. q = <<a, c, a, d>>
    BY DEF EndsWith, TellsTrick
  <2> QED
    BY <2>1, <1>1, <1>2, <1>3, <1>4, <1>5, <1>6, <1>7, <1>8, <1>9, FinalOfFour
<1>11. u.seats = x.seats /\ u.view.trick = <<>>
  BY <1>2, <1>5, <1>7, <1>9
<1> QED
  BY <1>9, <1>10, <1>11

\* A card that ends the hand.
LEMMA EndsHandFollow ==
  ASSUME IInv, IInv', CardsInOrder, CardsInOrder', EndsHand, ownCard \in AnyCard,
         NEW x, x.view \in View, Settled(x.view)
  PROVE  sent \in Seq(News) /\ \E y : Leads(x, sent, y) /\ Follows(x, y)
<1>1. PICK q : q = <<playedCard>>
  OBVIOUS
<1>2. phase = "PLAYING" /\ phase \notin Voting /\ phase' \in {"VOTE_ROUND1", "ENDED"} /\ HandSizes' /\ CardTypeOK'
  BY Phases DEF EndsHand, CardsInOrder
<1>3. q \in Seq(News)
  BY <1>1, <1>2, CardFollows
<1>4. PICK y : Leads(x, q, y) /\ Fit(x, q) /\ y.view \in View /\ y.seats = x.seats
  BY <1>1, <1>2, CardFollows
<1>5. PICK w \in Seat : w = trick_leader'
  BY DEF IInv, ControlTypeOK
<1>6. PICK ids \in Seq(Seat) : ids = SubSeq(TurnOrder(w), 1, Active)
  BY LastCardsAreSeats
<1>7. PICK card, h : card = ownLastCard /\ card \in AnyCard /\ EndsWith(h, w, ids, card)
  BY LastCardIsTold DEF EndsWith, CardsInOrder
<1>8. /\ h \in Seq(News)
      /\ \E z : /\ Leads(y, h, z) /\ Fit(y, h)
                /\ z.view \in View /\ z.seats = y.seats
                /\ z.view.tricks = Nobody /\ z.view.sitting_out = {} /\ z.view.trick = <<>>
  <2>1. y.view \in View
    BY <1>4
  <2> QED
    BY <1>7, <2>1, HandEndsFollow
<1>9. PICK z : /\ Leads(y, h, z) /\ Fit(y, h)
               /\ z.view \in View /\ z.seats = y.seats
               /\ z.view.tricks = Nobody /\ z.view.sitting_out = {} /\ z.view.trick = <<>>
  BY <1>8
<1>10. PICK r : r = dealt
  OBVIOUS
<1>11. r \in Seq(News)
  BY <1>2, <1>9, <1>10, DealFollows
<1>12. PICK v : /\ Leads(z, r, v) /\ Fit(z, r)
                /\ v.view \in View /\ v.seats = z.seats
                /\ v.view.tricks = z.view.tricks /\ v.view.sitting_out = z.view.sitting_out
                /\ v.view.trick = z.view.trick
                /\ phase' \notin Waiting => CountsAgree(v.view)'
  BY <1>2, <1>9, <1>10, DealFollows
<1>13. PICK n : n = h \o r
  OBVIOUS
<1>14. n \in Seq(News) /\ Leads(y, n, v) /\ Fit(y, n)
  <2>1. h \in Seq(News) /\ r \in Seq(News) /\ Leads(y, h, z) /\ Leads(z, r, v)
    BY <1>8, <1>9, <1>11, <1>12
  <2>2. n \in Seq(News) /\ Leads(y, n, v)
    BY <1>13, <2>1, FinalOfNews
  <2>3. Fit(y, n)
    BY <1>9, <1>12, <1>13, <2>1, FitsMore
  <2> QED
    BY <2>2, <2>3
<1>15. PICK p : p = q \o n
  OBVIOUS
<1>16. p \in Seq(News) /\ Leads(x, p, v) /\ Fit(x, p)
  <2>1. p \in Seq(News) /\ Leads(x, p, v)
    BY <1>3, <1>4, <1>14, <1>15, FinalOfNews
  <2>2. Fit(x, p)
    BY <1>3, <1>4, <1>14, <1>15, FitsMore
  <2> QED
    BY <2>1, <2>2
<1>17. sent = p \o <<update>>
  <2>1. n = handEnds
    BY <1>5, <1>6, <1>7, <1>10, <1>13 DEF handEnds, EndsWith
  <2> QED
    BY <1>1, <1>15, <2>1 DEF EndsHand
<1>18. v.view.tricks = tricks' /\ v.view.sitting_out = sitting_out' /\ v.view.trick = TrickIds'
  BY <1>9, <1>12 DEF EndsHand, TrickIds
<1>19. x.seats = Thinkers => v.seats = {}
  BY <1>2, <1>4, <1>9, <1>12 DEF Thinkers
<1> QED
  BY <1>12, <1>16, <1>17, <1>18, <1>19, UpdateFollows DEF CardsInOrder

\* Nothing is told when nothing that is shown changes.
LEMMA SilentFollows ==
  ASSUME drops' = drops, Silent, NEW x, Settled(x.view)
  PROVE  /\ sent = <<>> /\ Settled(x.view)' /\ Thinkers' = Thinkers
         /\ phase' = phase /\ turn' = turn
<1>1. Shows(x.view)
  BY SettledShows
<1>2. CountsAgree(x.view)' <=> CountsAgree(x.view)
  BY DEF CountsAgree, Others, Silent
<1>3. Shows(x.view)'
  BY <1>1, <1>2 DEF Silent, Shows, TrickIds
<1>4. Settled(x.view)'
  BY <1>3, SettledShows
<1> QED
  BY <1>4 DEF Silent, Thinkers

\* Whatever the room does, the client that is told shows it, and is told of a
\* discard only when there is one.
LEMMA ToldFollows ==
  ASSUME IInv, IInv', CardIInv, CardIInv', drops' = drops,
         RoomActs, CardIsPlayed => ownCard \in AnyCard,
         NEW x, x.view \in View, Settled(x.view)
  PROVE  \/ Silent
         \/ /\ sent \in Seq(Told) /\ \E y : Leads(x, sent, y) /\ Follows(x, y)
            /\ Discards \/ sent \in Seq(News)
<1>1. CardsInOrder /\ CardsInOrder'
  BY DEF CardIInv
<1>2. CASE sent \in Seq(News) /\ \E y : Leads(x, sent, y) /\ Follows(x, y)
  <2>1. News \subseteq Told
    BY DEF News, Told
  <2>2. sent \in Seq(Told)
    BY <1>2, <2>1
  <2> QED
    BY <1>2, <2>2
<1>3. CASE Discards
  BY <1>1, <1>3, DiscardsFollow
<1>4. CASE Starts
  BY <1>1, <1>2, <1>4, StartsFollow
<1>5. CASE Orders
  BY <1>1, <1>2, <1>5, OrdersFollow
<1>6. CASE Passes
  BY <1>1, <1>2, <1>6, PassesFollow
<1>7. CASE PlaysOn
  BY <1>1, <1>2, <1>7, PlaysOnFollow DEF PlaysOn
<1>8. CASE TakesTrick
  BY <1>1, <1>2, <1>8, TakesTrickFollow DEF TakesTrick
<1>9. CASE EndsHand
  BY <1>1, <1>2, <1>9, EndsHandFollow DEF EndsHand
<1>10. CASE LaysDown
  BY <1>1, <1>2, <1>10, LaysDownFollow
<1> QED
  BY <1>3, <1>4, <1>5, <1>6, <1>7, <1>8, <1>9, <1>10, RoomStepKinds

-----------------------------------------------------------------------------
(* What the client relies on, part by part *)

start == [view |-> state, seats |-> thinking]

\* What is shown in the end, while the connection lasts.
EndShown == online => seated > Me /\ \E y : Leads(start, queue, y) /\ ShowsTheRoom(y.view)

WelcomeFirst ==
  \A i \in DOMAIN queue :
    queue[i].type = "welcome" => i = 1 /\ ~tooMany(queue[i].room.card_count)

NothingLost ==
  /\ seated > Me => online
  /\ ~online => queue = <<>> /\ \A s \in Others : card_nodes[s] = 0
  /\ \E y : Leads(start, queue, y) /\ y.seats = Thinkers
  /\ Fit(start, queue)
  /\ WelcomeFirst

Parts ==
  /\ ClientTypeOK /\ GamesSeatMe
  /\ EndShown
  /\ drops = 0 => NothingLost
  /\ drops = 0 /\ ~tardy => WaitsEnd

\* The invariant is these parts.
LEMMA IInvParts == (ClientIInv <=> Parts) /\ (ClientIInv' <=> Parts')
<1>1. ClientIInv <=> Parts
  BY Zenon DEF ClientIInv, Parts, EndShown, NothingLost, WelcomeFirst, MessagesFit, Fit, Leads, final,
              shown, start
<1>2. ClientIInv' <=> Parts'
  BY Zenon DEF ClientIInv, Parts, EndShown, NothingLost, WelcomeFirst, MessagesFit, Fit, Leads, final,
              shown, start
<1> QED
  BY <1>1, <1>2

\* Who the people are stays; a game starts with the people of the lobby.
LEMMA PeopleStay ==
  ASSUME IInv, CardIInv, RoomActs
  PROVE  /\ humans' = humans
         /\ Restart \/ (seated' = seated /\ (phase = "LOBBY" => phase' = "LOBBY"))
<1>1. ASSUME NEW s, NEW card, play_card(s, card)
      PROVE  UNCHANGED people /\ phase = "PLAYING"
  BY <1>1 DEF play_card, playTop
<1>2. ASSUME NEW s, NEW alone, NEW suit, order(s, alone, suit)
      PROVE  UNCHANGED people /\ phase \in Voting
  BY <1>2 DEF order
<1>3. ASSUME NEW s, pass(s)
      PROVE  UNCHANGED people /\ phase \in Voting
  BY <1>3 DEF pass
<1>4. ASSUME NEW s, NEW card, discard(s, card)
      PROVE  UNCHANGED people /\ phase = "DISCARDING"
  BY <1>4 DEF discard
<1>5. Restart => humans' = humans
  BY DEF Restart, restart
<1>6. Chat \/ BotThrows => UNCHANGED people /\ phase' = phase
  BY DEF Chat, BotThrows
<1>7. CascadeStep => UNCHANGED people /\ phase = "PLAYING"
  BY DEF CascadeStep, playTop
<1>8. ~CascadeThrows
  BY DEF CascadeThrows, CardIInv, LoopsHaveWork
<1>9. BotVotes \/ BotDiscards \/ BotPlays
      => \/ \E alone, suit : order(turn, alone, suit)
         \/ pass(turn)
         \/ \E card : discard(turn, card)
         \/ \E card : play_card(turn, card)
  BY Zenon DEF BotVotes, BotDiscards, BotPlays
<1>10. ASSUME NEW s, Asked(s)
       PROVE  \/ \E alone, suit : order(s, alone, suit)
              \/ pass(s)
              \/ \E card : discard(s, card)
              \/ \E card : play_card(s, card)
              \/ UNCHANGED people /\ phase = "PLAYING"
  BY <1>10, Zenon DEF Asked, Order, Pass, Discard, PlayCard, Premove, premove, UndoPremove, undo_premove,
                      LayDown, lay_down
<1>11. Restart \/ (UNCHANGED people /\ (phase = "LOBBY" => phase' = "LOBBY"))
  BY <1>1, <1>2, <1>3, <1>4, <1>6, <1>7, <1>8, <1>9, <1>10, Phases DEF RoomActs, Loop
<1> QED
  BY <1>5, <1>11 DEF people

\* What a welcome shows is a view, and settled, but for the cards that are queued
\* while a hand is played.
LEMMA RoomIsView ==
  /\ IInv /\ CardTypeOK => room \in View
  /\ IInv' /\ CardTypeOK' => room' \in View
<1>1. ASSUME NEW ids \in Seq(Play)
      PROVE  [i \in DOMAIN ids |-> ids[i].id] \in Seq(Seat)
  <2>1. Len(ids) \in Nat /\ DOMAIN ids = 1 .. Len(ids) /\ \A i \in 1 .. Len(ids) : ids[i].id \in Seat
    <3>1. \A i \in 1 .. Len(ids) : ids[i] \in Play
      OBVIOUS
    <3>2. \A p \in Play : p.id \in Seat
      BY DEF Play
    <3> QED
      BY <3>1, <3>2
  <2> DEFINE ofs == [i \in 1 .. Len(ids) |-> ids[i].id]
  <2>2. ofs \in [1 .. Len(ids) -> Seat]
    BY <2>1
  <2>3. ofs \in Seq(Seat)
    BY <2>1, <2>2, SeqDef
  <2> QED
    BY <2>1, <2>3
<1>2. ASSUME NEW held \in [Seat -> Seq(Card)]
      PROVE  [s \in Seat |-> Len(held[s])] \in [Seat -> Int]
  OBVIOUS
<1>3. Seat \subseteq Int /\ [Seat -> Nat] \subseteq [Seat -> Int]
  BY DEF Seat
<1>4. ASSUME IInv, CardTypeOK
      PROVE  room \in View
  BY <1>1, <1>2, <1>3, <1>4 DEF room, View, IInv, ControlTypeOK, CardTypeOK
<1>5. ASSUME IInv', CardTypeOK'
      PROVE  room' \in View
  BY <1>1, <1>2, <1>3, <1>5 DEF room, View, IInv, ControlTypeOK, CardTypeOK
<1> QED
  BY <1>4, <1>5

\* A welcome settles what is shown when no hand is played, or after a lost connection.
LEMMA RoomSettles ==
  ASSUME CardTypeOK, drops # 0 \/ phase \in Waiting, NEW view, view = room
  PROVE  Settled(view)
<1>1. view.card_count = [s \in Seat |-> Len(cards[s])]
  BY DEF room
<1>2. phase \notin Waiting => CountsAgree(view)
  <2> SUFFICES ASSUME drops # 0, NEW s \in Others
               PROVE  view.card_count[s] =< CardCount(s)
    BY DEF CountsAgree, Others
  <2>1. s \in Seat /\ Len(cards[s]) \in Nat /\ Len(premoves[s]) \in Nat
    BY DEF CardTypeOK, Others
  <2>2. CardCount(s) >= Len(cards[s])
    <3>1. \A a, b \in Nat : a + b >= a
      OBVIOUS
    <3> QED
      BY <2>1, <3>1, Zenon DEF CardCount
  <2>3. view.card_count[s] = Len(cards[s])
    BY <1>1, <2>1
  <2> QED
    BY <2>1, <2>2, <2>3
<1>3. /\ view.dealer = dealer /\ view.trump = trump /\ view.scores = scores
      /\ view.tricks = tricks /\ view.sitting_out = sitting_out /\ view.trick = TrickIds
      /\ view.phase = phase
  BY DEF room, TrickIds
<1>4. Shows(view)
  BY <1>2, <1>3 DEF Shows
<1> QED
  BY <1>4, SettledShows

\* The same of a person who has just come in, in a lobby.
LEMMA LobbySettles ==
  ASSUME phase' \in Waiting, NEW view, view = room'
  PROVE  Settled(view)' /\ view.phase = phase' /\ view.turn = turn'
<1>1. /\ view.dealer = dealer' /\ view.trump = trump' /\ view.scores = scores'
      /\ view.tricks = tricks' /\ view.sitting_out = sitting_out' /\ view.trick = TrickIds'
      /\ view.phase = phase' /\ view.turn = turn'
  BY DEF room, TrickIds
<1>2. Shows(view)'
  BY <1>1 DEF Shows
<1> QED
  BY <1>1, <1>2, SettledShows

\* What is shown in the end is a view.
LEMMA FinalView ==
  ASSUME NEW x, x.view \in View, NEW q \in Seq(Message), NEW y, Leads(x, q, y)
  PROVE  y.view \in View
<1>1. Len(q) \in 0 .. Len(q) /\ y = showing(x, q)[Len(q)]
  BY DEF Leads, final
<1>2. \A k \in 0 .. Len(q) : showing(x, q)[k].view \in View
  BY ShownViews
<1> QED
  BY <1>1, <1>2

-----------------------------------------------------------------------------
(* The room goes on *)

\* Before the game everybody in the lobby is a person, in it this one is seated.
LEMMA RoomKeepsPeople ==
  ASSUME IInv, IInv', CardIInv, CardIInv', GamesSeatMe, RoomActs
  PROVE  GamesSeatMe' /\ (seated' > Me <=> seated > Me)
                      /\ (~(seated > Me) => phase = "LOBBY" /\ phase' = "LOBBY")
<1>1. /\ humans' = humans
      /\ Restart \/ (seated' = seated /\ (phase = "LOBBY" => phase' = "LOBBY"))
  BY PeopleStay
<1>2. /\ seated \in 0 .. 4 /\ humans \in 0 .. seated /\ (phase = "LOBBY" \/ seated = 4)
      /\ seated' \in 0 .. 4 /\ (phase' = "LOBBY" \/ seated' = 4)
      /\ Me \in 0 .. 3 /\ \A n \in HumanCounts : n > Me
  BY ClientAssumption DEF IInv, ControlTypeOK, SeatsAreFilled, Seat
<1>3. phase # "LOBBY" => humans \in HumanCounts
  BY DEF GamesSeatMe
<1>4. HumanCounts \subseteq Int
  BY GameAssumption
<1>5. CASE Restart
  <2>1. humans \in HumanCounts /\ phase' = "VOTE_ROUND1" /\ seated' = 4
    BY <1>5 DEF Restart, restart, nextHand
  <2>2. humans > Me /\ seated > Me /\ seated' > Me
    BY <1>2, <1>4, <2>1
  <2> QED
    BY <1>1, <2>1, <2>2 DEF GamesSeatMe
<1>6. CASE seated' = seated /\ (phase = "LOBBY" => phase' = "LOBBY")
  <2>1. GamesSeatMe'
    <3>1. CASE phase = "LOBBY"
      BY <1>1, <1>6, <3>1 DEF GamesSeatMe
    <3>2. CASE phase # "LOBBY" /\ phase' # "LOBBY"
      BY <1>1, <1>3, <3>2 DEF GamesSeatMe
    <3>3. phase' = "LOBBY" => phase = "LOBBY"
      BY RoomStepKinds, Phases DEF Silent, Starts, Orders, Passes, Discards, PlaysOn,
                                   TakesTrick, EndsHand, LaysDown
    <3> QED
      BY <3>1, <3>2, <3>3
  <2>2. ~(seated > Me) => phase = "LOBBY"
    BY <1>2
  <2> QED
    BY <1>6, <2>1, <2>2
<1> QED
  BY <1>1, <1>5, <1>6

\* A request that is handled plays, discards or queues a card of this person's.
LEMMA HandledIsAsked ==
  ASSUME RoomSteps
  PROVE  /\ RoomActs
         /\ queue' = IF online THEN queue \o sent ELSE queue
         /\ refused' = (refused /\ sent = <<>>)
         /\ \/ /\ Restart \/ Chat \/ Loop \/ \E s \in Human : Requests(s)
               /\ outbox' = outbox
            \/ outbox # <<>> /\ handles(Head(outbox)) /\ outbox' = Tail(outbox)
         /\ UNCHANGED <<state, card_nodes, mine, cooling_down, running, thinking, hung, online,
                        drops, tardy>>
<1>1. ASSUME NEW s, Requests(s)
      PROVE  Asked(s)
  BY <1>1, Zenon DEF Requests, Asked
<1>2. ASSUME NEW req, handles(req)
      PROVE  Asked(Me)
  BY <1>2, Zenon DEF handles, Asked
<1>3. \/ /\ Restart \/ Chat \/ Loop \/ \E s \in Human : Requests(s)
         /\ outbox' = outbox
      \/ outbox # <<>> /\ Me \in Human /\ handles(Head(outbox)) /\ outbox' = Tail(outbox)
  BY Zenon DEF RoomSteps
<1>4. RoomActs
  BY <1>1, <1>2, <1>3, Zenon DEF RoomActs
<1>5. /\ queue' = IF online THEN queue \o sent ELSE queue
      /\ refused' = (refused /\ sent = <<>>)
      /\ UNCHANGED <<state, card_nodes, mine, cooling_down, running, thinking, hung, online,
                     drops, tardy>>
  BY DEF RoomSteps
<1> QED
  BY <1>3, <1>4, <1>5, Zenon

\* While it is this person's turn and no cascade runs, nobody else discards or plays.
LEMMA OwnTurn ==
  ASSUME IInv, CardIInv, GamesSeatMe, RoomSteps, turn = Me, pc # "cascade",
         phase \in {"DISCARDING", "PLAYING"},
         phase = "DISCARDING" => phase' # phase,
         phase = "PLAYING" => trick' # trick
  PROVE  /\ outbox # <<>> /\ handles(Head(outbox)) /\ outbox' = Tail(outbox)
         /\ phase = "DISCARDING" => Head(outbox).type = "discard"
<1>1. phase \notin Waiting /\ phase \notin Voting /\ phase # "LOBBY"
  BY Phases
<1>2. pc = "idle"
  <2>1. humans \in HumanCounts
    BY <1>1 DEF GamesSeatMe
  <2>2. ~(turn >= humans)
    BY <2>1, ClientAssumption, GameAssumption DEF Seat
  <2>3. pc # "bots"
    BY <2>2 DEF CardIInv, LoopsHaveWork, IsBot
  <2> QED
    BY <2>3 DEF IInv, ControlTypeOK
<1>3. ~Restart /\ ~Chat /\ ~Loop
  <2>1. ~Restart
    BY <1>1 DEF Restart, restart
  <2>2. ~Chat
    BY DEF Chat, table
  <2>3. ~Loop
    BY <1>2, Zenon DEF Loop, CascadeStep, CascadeThrows, BotVotes, BotDiscards, BotPlays, BotThrows
  <2> QED
    BY <2>1, <2>2, <2>3
<1>4. ASSUME NEW s, Requests(s)
      PROVE  FALSE
  <2>1. ASSUME NEW alone, NEW suit, order(s, alone, suit)
        PROVE  FALSE
    BY <1>1, <2>1 DEF order
  <2>2. ~pass(s)
    BY <1>1 DEF pass
  <2>3. ASSUME NEW card, discard(s, card), s # Me
        PROVE  FALSE
    BY <2>3 DEF discard, IInv, TurnHoldsToken
  <2>4. ASSUME NEW card, premove(s, card)
        PROVE  FALSE
    BY <2>4 DEF premove, table
  <2>5. ~undo_premove(s)
    BY DEF undo_premove, table
  <2>6. ~lay_down(s)
    BY DEF lay_down, table
  <2>7. \/ \E alone, suit : order(s, alone, suit)
        \/ pass(s)
        \/ s # Me /\ turn # Me
        \/ s # Me /\ \E card : discard(s, card)
        \/ \E card : premove(s, card)
        \/ undo_premove(s)
        \/ lay_down(s)
    BY <1>4, Zenon DEF Requests, Order, Pass, Discard, Premove, UndoPremove, LayDown
  <2> QED
    BY <2>1, <2>2, <2>3, <2>4, <2>5, <2>6, <2>7
<1>5. outbox # <<>> /\ handles(Head(outbox)) /\ outbox' = Tail(outbox)
  BY <1>3, <1>4, HandledIsAsked, Zenon
<1>6. ASSUME phase = "DISCARDING", NEW req, handles(req)
      PROVE  req.type = "discard"
  BY <1>6 DEF handles, play_card, premove
<1> QED
  BY <1>5, <1>6

\* So the card that is told of this person is one: of its queue, or of its request.
LEMMA OwnCardIsCard ==
  ASSUME IInv, CardIInv, GamesSeatMe, ClientTypeOK, RoomSteps, CardIsPlayed
  PROVE  ownCard \in AnyCard
<1>1. CASE turn # Me
  BY <1>1 DEF ownCard, AnyCard
<1>2. CASE turn = Me /\ pc = "cascade"
  <2>1. ownCard = fetched(premoves[Me]) /\ Me \in Seat
    BY <1>2, ClientAssumption DEF ownCard
  <2>2. premoves[Me] \in Seq(Card)
    BY <2>1 DEF CardIInv, CardsInOrder, CardTypeOK
  <2>3. premoves[Me] # <<>>
    BY <1>2 DEF CardIInv, LoopsHaveWork, premoveAvailable
  <2>4. Len(premoves[Me]) >= 1 /\ Len(premoves[Me]) \in Nat
    BY <2>2, <2>3
  <2>5. fetched(premoves[Me]) \in Card
    BY <2>2, <2>4 DEF fetched
  <2> QED
    BY <2>1, <2>5 DEF AnyCard
<1>3. CASE turn = Me /\ pc # "cascade"
  <2>1. outbox # <<>>
    BY <1>3, OwnTurn DEF CardIsPlayed
  <2>2. PICK R : R = [type : {"discard", "play_card", "premove"}, card : AnyCard]
    OBVIOUS
  <2>3. Head(outbox) \in R
    <3>1. outbox \in Seq(R)
      BY <2>2 DEF ClientTypeOK
    <3> QED
      BY <2>1, <3>1
  <2>4. Head(outbox).card \in AnyCard
    BY <2>2, <2>3
  <2> QED
    BY <1>3, <2>4 DEF ownCard
<1> QED
  BY <1>1, <1>2, <1>3

\* Who discards is answered at once, and that is all that is told of discards.
LEMMA AnswersAreDue ==
  ASSUME IInv, IInv', CardIInv, CardIInv', GamesSeatMe, ClientTypeOK, RoomSteps, AnswerDue',
         Silent \/ Discards \/ sent \in Seq(News)
  PROVE  AnswerDue
<1>1. PICK q \in Seq(Message) : q = queue
  BY DEF ClientTypeOK
<1>2. PICK o \in Seq([type : {"discard", "play_card", "premove"}, card : AnyCard]) : o = outbox
  BY DEF ClientTypeOK
<1>3. outbox' = o \/ (o # <<>> /\ outbox' = Tail(o))
  BY <1>2, HandledIsAsked
<1>4. CASE \E i \in DOMAIN outbox' : outbox'[i].type = "discard"
  <2>1. CASE outbox' = o
    BY <1>2, <1>4, <2>1 DEF AnswerDue
  <2>2. CASE o # <<>> /\ outbox' = Tail(o)
    <3>1. PICK i \in DOMAIN Tail(o) : Tail(o)[i].type = "discard"
      BY <1>4, <2>2
    <3>2. i + 1 \in DOMAIN o /\ o[i + 1] = Tail(o)[i]
      BY <2>2, <3>1
    <3> QED
      BY <1>2, <3>1, <3>2 DEF AnswerDue
  <2> QED
    BY <1>3, <2>1, <2>2
<1>5. CASE \E i \in DOMAIN queue' : queue'[i].type = "discarded" /\ queue'[i].id = Me
  <2>1. CASE queue' = q
    BY <1>1, <1>5, <2>1 DEF AnswerDue
  <2>2. CASE Silent \/ sent \in Seq(News)
    <3>1. PICK r \in Seq(News) : r = sent
      <4>1. sent = <<>> \/ sent \in Seq(News)
        BY <2>2 DEF Silent
      <4>2. sent \in Seq(News)
        <5>1. <<>> \in Seq(News)
          OBVIOUS
        <5> QED
          BY <4>1, <5>1, Zenon
      <4> QED
        BY <4>2, Zenon
    <3>2. CASE queue' = q \o r
      <4>1. PICK i \in DOMAIN (q \o r) : (q \o r)[i].type = "discarded" /\ (q \o r)[i].id = Me
        BY <1>5, <3>2
      <4>2. CASE i \in DOMAIN q
        BY <1>1, <4>1, <4>2 DEF AnswerDue
      <4>3. CASE i \notin DOMAIN q
        <5>1. i - Len(q) \in DOMAIN r /\ (q \o r)[i] = r[i - Len(q)]
          BY <4>1, <4>3
        <5>2. (q \o r)[i] \in News
          BY <5>1
        <5> QED
          BY <4>1, <5>2 DEF News
      <4> QED
        BY <4>2, <4>3
    <3> QED
      BY <1>1, <2>1, <3>1, <3>2, HandledIsAsked
  <2>3. CASE Discards
    <3>1. PICK m : m = [type |-> "discarded", id |-> turn]
      OBVIOUS
    <3>2. PICK u : u = update
      OBVIOUS
    <3>3. u.type = "update" /\ m.id = turn
      BY <3>1, <3>2 DEF update
    <3>4. CASE queue' = q \o <<m, u>>
      <4>1. PICK i \in DOMAIN (q \o <<m, u>>) :
              (q \o <<m, u>>)[i].type = "discarded" /\ (q \o <<m, u>>)[i].id = Me
        BY <1>5, <3>4
      <4>2. CASE i \in DOMAIN q
        BY <1>1, <4>1, <4>2 DEF AnswerDue
      <4>3. CASE i \notin DOMAIN q
        <5>1. (q \o <<m, u>>)[i] \in {m, u}
          BY <4>1, <4>3
        <5>2. turn = Me
          BY <3>3, <4>1, <5>1
        <5>3. o # <<>> /\ Head(o).type = "discard"
          <6>1. phase = "DISCARDING" /\ phase' # phase
            BY <2>3 DEF Discards
          <6>2. pc # "cascade"
            BY <6>1 DEF CardIInv, LoopsHaveWork
          <6> QED
            BY <1>2, <5>2, <6>1, <6>2, OwnTurn
        <5>4. 1 \in DOMAIN o /\ o[1].type = "discard"
          BY <5>3
        <5> QED
          BY <1>2, <5>4 DEF AnswerDue
      <4> QED
        BY <4>2, <4>3
    <3>5. queue' = q \/ queue' = q \o <<m, u>>
      BY <1>1, <2>3, <3>1, <3>2, HandledIsAsked DEF Discards
    <3> QED
      BY <2>1, <3>4, <3>5
  <2> QED
    BY <2>2, <2>3
<1> QED
  BY <1>4, <1>5 DEF AnswerDue

\* What is appended to the queue in a step of the room, and what it leads to.
LEMMA QueueFollows ==
  ASSUME IInv, IInv', CardIInv, CardIInv', drops' = drops,
         RoomActs, CardIsPlayed => ownCard \in AnyCard,
         NEW x, x.view \in View, NEW q \in Seq(Message), NEW y, Leads(x, q, y), Settled(y.view)
  PROVE  \E z : /\ (q \o sent) \in Seq(Message) /\ Leads(x, q \o sent, z)
                /\ Settled(z.view)'
                /\ \/ Silent /\ sent = <<>> /\ z = y
                   \/ /\ sent \in Seq(Told) /\ (Discards \/ sent \in Seq(News))
                      /\ z.view.phase = phase' /\ z.view.turn = turn'
                /\ y.seats = Thinkers /\ Fit(x, q) => z.seats = Thinkers' /\ Fit(x, q \o sent)
<1>1. y.view \in View
  BY FinalView
<1>2. \/ Silent
      \/ /\ sent \in Seq(Told) /\ \E z : Leads(y, sent, z) /\ Follows(y, z)
         /\ Discards \/ sent \in Seq(News)
  BY <1>1, ToldFollows
<1>3. CASE Silent
  <2>1. sent = <<>> /\ Settled(y.view)' /\ Thinkers' = Thinkers
    BY <1>3, SilentFollows
  <2>2. q \o sent = q
    BY <2>1
  <2> QED
    BY <1>3, <2>1, <2>2
<1>4. ASSUME sent \in Seq(Told), Discards \/ sent \in Seq(News),
             NEW z, Leads(y, sent, z), Follows(y, z)
      PROVE  /\ (q \o sent) \in Seq(Message) /\ Leads(x, q \o sent, z)
             /\ Settled(z.view)'
             /\ z.view.phase = phase' /\ z.view.turn = turn'
             /\ y.seats = Thinkers /\ Fit(x, q) => z.seats = Thinkers' /\ Fit(x, q \o sent)
  <2>1. PICK r \in Seq(Message) : r = sent
    <3>1. Told \subseteq Message
      BY DEF Told
    <3>2. sent \in Seq(Message)
      BY <1>4, <3>1
    <3> QED
      BY <3>2, Zenon
  <2>2. PICK p : p = q \o r
    OBVIOUS
  <2>3. Leads(y, r, z)
    BY <1>4, <2>1
  <2>4. p \in Seq(Message) /\ Leads(x, p, z)
    <3> DEFINE M == Message
    <3>1. q \in Seq(M) /\ r \in Seq(M)
      BY <2>1
    <3> HIDE DEF M
    <3>2. p \in Seq(M)
      BY <2>2, <3>1
    <3>3. Leads(x, p, z)
      <4>1. final(x, q \o r) = final(final(x, q), r)
        BY <3>1, FinalOfBoth
      <4> QED
        BY <2>2, <2>3, <4>1 DEF Leads
    <3> QED
      BY <3>2, <3>3 DEF M
  <2>5. Fit(x, p) <=> Fit(x, q) /\ Fit(y, r)
    BY <2>2, FitsMore
  <2>6. /\ z.view.phase = phase' /\ z.view.turn = turn' /\ Settled(z.view)'
        /\ y.seats = Thinkers => z.seats = Thinkers' /\ Fit(y, r)
    BY <1>4, <2>1 DEF Follows
  <2>7. q \o sent = p
    BY <2>1, <2>2
  <2> QED
    BY <2>4, <2>5, <2>6, <2>7
<1> QED
  BY <1>2, <1>3, <1>4

\* What a request handled in silence asked was no card to be shown: it is not shown
\* as played, and a card that was is still to be answered.
LEMMA SilenceKeepsAsked ==
  ASSUME IInv, IInv', CardIInv, CardIInv', ClientTypeOK, RoomSteps, Silent, CardIsAsked
  PROVE  CardIsAsked'
<1>1. PICK o \in Seq([type : {"discard", "play_card", "premove"}, card : AnyCard]) : o = outbox
  BY DEF ClientTypeOK
<1>2. PICK i \in DOMAIN o : o[i].type # "premove"
  BY <1>1 DEF CardIsAsked
<1>3. CASE outbox' = o
  BY <1>2, <1>3 DEF CardIsAsked
<1>4. CASE o # <<>> /\ handles(Head(o)) /\ outbox' = Tail(o)
  <2>1. phase' = phase /\ trick' = trick
    BY DEF Silent
  <2>2. ASSUME NEW s, NEW card, play_card(s, card)
        PROVE  FALSE
    <3> DEFINE own == [cards EXCEPT ![turn] = erase(@, card)]
    <3>1. phase = "PLAYING" /\ Taken(card, own, premoves) /\ playTop(card, own, premoves)
      BY <2>2, PlayCardTakes DEF CardIInv
    <3> HIDE DEF own
    <3>2. PlaysOn \/ TakesTrick \/ EndsHand
      BY <3>1, PlayIsTold DEF CardIInv
    <3> QED
      BY <2>1, <3>2 DEF PlaysOn, TakesTrick, EndsHand, CardIsPlayed
  <2>3. ASSUME NEW s, NEW card, discard(s, card)
        PROVE  FALSE
    BY <2>1, <2>3 DEF discard, startPlay
  <2>4. Head(o).type = "premove"
    BY <1>4, <2>2, <2>3, Zenon DEF handles
  <2>5. i # 1
    BY <1>2, <1>4, <2>4
  <2>6. i - 1 \in DOMAIN Tail(o) /\ Tail(o)[i - 1] = o[i]
    BY <1>4, <2>5
  <2> QED
    BY <1>2, <1>4, <2>6 DEF CardIsAsked
<1> QED
  BY <1>1, <1>3, <1>4, HandledIsAsked

\* The parts hold on when the room goes on.
LEMMA RoomStepsKeepParts ==
  ASSUME IInv, IInv', CardIInv, CardIInv', Parts, RoomSteps
  PROVE  Parts'
<1>1. /\ RoomActs
      /\ queue' = IF online THEN queue \o sent ELSE queue
      /\ refused' = (refused /\ sent = <<>>)
      /\ UNCHANGED <<state, card_nodes, mine, cooling_down, running, thinking, hung, online,
                     drops, tardy>>
      /\ outbox' = outbox \/ (outbox # <<>> /\ outbox' = Tail(outbox))
  BY HandledIsAsked
<1>2. /\ GamesSeatMe' /\ (seated' > Me <=> seated > Me)
      /\ (~(seated > Me) => phase = "LOBBY" /\ phase' = "LOBBY")
  BY <1>1, RoomKeepsPeople DEF Parts
<1>3. start' = start /\ start.view = state /\ state \in View /\ queue \in Seq(Message)
  BY <1>1 DEF start, Parts, ClientTypeOK
<1>4. /\ outbox' \in Seq([type : {"discard", "play_card", "premove"}, card : AnyCard])
      /\ refused' \in BOOLEAN
  <2>1. outbox \in Seq([type : {"discard", "play_card", "premove"}, card : AnyCard])
        /\ refused \in BOOLEAN
    BY DEF Parts, ClientTypeOK
  <2>2. outbox' \in Seq([type : {"discard", "play_card", "premove"}, card : AnyCard])
    BY <1>1, <2>1
  <2>3. refused' \in BOOLEAN
    BY <1>1, <2>1, Zenon
  <2> QED
    BY <2>2, <2>3
<1>5. CASE ~online
  <2>1. queue' = queue
    BY <1>1, <1>5
  <2>2. ClientTypeOK'
    BY <1>1, <1>4, <2>1 DEF Parts, ClientTypeOK
  <2>3. EndShown'
    BY <1>1, <1>5 DEF EndShown
  <2>4. drops = 0 => NothingLost'
    <3> HAVE drops = 0
    <3>1. ~(seated > Me) /\ queue = <<>>
      BY <1>5 DEF Parts, NothingLost
    <3>2. phase = "LOBBY" /\ phase' = "LOBBY" /\ ~(seated' > Me)
      BY <1>2, <3>1
    <3>3. Thinkers' = Thinkers
      BY <3>2, Phases DEF Thinkers
    <3>4. WelcomeFirst'
      BY <2>1, <3>1 DEF WelcomeFirst
    <3> QED
      BY <1>1, <1>3, <1>5, <2>1, <3>2, <3>3, <3>4 DEF Parts, NothingLost
  <2>5. AnswerDue' => AnswerDue
    <3>1. ASSUME NEW i \in DOMAIN outbox', outbox'[i].type = "discard"
          PROVE  \E k \in DOMAIN outbox : outbox[k].type = "discard"
      <4>1. CASE outbox' = outbox
        BY <3>1, <4>1
      <4>2. CASE outbox # <<>> /\ outbox' = Tail(outbox)
        <5>1. outbox \in Seq([type : {"discard", "play_card", "premove"}, card : AnyCard])
          BY DEF Parts, ClientTypeOK
        <5>2. i + 1 \in DOMAIN outbox /\ outbox[i + 1] = outbox'[i]
          BY <3>1, <4>2, <5>1
        <5> QED
          BY <3>1, <5>2
      <4> QED
        BY <1>1, <4>1, <4>2
    <3> QED
      BY <2>1, <3>1 DEF AnswerDue
  <2>6. drops = 0 /\ ~tardy => WaitsEnd'
    BY <1>1, <2>5 DEF Parts, WaitsEnd
  <2> QED
    BY <1>1, <1>2, <2>2, <2>3, <2>4, <2>6 DEF Parts
<1>6. CASE online
  <2>1. PICK y : Leads(start, queue, y) /\ ShowsTheRoom(y.view)
    BY <1>6 DEF Parts, EndShown
  <2>2. start.view \in View /\ Settled(y.view)
    BY <1>3, <2>1 DEF ShowsTheRoom
  <2>3. PICK z : /\ (queue \o sent) \in Seq(Message) /\ Leads(start, queue \o sent, z)
                 /\ Settled(z.view)'
                 /\ \/ Silent /\ sent = <<>> /\ z = y
                    \/ /\ sent \in Seq(Told) /\ (Discards \/ sent \in Seq(News))
                       /\ z.view.phase = phase' /\ z.view.turn = turn'
                 /\ y.seats = Thinkers /\ Fit(start, queue)
                    => z.seats = Thinkers' /\ Fit(start, queue \o sent)
    <3>1. CardIsPlayed => ownCard \in AnyCard
      BY OwnCardIsCard DEF Parts
    <3> QED
      BY <1>1, <1>3, <2>1, <2>2, <3>1, QueueFollows
  <2>4. queue' = queue \o sent
    BY <1>1, <1>6
  <2>5. ClientTypeOK'
    BY <1>1, <1>4, <2>3, <2>4 DEF Parts, ClientTypeOK
  <2>6. ShowsTheRoom(z.view)'
    <3>1. CASE Silent /\ sent = <<>> /\ z = y
      <4>1. CASE AheadOfRoom(y.view) /\ (CardIsAsked \/ refused)
        <5>1. AheadOfRoom(z.view)'
          BY <3>1, <4>1 DEF Silent, AheadOfRoom
        <5>2. CardIsAsked => CardIsAsked'
          BY <3>1, SilenceKeepsAsked DEF Parts
        <5>3. refused => refused'
          BY <1>1, <3>1, Zenon
        <5> QED
          BY <2>3, <4>1, <5>1, <5>2, <5>3 DEF ShowsTheRoom
      <4>2. CASE y.view.phase = phase /\ y.view.turn = turn
        BY <2>3, <3>1, <4>2 DEF ShowsTheRoom, Silent
      <4> QED
        BY <2>1, <4>1, <4>2 DEF ShowsTheRoom
    <3>2. CASE z.view.phase = phase' /\ z.view.turn = turn'
      BY <2>3, <3>2 DEF ShowsTheRoom
    <3> QED
      BY <2>3, <3>1, <3>2
  <2>7. Leads(start, queue, z)'
    BY <1>3, <2>3, <2>4 DEF Leads
  <2>8. EndShown'
    <3>1. seated' > Me
      BY <1>2, <1>6 DEF Parts, EndShown
    <3> QED
      BY <2>6, <2>7, <3>1 DEF EndShown
  <2>9. drops = 0 => NothingLost'
    <3> HAVE drops = 0
    <3>1. y.seats = Thinkers /\ Fit(start, queue) /\ WelcomeFirst
      BY <2>1 DEF Parts, NothingLost, Leads
    <3>2. z.seats = Thinkers' /\ Fit(start, queue)'
      BY <1>3, <2>3, <2>4, <3>1 DEF Fit
    <3>3. WelcomeFirst'
      <4> SUFFICES ASSUME NEW i \in DOMAIN (queue \o sent), (queue \o sent)[i].type = "welcome"
                   PROVE  i \in DOMAIN queue /\ (queue \o sent)[i] = queue[i]
        BY <1>1, <2>4, <3>1 DEF WelcomeFirst, tooMany
      <4>1. sent \in Seq(Told)
        <5>1. <<>> \in Seq(Told)
          OBVIOUS
        <5> QED
          BY <2>3, <5>1, Zenon
      <4>2. i \in DOMAIN queue \/ (queue \o sent)[i] \in Told
        BY <1>3, <4>1
      <4>3. i \in DOMAIN queue
        BY <4>2 DEF Told
      <4> QED
        BY <1>3, <4>1, <4>3
    <3> QED
      BY <1>1, <1>6, <2>7, <3>2, <3>3 DEF NothingLost
  <2>10. drops = 0 /\ ~tardy => WaitsEnd'
    <3>1. Silent \/ Discards \/ sent \in Seq(News)
      BY <2>3
    <3>2. AnswerDue' => AnswerDue
      BY <3>1, AnswersAreDue DEF Parts
    <3> QED
      BY <1>1, <3>2 DEF Parts, WaitsEnd
  <2> QED
    BY <1>1, <1>2, <2>5, <2>8, <2>9, <2>10 DEF Parts
<1> QED
  BY <1>5, <1>6

-----------------------------------------------------------------------------
(* The connection *)

\* What is said of the room stays when the room does.
LEMMA RoomIsLeft ==
  ASSUME UNCHANGED vars, drops' = drops
  PROVE  /\ GamesSeatMe => GamesSeatMe'
         /\ Thinkers' = Thinkers
         /\ \A v : Settled(v)' <=> Settled(v)
         /\ \A v : AheadOfRoom(v)' <=> AheadOfRoom(v)
<1>1. UNCHANGED <<phase, dealer, turn, trump, scores, tricks, sitting_out, trick, turn_token,
                  cards, premoves, seated, humans>>
  BY DEF vars, people, contract, hands, table
<1>2. \A v : Shows(v)' <=> Shows(v)
  BY <1>1 DEF Shows, TrickIds, CountsAgree, CardCount
<1> QED
  BY <1>1, <1>2, SettledShows DEF GamesSeatMe, Thinkers, AheadOfRoom

\* A request that is refused was no card shown as played, or the refusal is noted.
LEMMA RefusalKeepsParts ==
  ASSUME Parts, RoomRefuses
  PROVE  Parts'
<1>1. /\ UNCHANGED vars
      /\ outbox # <<>> /\ outbox' = Tail(outbox)
      /\ refused' = (refused \/ Head(outbox).type # "premove")
      /\ UNCHANGED <<state, card_nodes, mine, queue, cooling_down, running, thinking, hung, online,
                     drops, tardy>>
  BY Zenon DEF RoomRefuses
<1>2. seated' = seated /\ phase' = phase /\ turn' = turn
  BY <1>1 DEF vars, people
<1>3. /\ outbox \in Seq([type : {"discard", "play_card", "premove"}, card : AnyCard])
      /\ refused \in BOOLEAN
  BY DEF Parts, ClientTypeOK
<1>4. ClientTypeOK'
  <2>1. outbox' \in Seq([type : {"discard", "play_card", "premove"}, card : AnyCard])
    BY <1>1, <1>3
  <2>2. refused' \in BOOLEAN
    BY <1>1, <1>3, Zenon
  <2> QED
    BY <1>1, <2>1, <2>2 DEF Parts, ClientTypeOK
<1>5. \A i \in DOMAIN outbox' : i + 1 \in DOMAIN outbox /\ outbox'[i] = outbox[i + 1]
  BY <1>1, <1>3
<1>6. ASSUME CardIsAsked \/ refused
      PROVE  CardIsAsked' \/ refused'
  <2>1. CASE refused \/ Head(outbox).type # "premove"
    BY <1>1, <2>1, Zenon
  <2>2. CASE CardIsAsked /\ Head(outbox).type = "premove"
    <3>1. PICK i \in DOMAIN outbox : outbox[i].type # "premove"
      BY <2>2 DEF CardIsAsked
    <3>2. i # 1
      BY <1>1, <1>3, <2>2, <3>1
    <3>3. i - 1 \in DOMAIN outbox' /\ outbox'[i - 1] = outbox[i]
      BY <1>1, <1>3, <3>2
    <3> QED
      BY <3>1, <3>3 DEF CardIsAsked
  <2> QED
    BY <1>6, <2>1, <2>2
<1>7. EndShown'
  BY <1>1, <1>2, <1>6, RoomIsLeft DEF Parts, EndShown, ShowsTheRoom, start, Leads
<1>8. drops = 0 => NothingLost'
  BY <1>1, <1>2, RoomIsLeft DEF Parts, NothingLost, WelcomeFirst, tooMany, Fit, Leads, start
<1>9. drops = 0 /\ ~tardy => WaitsEnd'
  <2>1. AnswerDue' => AnswerDue
    BY <1>1, <1>5 DEF AnswerDue
  <2> QED
    BY <1>1, <2>1 DEF Parts, WaitsEnd
<1> QED
  BY <1>1, <1>4, <1>7, <1>8, <1>9, RoomIsLeft DEF Parts

\* A connection that is lost promises nothing.
LEMMA DropKeepsParts ==
  ASSUME Parts, Drops
  PROVE  Parts'
<1>1. /\ ~online' /\ online' \in BOOLEAN /\ drops' = drops + 1
      /\ UNCHANGED <<phase, seated, humans>>
      /\ UNCHANGED <<state, card_nodes, mine, queue, cooling_down, running, thinking, hung, outbox,
                     tardy, refused>>
  BY DEF Drops, vars, people
<1>2. ClientTypeOK' /\ drops' # 0
  BY <1>1 DEF Parts, ClientTypeOK
<1>3. GamesSeatMe' /\ EndShown'
  BY <1>1 DEF Parts, GamesSeatMe, EndShown
<1> QED
  BY <1>2, <1>3 DEF Parts

\* A new connection is told the room as it is.
LEMMA ReconnectKeepsParts ==
  ASSUME IInv, CardIInv, Parts, Reconnects
  PROVE  Parts'
<1>1. /\ ~online /\ seated > Me /\ online' = TRUE /\ queue' = Append(queue, welcome)
      /\ outbox' = <<>> /\ refused' = FALSE
      /\ UNCHANGED <<phase, dealer, turn, trump, scores, tricks, sitting_out, trick,
                     cards, premoves, seated, humans>>
      /\ UNCHANGED <<state, card_nodes, mine, cooling_down, running, thinking, hung, drops, tardy>>
  BY DEF Reconnects, vars, people, contract, hands, table
<1>2. drops # 0
  BY <1>1 DEF Parts, NothingLost
<1>3. PICK m : m = welcome
  OBVIOUS
<1>4. room \in View
  BY RoomIsView DEF CardIInv, CardsInOrder
<1>5. m.type = "welcome" /\ m.room = room /\ m \in Message
  <2>1. cards[Me] \in Seq(Card) /\ top_card \in AnyCard
    BY ClientAssumption DEF CardIInv, CardsInOrder, CardTypeOK, AnyCard
  <2> QED
    BY <1>3, <1>4, <2>1 DEF welcome, Message
<1>6. queue \in Seq(Message) /\ queue' = queue \o <<m>>
  BY <1>1, <1>3, <1>5 DEF Parts, ClientTypeOK
<1>7. ClientTypeOK'
  <2>1. /\ queue' \in Seq(Message)
        /\ outbox' \in Seq([type : {"discard", "play_card", "premove"}, card : AnyCard])
    <3>1. queue' \in Seq(Message)
      BY <1>5, <1>6
    <3>2. outbox' \in Seq([type : {"discard", "play_card", "premove"}, card : AnyCard])
      BY <1>1
    <3> QED
      BY <3>1, <3>2
  <2>2. online' \in BOOLEAN /\ refused' \in BOOLEAN
    BY <1>1, Zenon
  <2> QED
    BY <1>1, <2>1, <2>2 DEF Parts, ClientTypeOK
<1>8. PICK y : Leads(start, queue, y)
  BY DEF Leads
<1>9. PICK z : z = after(m, y)
  OBVIOUS
<1>10. PICK p : p = queue \o <<m>>
  OBVIOUS
<1>11. Leads(start, p, z)
  BY <1>5, <1>6, <1>8, <1>9, <1>10, FinalOfOneMore
<1>12. Leads(start, queue, z)'
  <2>1. start' = start
    BY <1>1 DEF start
  <2> QED
    BY <1>6, <1>10, <1>11, <2>1 DEF Leads
<1>13. z.view = room
  <2>1. z.view = shows(m, y.view)
    BY <1>9 DEF after
  <2> QED
    BY <1>5, <2>1, ShowsByType
<1>14. ShowsTheRoom(z.view)'
  <2>1. Settled(z.view)
    BY <1>2, <1>13, RoomSettles DEF CardIInv, CardsInOrder
  <2>2. Settled(z.view)'
    <3>1. Shows(z.view)
      BY <2>1, SettledShows
    <3>2. Shows(z.view)'
      BY <1>1, <3>1 DEF Shows, TrickIds, CountsAgree, Others, CardCount
    <3> QED
      BY <3>2, SettledShows
  <2>3. z.view.phase = phase' /\ z.view.turn = turn'
    BY <1>1, <1>13 DEF room
  <2> QED
    BY <2>2, <2>3 DEF ShowsTheRoom
<1>15. EndShown'
  BY <1>1, <1>12, <1>14 DEF EndShown
<1> QED
  BY <1>1, <1>2, <1>7, <1>15 DEF Parts, GamesSeatMe

\* Who comes into the lobby is told it, with nothing shown yet.
LEMMA JoinKeepsParts ==
  ASSUME IInv, IInv', CardIInv', Parts, Joins
  PROVE  Parts'
<1>1. /\ seated < 4 /\ seated' = seated + 1 /\ humans' = humans + 1
      /\ seated = 0 \/ turn' = turn
      /\ UNCHANGED <<phase, dealer, trump, scores, tricks, sitting_out, trick, cards, premoves>>
      /\ UNCHANGED <<state, card_nodes, mine, cooling_down, running, thinking, hung, outbox, drops,
                     tardy, refused>>
      /\ IF seated = Me THEN online' = TRUE /\ queue' = Append(queue, welcome')
         ELSE UNCHANGED <<online, queue>>
  <2> Join
    BY Zenon DEF Joins
  <2>1. seated = 0 \/ turn' = turn
    BY DEF Join
  <2>2. /\ seated < 4 /\ seated' = seated + 1 /\ humans' = humans + 1
        /\ UNCHANGED <<phase, dealer, trump, scores, tricks, sitting_out, trick, cards, premoves>>
    BY DEF Join, contract, hands, table
  <2>3. /\ UNCHANGED <<state, card_nodes, mine, cooling_down, running, thinking, hung, outbox, drops,
                       tardy, refused>>
        /\ IF seated = Me THEN online' = TRUE /\ queue' = Append(queue, welcome')
           ELSE UNCHANGED <<online, queue>>
    BY Zenon DEF Joins
  <2> QED
    BY <2>1, <2>2, <2>3, Zenon
<1>2. seated \in 0 .. 3 /\ Me \in 0 .. 3 /\ phase = "LOBBY" /\ phase \in Waiting /\ phase \notin Voting
  BY <1>1, ClientAssumption, Phases DEF IInv, ControlTypeOK, SeatsAreFilled, Seat
<1>3. GamesSeatMe' /\ start' = start /\ Thinkers' = Thinkers
  BY <1>1, <1>2 DEF Parts, GamesSeatMe, start, Thinkers
<1>4. \A v : Shows(v)' <=> Shows(v)
  BY <1>1, <1>2 DEF Shows, TrickIds
<1>5. \A v : Settled(v)' <=> Settled(v)
  BY <1>4, SettledShows
<1>6. CASE seated # Me
  <2>1. online' = online /\ queue' = queue
    BY <1>1, <1>6
  <2>2. ClientTypeOK'
    BY <1>1, <2>1 DEF Parts, ClientTypeOK
  <2>3. EndShown'
    <3> SUFFICES ASSUME online
                 PROVE  seated' > Me /\ \E y : Leads(start, queue, y)' /\ ShowsTheRoom(y.view)'
      BY <2>1 DEF EndShown
    <3>1. PICK y : seated > Me /\ Leads(start, queue, y) /\ ShowsTheRoom(y.view)
      BY DEF Parts, EndShown
    <3>2. turn' = turn /\ seated' > Me
      BY <1>1, <1>2, <3>1
    <3>3. ~AheadOfRoom(y.view)
      BY <1>2 DEF AheadOfRoom
    <3>4. ShowsTheRoom(y.view)'
      BY <1>1, <1>5, <3>1, <3>2, <3>3 DEF ShowsTheRoom
    <3>5. Leads(start, queue, y)'
      BY <1>3, <2>1, <3>1 DEF Leads
    <3> QED
      BY <3>2, <3>4, <3>5
  <2>4. drops = 0 => NothingLost'
    <3> HAVE drops = 0
    <3>1. NothingLost
      BY DEF Parts
    <3>2. seated' > Me => online'
      BY <1>1, <1>2, <1>6, <2>1, <3>1 DEF NothingLost
    <3>3. WelcomeFirst'
      BY <1>1, <2>1, <3>1 DEF NothingLost, WelcomeFirst, tooMany
    <3> QED
      BY <1>1, <1>3, <2>1, <3>1, <3>2, <3>3 DEF NothingLost, Fit, Leads
  <2>5. drops = 0 /\ ~tardy => WaitsEnd'
    BY <1>1, <2>1 DEF Parts, WaitsEnd, AnswerDue
  <2> QED
    BY <1>1, <1>3, <2>2, <2>3, <2>4, <2>5 DEF Parts
<1>7. CASE seated = Me
  <2>1. PICK m : m = welcome'
    OBVIOUS
  <2>2. room' \in View
    BY RoomIsView DEF CardIInv, CardsInOrder
  <2>3. m.type = "welcome" /\ m.room = room' /\ m \in Message
    <3>1. cards'[Me] \in Seq(Card) /\ top_card' \in AnyCard
      BY ClientAssumption DEF CardIInv, CardsInOrder, CardTypeOK, AnyCard
    <3> QED
      BY <2>1, <2>2, <3>1 DEF welcome, Message
  <2>4. queue \in Seq(Message) /\ queue' = queue \o <<m>> /\ online' = TRUE
    <3>1. queue \in Seq(Message)
      BY DEF Parts, ClientTypeOK
    <3>2. queue' = Append(queue, m) /\ online' = TRUE
      BY <1>1, <1>7, <2>1
    <3> QED
      BY <2>3, <3>1, <3>2
  <2>5. ClientTypeOK'
    BY <1>1, <2>3, <2>4 DEF Parts, ClientTypeOK
  <2>6. PICK y : Leads(start, queue, y)
    BY DEF Leads
  <2>7. PICK z : z = after(m, y)
    OBVIOUS
  <2>8. PICK p : p = queue \o <<m>>
    OBVIOUS
  <2>9. Leads(start, p, z) /\ (Fit(start, queue) /\ fits(m, y) => Fit(start, p))
    BY <2>3, <2>4, <2>6, <2>7, <2>8, FinalOfOneMore
  <2>10. Leads(start, queue, z)'
    BY <1>3, <2>4, <2>8, <2>9 DEF Leads
  <2>11. z.view = room'
    <3>1. z.view = shows(m, y.view)
      BY <2>7 DEF after
    <3> QED
      BY <2>3, <3>1, ShowsByType
  <2>12. ShowsTheRoom(z.view)'
    <3>1. Settled(z.view)' /\ z.view.phase = phase' /\ z.view.turn = turn'
      BY <1>1, <1>2, <2>11, LobbySettles
    <3> QED
      BY <3>1 DEF ShowsTheRoom
  <2>13. EndShown'
    BY <1>1, <1>2, <1>7, <2>10, <2>12 DEF EndShown
  <2>14. ~online
    BY <1>2, <1>7 DEF Parts, EndShown
  <2>15. drops = 0 => NothingLost'
    <3> HAVE drops = 0
    <3>1. /\ NothingLost /\ queue = <<>> /\ \A s \in Others : card_nodes[s] = 0
      BY <2>14 DEF Parts, NothingLost
    <3>2. y.seats = Thinkers
      BY <2>6, <3>1 DEF NothingLost, Leads
    <3>3. ~votes(m)
      <4>1. m.room.phase = phase'
        BY <2>3 DEF room
      <4> QED
        BY <1>1, <1>2, <4>1 DEF votes
    <3>4. fits(m, y)
      BY <2>3, <3>3 DEF fits
    <3>5. z.seats = Thinkers'
      <4>1. z.seats = thinks(m, y.seats)
        BY <2>7 DEF after
      <4> QED
        BY <1>3, <2>3, <3>2, <3>3, <4>1, ThinksByType
    <3>6. Fit(start, queue)'
      BY <1>3, <2>4, <2>8, <2>9, <3>1, <3>4 DEF NothingLost, Fit
    <3>7. WelcomeFirst'
      <4>1. queue' = <<m>>
        BY <2>4, <3>1
      <4>2. \A i \in DOMAIN queue' : i = 1 /\ queue'[i] = m
        BY <4>1
      <4>3. ~tooMany(m.room.card_count)'
        <5>1. \A s \in Seat : m.room.card_count[s] = Len(cards'[s]) /\ Len(cards'[s]) \in Nat
          BY <2>3 DEF room, CardIInv, CardsInOrder, CardTypeOK
        <5> QED
          BY <1>1, <3>1, <5>1 DEF tooMany, Others
      <4> QED
        BY <4>2, <4>3 DEF WelcomeFirst
    <3> QED
      BY <2>4, <2>10, <3>5, <3>6, <3>7 DEF NothingLost
  <2>16. drops = 0 /\ ~tardy => WaitsEnd'
    <3>1. AnswerDue' => AnswerDue
      BY <1>1, <2>3, <2>4 DEF AnswerDue
    <3> QED
      BY <1>1, <3>1 DEF Parts, WaitsEnd
  <2> QED
    BY <1>1, <1>3, <2>5, <2>13, <2>15, <2>16 DEF Parts
<1> QED
  BY <1>6, <1>7

-----------------------------------------------------------------------------
(* The cards of this person *)

\* Whatever card is taken out of it, and however often it is there, what is left of a
\* sequence of cards is one.
LEMMA EraseKeepsCards ==
  ASSUME NEW M, NEW hand \in Seq(M), NEW card
  PROVE  erase(hand, card) \in Seq(M)
<1> DEFINE n       == Len(hand)
           kept    == {i \in DOMAIN hand : hand[i] # card}
           upto(i) == {j \in kept : j =< i}
           nth(k)  == CHOOSE i \in kept : Cardinality(upto(i)) = k
           S       == {m \in 0 .. n : \A k \in 1 .. Cardinality(upto(m)) :
                                        \E i \in kept : Cardinality(upto(i)) = k}
<1>1. n \in Nat /\ DOMAIN hand = 1 .. n
  BY LenProperties
<1>2. kept \subseteq 1 .. n
  BY <1>1
<1>3. \A i : IsFiniteSet(upto(i)) /\ Cardinality(upto(i)) \in Nat
  <2> TAKE i
  <2>1. IsFiniteSet(1 .. n)
    BY <1>1, FS_Interval
  <2>2. upto(i) \in SUBSET (1 .. n)
    BY <1>2
  <2> HIDE DEF upto, n
  <2> QED
    BY <2>1, <2>2, FS_Subset, FS_CardinalityType
<1>4. 0 \in S
  <2>1. upto(0) = {}
    BY <1>2
  <2>2. Cardinality(upto(0)) = 0
    BY <2>1, FS_EmptySet
  <2> HIDE DEF upto, kept, n
  <2> QED
    BY <1>1, <2>2
<1>5. ASSUME NEW m \in 0 .. n - 1, m \in S
      PROVE  m + 1 \in S
  <2>1. m + 1 \in 0 .. n
    BY <1>1
  <2>2. CASE m + 1 \notin kept
    <3>1. upto(m + 1) = upto(m)
      BY <1>1, <1>2, <2>2
    <3> HIDE DEF upto, kept, n
    <3> QED
      BY <1>5, <2>1, <3>1
  <2>3. CASE m + 1 \in kept
    <3>1. upto(m + 1) = upto(m) \cup {m + 1} /\ m + 1 \notin upto(m)
      BY <1>1, <1>2, <2>3
    <3> HIDE DEF upto, kept, n
    <3>2. Cardinality(upto(m + 1)) = Cardinality(upto(m)) + 1
      BY <1>3, <3>1, FS_AddElement
    <3>3. ASSUME NEW k \in 1 .. Cardinality(upto(m + 1))
          PROVE  \E i \in kept : Cardinality(upto(i)) = k
      <4>1. k \in 1 .. Cardinality(upto(m)) \/ k = Cardinality(upto(m + 1))
        BY <1>3, <3>2
      <4> QED
        BY <1>5, <2>3, <4>1
    <3> QED
      BY <2>1, <3>3
  <2> QED
    BY <2>2, <2>3
<1>6. \A m \in 0 .. n : m \in S
  <2> HIDE DEF S, n
  <2> QED
    BY <1>1, <1>4, <1>5, UpTo
<1>7. upto(n) = kept
  BY <1>1, <1>2
<1>8. ASSUME NEW k \in 1 .. Cardinality(kept)
      PROVE  nth(k) \in kept
  <2>1. n \in S
    <3>1. n \in 0 .. n
      BY <1>1
    <3> HIDE DEF S, n
    <3> QED
      BY <1>6, <3>1
  <2>2. \E i \in kept : Cardinality(upto(i)) = k
    <3> HIDE DEF upto, kept, n
    <3> QED
      BY <1>7, <2>1
  <2> HIDE DEF upto, kept
  <2> QED
    BY <2>2
<1>9. \A k \in 1 .. Cardinality(kept) : hand[nth(k)] \in M
  <2> HIDE DEF nth
  <2> QED
    BY <1>1, <1>2, <1>8
<1>10. Cardinality(kept) \in Nat
  <2> HIDE DEF upto, kept
  <2> QED
    BY <1>3, <1>7
<1> DEFINE rest == [k \in 1 .. Cardinality(kept) |-> hand[nth(k)]]
<1>11. rest \in [1 .. Cardinality(kept) -> M]
  <2> HIDE DEF nth, kept
  <2> QED
    BY <1>9
<1>12. erase(hand, card) = rest
  BY DEF erase
<1> HIDE DEF rest, kept
<1> QED
  BY <1>10, <1>11, <1>12, SeqDef

\* What this person can press stays cards (keeps).
LEMMA KeepsMine ==
  ASSUME NEW m \in Message, NEW view, NEW was \in [nodes : Seq(AnyCard), top : AnyCard]
  PROVE  keeps(m, view, was) \in [nodes : Seq(AnyCard), top : AnyCard]
<1>1. was.nodes \in Seq(AnyCard) /\ was.top \in AnyCard
  OBVIOUS
<1>2. CASE m.type \in {"welcome", "deal"}
  <2>1. m.hand \in Seq(Card) /\ m.top \in AnyCard
    BY <1>2, MessagesByType
  <2>2. m.hand \in Seq(AnyCard) /\ Len(m.hand) \in Nat
    BY <2>1 DEF AnyCard
  <2>3. SubSeq(was.nodes, Len(m.hand) + 1, Len(was.nodes)) \in Seq(AnyCard)
    <3>1. Len(was.nodes) \in Nat /\ \A i \in 1 .. Len(was.nodes) : was.nodes[i] \in AnyCard
      BY <1>1
    <3>2. \A i \in Len(m.hand) + 1 .. Len(was.nodes) : was.nodes[i] \in AnyCard
      BY <2>2, <3>1
    <3>3. Len(m.hand) + 1 \in Int /\ Len(was.nodes) \in Int
      BY <2>2, <3>1
    <3> QED
      BY <3>2, <3>3, SubSeqProperties
  <2>4. deals(m, was).nodes \in Seq(AnyCard)
    BY <2>2, <2>3, ConcatProperties DEF deals
  <2>5. deals(m, was) \in [nodes : Seq(AnyCard), top : AnyCard]
    BY <2>1, <2>4 DEF deals
  <2> QED
    BY <1>2, <2>5 DEF keeps
<1>3. CASE m.type = "order"
  <2>1. [was EXCEPT !.nodes = Append(@, was.top)] \in [nodes : Seq(AnyCard), top : AnyCard]
    BY <1>1
  <2> QED
    BY <1>3, <2>1 DEF keeps
<1>4. CASE m.type \in {"play_card", "last_card"}
  <2>1. hide(was.nodes, m.card) \in Seq(AnyCard)
    BY <1>1, EraseKeepsCards DEF hide
  <2>2. [was EXCEPT !.nodes = hide(@, m.card)] \in [nodes : Seq(AnyCard), top : AnyCard]
    BY <2>1
  <2> QED
    BY <1>4, <2>2 DEF keeps
<1>5. CASE m.type \notin {"welcome", "deal", "order", "play_card", "last_card"}
  BY <1>5 DEF keeps
<1> QED
  BY <1>2, <1>3, <1>4, <1>5

-----------------------------------------------------------------------------
(* The client goes on *)

\* An animation ends.
LEMMA ResumeKeepsParts ==
  ASSUME Parts, Resume
  PROVE  Parts'
<1>1. /\ UNCHANGED vars
      /\ running > 0 /\ ~hung /\ running' = running - 1 /\ cooling_down' = FALSE
      /\ tardy' = (tardy \/ (running = 1 /\ AnswerDue))
      /\ UNCHANGED <<state, card_nodes, mine, queue, thinking, hung, online, outbox, drops, refused>>
  BY DEF Resume
<1>2. ClientTypeOK'
  <2>1. running' \in Nat
    BY <1>1 DEF Parts, ClientTypeOK
  <2>2. tardy' \in BOOLEAN /\ cooling_down' \in BOOLEAN
    BY <1>1, Zenon
  <2> QED
    BY <1>1, <2>1, <2>2, Zenon DEF Parts, ClientTypeOK
<1>3. seated' = seated /\ phase' = phase /\ turn' = turn
  BY <1>1 DEF vars, people
<1>4. EndShown'
  BY <1>1, <1>3, RoomIsLeft DEF Parts, EndShown, ShowsTheRoom, CardIsAsked, start, Leads
<1>5. drops = 0 => NothingLost'
  BY <1>1, <1>3, RoomIsLeft DEF Parts, NothingLost, WelcomeFirst, tooMany, Fit, Leads, start
<1>6. drops = 0 /\ ~tardy' => WaitsEnd'
  <2>1. AnswerDue' <=> AnswerDue
    BY <1>1 DEF AnswerDue
  <2>2. ~tardy' => ~tardy /\ ~(running = 1 /\ AnswerDue)
    BY <1>1, Zenon
  <2>3. running \in Nat
    BY DEF Parts, ClientTypeOK
  <2> QED
    BY <1>1, <2>1, <2>2, <2>3 DEF Parts, WaitsEnd
<1> QED
  BY <1>1, <1>2, <1>4, <1>5, <1>6, RoomIsLeft DEF Parts

\* The first message m of q is applied where x is shown, which leaves r and shows v.
Applied(m, q, r, x, v) == q # <<>> /\ m = Head(q) /\ r = Tail(q) /\ v = after(m, x)

\* Applying the first message leaves what is shown in the end, and who waits.
LEMMA FinalOfTail ==
  ASSUME NEW M, NEW q \in Seq(M), NEW m, NEW r, NEW x, NEW v, Applied(m, q, r, x, v),
         NEW y, Leads(x, q, y)
  PROVE  /\ r \in Seq(M) /\ m \in M /\ Leads(v, r, y)
         /\ Fit(x, q) => fits(m, x) /\ Fit(v, r)
<1>1. /\ Len(q) \in Nat \ {0} /\ r \in Seq(M) /\ Len(r) = Len(q) - 1 /\ m \in M /\ m = q[1]
      /\ \A k \in 1 .. Len(r) : r[k] = q[k + 1]
      /\ DOMAIN q = 1 .. Len(q) /\ DOMAIN r = 1 .. Len(r)
  BY DEF Applied
<1>2. PICK f : f = showing(x, q)
  OBVIOUS
<1>3. PICK g : g = showing(v, r)
  OBVIOUS
<1>4. \A k \in 0 .. Len(q) - 1 : g[k] = f[k + 1]
  BY <1>2, <1>3, ShownTail DEF Applied
<1>5. f[0] = x
  BY <1>2, ShownSteps
<1>6. Leads(v, r, y)
  <2>1. Len(r) \in 0 .. Len(q) - 1 /\ Len(r) + 1 = Len(q)
    BY <1>1
  <2>2. g[Len(r)] = f[Len(q)]
    BY <1>4, <2>1
  <2> QED
    BY <1>2, <1>3, <2>2 DEF Leads, final
<1>7. ASSUME Fit(x, q)
      PROVE  fits(m, x) /\ Fit(v, r)
  <2>1. \A k \in 1 .. Len(q) : fits(q[k], f[k - 1])
    BY <1>1, <1>2, <1>7 DEF Fit
  <2>2. 1 \in 1 .. Len(q) /\ 1 - 1 = 0
    BY <1>1
  <2>3. fits(m, x)
    BY <1>1, <1>5, <2>1, <2>2
  <2>4. ASSUME NEW k \in 1 .. Len(r)
        PROVE  fits(r[k], g[k - 1])
    <3>1. k + 1 \in 1 .. Len(q) /\ k - 1 \in 0 .. Len(q) - 1 /\ k + 1 - 1 = k /\ k - 1 + 1 = k
      BY <1>1
    <3>2. fits(q[k + 1], f[k])
      BY <2>1, <3>1
    <3>3. r[k] = q[k + 1] /\ g[k - 1] = f[k]
      BY <1>1, <1>4, <3>1
    <3> QED
      BY <3>2, <3>3
  <2> QED
    BY <1>1, <1>3, <2>3, <2>4 DEF Fit
<1> QED
  BY <1>1, <1>6, <1>7

\* What each message does besides (the handlers of its signal).
LEMMA AppliesByType ==
  ASSUME apply_queued_action, NEW m, m = Head(queue)
  PROVE  /\ m.type = "welcome"   => onWelcome(m)
         /\ m.type = "update"    => onUpdate(m)
         /\ m.type = "deal"      => onDeal
         /\ m.type = "order"     => onOrder
         /\ m.type = "discarded" => onDiscarded
         /\ m.type = "play_card" => onPlayCard(m)
         /\ m.type = "last_card" => onLastCard(m)
         /\ m.type = "win_trick" => onWinTrick
         /\ m.type = "win_hand"  => onWinHand
<1> USE DEF apply_queued_action
<1>1. CASE m.type = "welcome"
  BY <1>1
<1>2. CASE m.type = "update"
  BY <1>2
<1>3. CASE m.type = "deal"
  BY <1>3
<1>4. CASE m.type = "order"
  BY <1>4
<1>5. CASE m.type = "discarded"
  BY <1>5
<1>6. CASE m.type = "play_card"
  BY <1>6
<1>7. CASE m.type = "last_card"
  BY <1>7
<1>8. CASE m.type = "win_trick"
  BY <1>8
<1>9. CASE m.type = "win_hand"
  BY <1>9
<1> QED
  BY <1>1, <1>2, <1>3, <1>4, <1>5, <1>6, <1>7, <1>8, <1>9

\* A message that fits leaves the client waiting for an animation, if it waits, and
\* able to go on.
LEMMA AppliedWaits ==
  ASSUME ClientTypeOK, apply_queued_action, NEW m \in Message, m = Head(queue)
  PROVE  /\ card_nodes' \in [Others -> Int] /\ running' \in Nat
         /\ hung' \in BOOLEAN /\ cooling_down' \in BOOLEAN
         /\ (m.type = "welcome" => ~tooMany(m.room.card_count)) => ~hung'
         /\ \/ running' > 0
            \/ running' = running /\ (cooling_down' => cooling_down)
            \/ m.type = "update" /\ votes(m) /\ m.room.turn \in thinking
            \/ m.type = "discarded" /\ state.dealer = Me /\ running' = running
<1>1. running \in Nat /\ card_nodes \in [Others -> Int] /\ ~hung
  BY Zenon DEF ClientTypeOK, apply_queued_action
<1>2. hung \in BOOLEAN /\ cooling_down \in BOOLEAN
  BY DEF ClientTypeOK
<1>3. \A count \in [Seat -> Int] : atLeast(count) => card_nodes' \in [Others -> Int]
  BY <1>1 DEF atLeast, Others
<1>4. \A s \in Others : /\ bump(card_nodes, s, 1) \in [Others -> Int]
                        /\ less(card_nodes, s) \in [Others -> Int]
  BY <1>1 DEF bump, less
<1>5. \A s : /\ startsThinking(s) => running' \in Nat
             /\ startsThinking(s) => running' > 0 \/ s \in thinking
  BY <1>1 DEF startsThinking, animates
<1>6. /\ animates(1) => running' \in Nat /\ running' > 0
      /\ waits => cooling_down' \in BOOLEAN
  <2>1. animates(1) => running' \in Nat /\ running' > 0
    BY <1>1 DEF animates
  <2>2. waits => cooling_down' \in BOOLEAN
    BY Zenon DEF waits
  <2> QED
    BY <2>1, <2>2
<1>7. state.dealer \in Seat
  BY DEF ClientTypeOK, View
<1>8. CASE m.type = "welcome"
  <2>1. onWelcome(m) /\ m.room \in View
    BY <1>8, AppliesByType, MessagesByType
  <2>2. card_nodes' \in [Others -> Int]
    BY <1>3, <2>1 DEF onWelcome, View
  <2>3. hung' = tooMany(m.room.card_count) /\ cooling_down' = cooling_down
    BY <2>1, Zenon DEF onWelcome
  <2>4. hung' \in BOOLEAN
    BY <2>3, Zenon DEF tooMany
  <2>5. running' \in Nat /\ (running' > 0 \/ running' = running)
    BY <1>1, <2>1 DEF onWelcome, startsThinking, animates
  <2> QED
    BY <1>2, <1>8, <2>2, <2>3, <2>4, <2>5, Zenon
<1>9. CASE m.type = "update"
  <2>1. onUpdate(m)
    BY <1>9, AppliesByType
  <2>2. CASE votes(m)
    <3>1. waits /\ startsThinking(m.room.turn) /\ card_nodes' = card_nodes /\ hung' = hung
      BY <2>1, <2>2, Zenon DEF onUpdate
    <3>2. running' > 0 \/ m.room.turn \in thinking
      BY <1>5, <3>1
    <3>3. running' \in Nat /\ cooling_down' \in BOOLEAN /\ card_nodes' \in [Others -> Int]
      BY <1>1, <1>5, <1>6, <3>1
    <3> QED
      BY <1>1, <1>2, <1>9, <2>2, <3>1, <3>2, <3>3, Zenon
  <2>3. CASE ~votes(m)
    <3>1. card_nodes' = card_nodes /\ hung' = hung /\ cooling_down' = cooling_down /\ running' = running
      BY <2>1, <2>3, Zenon DEF onUpdate
    <3> QED
      BY <1>1, <1>2, <3>1, Zenon
  <2> QED
    BY <2>2, <2>3
<1>10. CASE m.type = "deal"
  <2>1. onDeal
    BY <1>10, AppliesByType
  <2>2. card_nodes' \in [Others -> Int]
    BY <1>3, <2>1, GameAssumption DEF onDeal
  <2>3. waits /\ animates(1) /\ hung' = hung
    BY <2>1, Zenon DEF onDeal
  <2> QED
    BY <1>1, <1>2, <1>6, <2>2, <2>3, Zenon
<1>11. CASE m.type = "order"
  <2>1. onOrder
    BY <1>11, AppliesByType
  <2>2. card_nodes' \in [Others -> Int]
    BY <1>1, <1>4, <1>7, <2>1 DEF onOrder, Others
  <2>3. cooling_down' = cooling_down /\ running' = running /\ hung' = hung
    BY <2>1, Zenon DEF onOrder
  <2> QED
    BY <1>1, <1>2, <2>2, <2>3, Zenon
<1>12. CASE m.type = "discarded"
  <2>1. onDiscarded
    BY <1>12, AppliesByType
  <2>2. card_nodes' \in [Others -> Int]
    BY <1>1, <1>4, <1>7, <2>1 DEF onDiscarded, Others
  <2>3. waits /\ hung' = hung /\ (animates(1) \/ (state.dealer = Me /\ running' = running))
    BY <2>1, Zenon DEF onDiscarded
  <2> QED
    BY <1>1, <1>2, <1>6, <1>12, <2>2, <2>3, Zenon
<1>13. CASE m.type = "play_card"
  <2>1. onPlayCard(m) /\ m.id \in Seat
    BY <1>13, AppliesByType, MessagesByType
  <2>2. card_nodes' \in [Others -> Int]
    BY <1>1, <1>4, <2>1 DEF onPlayCard, Others
  <2>3. waits /\ animates(1) /\ hung' = hung
    BY <2>1, Zenon DEF onPlayCard
  <2> QED
    BY <1>1, <1>2, <1>6, <2>2, <2>3, Zenon
<1>14. CASE m.type = "last_card"
  <2>1. onLastCard(m)
    BY <1>14, AppliesByType
  <2>2. card_nodes' \in [Others -> Int]
    BY <1>1, <1>4, <2>1 DEF onLastCard
  <2>3. waits /\ animates(1) /\ hung' = hung
    BY <2>1, Zenon DEF onLastCard
  <2> QED
    BY <1>1, <1>2, <1>6, <2>2, <2>3, Zenon
<1>15. CASE m.type = "win_trick"
  <2>1. waits /\ animates(1) /\ hung' = hung /\ card_nodes' = card_nodes
    BY <1>15, AppliesByType, Zenon DEF onWinTrick
  <2> QED
    BY <1>1, <1>2, <1>6, <2>1, Zenon
<1>16. CASE m.type = "win_hand"
  <2>1. /\ hung' = hung /\ card_nodes' = card_nodes /\ cooling_down' = cooling_down
        /\ running' = running
    BY <1>16, AppliesByType, Zenon DEF onWinHand
  <2> QED
    BY <1>1, <1>2, <2>1, Zenon
<1> QED
  BY <1>8, <1>9, <1>10, <1>11, <1>12, <1>13, <1>14, <1>15, <1>16, MessagesByType

\* A message is applied.
LEMMA ApplyKeepsParts ==
  ASSUME Parts, apply_queued_action
  PROVE  Parts'
<1>1. PICK m : m = Head(queue)
  OBVIOUS
<1>2. /\ UNCHANGED vars
      /\ queue # <<>> /\ ~cooling_down /\ ~hung /\ queue' = Tail(queue)
      /\ state' = shows(m, state) /\ thinking' = thinks(m, thinking)
      /\ mine' = keeps(m, state, mine)
      /\ UNCHANGED <<online, outbox, drops, tardy, refused>>
  BY <1>1, Zenon DEF apply_queued_action
<1>3. seated' = seated /\ phase' = phase /\ turn' = turn
  BY <1>2 DEF vars, people
<1>4. /\ start' = after(m, start) /\ start.view = state /\ start.seats = thinking
  BY <1>2 DEF start, after
<1>5. PICK y : Leads(start, queue, y)
  BY DEF Leads
<1>6. queue \in Seq(Message) /\ state \in View /\ ClientTypeOK
  BY DEF Parts, ClientTypeOK
<1>7. PICK r : r = Tail(queue)
  OBVIOUS
<1>8. PICK v : v = after(m, start)
  OBVIOUS
<1>9. /\ r \in Seq(Message) /\ m \in Message /\ Leads(v, r, y)
      /\ Fit(start, queue) => fits(m, start) /\ Fit(v, r)
  <2>1. Applied(m, queue, r, start, v)
    BY <1>1, <1>2, <1>7, <1>8 DEF Applied
  <2> QED
    BY <1>5, <1>6, <2>1, FinalOfTail
<1>10. queue' = r /\ start' = v
  BY <1>2, <1>4, <1>7, <1>8
<1>11. /\ card_nodes' \in [Others -> Int] /\ running' \in Nat
       /\ hung' \in BOOLEAN /\ cooling_down' \in BOOLEAN
       /\ (m.type = "welcome" => ~tooMany(m.room.card_count)) => ~hung'
       /\ \/ running' > 0
          \/ running' = running /\ (cooling_down' => cooling_down)
          \/ m.type = "update" /\ votes(m) /\ m.room.turn \in thinking
          \/ m.type = "discarded" /\ state.dealer = Me /\ running' = running
  BY <1>1, <1>6, <1>9, AppliedWaits
<1>12. ClientTypeOK'
  <2>1. state' \in View
    BY <1>2, <1>6, <1>9, ShowsView
  <2>2. mine' \in [nodes : Seq(AnyCard), top : AnyCard]
    BY <1>2, <1>6, <1>9, KeepsMine DEF ClientTypeOK
  <2> QED
    BY <1>2, <1>9, <1>10, <1>11, <2>1, <2>2 DEF Parts, ClientTypeOK
<1>13. Leads(start, queue, y)' /\ (Fit(start, queue) => Fit(start, queue)')
  BY <1>9, <1>10 DEF Leads, Fit
<1>14. EndShown'
  <2>1. \A z : Leads(start, queue, z) => z = y
    BY <1>5 DEF Leads
  <2>2. online => seated > Me /\ ShowsTheRoom(y.view)
    BY <2>1 DEF Parts, EndShown
  <2>3. ShowsTheRoom(y.view)' <=> ShowsTheRoom(y.view)
    BY <1>2, <1>3, RoomIsLeft DEF ShowsTheRoom, CardIsAsked
  <2> QED
    BY <1>2, <1>3, <1>13, <2>2, <2>3 DEF EndShown
<1>15. /\ 1 \in DOMAIN queue /\ queue[1] = m
       /\ \A i \in DOMAIN queue' : i + 1 \in DOMAIN queue /\ queue'[i] = queue[i + 1] /\ i + 1 # 1
  BY <1>1, <1>2, <1>6
<1>16. drops = 0 => NothingLost'
  <2> HAVE drops = 0
  <2>1. NothingLost
    BY DEF Parts
  <2>2. online'
    BY <1>2, <2>1 DEF NothingLost
  <2>3. \E z : Leads(start, queue, z)' /\ z.seats = Thinkers'
    <3>1. y.seats = Thinkers
      BY <1>5, <2>1 DEF NothingLost, Leads
    <3> QED
      BY <1>2, <1>13, <3>1, RoomIsLeft
  <2>4. WelcomeFirst'
    BY <1>15, <2>1 DEF NothingLost, WelcomeFirst
  <2> QED
    BY <1>13, <2>1, <2>2, <2>3, <2>4 DEF NothingLost
<1>17. drops = 0 /\ ~tardy => WaitsEnd'
  <2> HAVE drops = 0 /\ ~tardy
  <2>1. NothingLost /\ WaitsEnd
    BY DEF Parts
  <2>2. fits(m, start)
    BY <1>9, <2>1 DEF NothingLost
  <2>3. m.type = "welcome" => ~tooMany(m.room.card_count)
    BY <1>15, <2>1 DEF NothingLost, WelcomeFirst
  <2>4. AnswerDue' => AnswerDue
    BY <1>2, <1>15 DEF AnswerDue
  <2>5. ~(votes(m) /\ m.room.turn \in thinking)
    BY <1>4, <2>2 DEF fits
  <2>6. m.type = "discarded" /\ state.dealer = Me => AnswerDue
    BY <1>4, <1>15, <2>2 DEF fits, AnswerDue
  <2> QED
    BY <1>2, <1>11, <2>1, <2>3, <2>4, <2>5, <2>6 DEF WaitsEnd
<1> QED
  BY <1>2, <1>12, <1>14, <1>16, <1>17, RoomIsLeft DEF Parts

-----------------------------------------------------------------------------
(* A card is pressed *)

\* The card that req plays or discards may be pressed where the view is shown, ...
Pressable(view, req) ==
  \/ req = "discard" /\ view.phase = "DISCARDING" /\ view.dealer = Me
  \/ req = "play_card" /\ view.phase = "PLAYING" /\ view.turn = Me

\* ... and is shown as pressed in w.
Pressed(v, w, req) ==
  /\ Pressable(v, req)
  /\ w.phase = "PLAYING" /\ w.turn = IF req = "play_card" THEN Me + 1 ELSE v.turn

\* Two views that show the same cards, tricks and score, ...
SameTable(v, w) ==
  /\ w.dealer = v.dealer /\ w.trump = v.trump /\ w.scores = v.scores /\ w.tricks = v.tricks
  /\ w.sitting_out = v.sitting_out /\ w.trick = v.trick /\ w.card_count = v.card_count
  /\ w.phase = "VOTE_ROUND1" <=> v.phase = "VOTE_ROUND1"

\* ... and the second of which shows the same turn, or a card pressed in the first.
Alike(v, w, req) ==
  /\ SameTable(v, w)
  /\ (w.phase = v.phase /\ w.turn = v.turn) \/ Pressed(v, w, req)

\* Views that are alike stay so after any message.
LEMMA ShowsAlike ==
  ASSUME NEW m \in Message, NEW v \in View, NEW w \in View, NEW req, Alike(v, w, req),
         NEW v2, v2 = shows(m, v), NEW w2, w2 = shows(m, w)
  PROVE  Alike(v2, w2, req)
<1>1. CASE m.type = "welcome"
  <2>1. v2 = m.room /\ w2 = m.room
    BY <1>1, ShowsByType
  <2> QED
    BY <2>1 DEF Alike, SameTable
<1>2. CASE m.type = "update"
  <2>1. /\ v2.phase = m.room.phase /\ v2.dealer = m.room.dealer /\ v2.turn = m.room.turn
        /\ v2.trump = m.room.trump /\ v2.scores = m.room.scores
        /\ v2.tricks = v.tricks /\ v2.sitting_out = v.sitting_out
        /\ v2.trick = v.trick /\ v2.card_count = v.card_count
    BY <1>2, FieldsAfter
  <2>2. /\ w2.phase = m.room.phase /\ w2.dealer = m.room.dealer /\ w2.turn = m.room.turn
        /\ w2.trump = m.room.trump /\ w2.scores = m.room.scores
        /\ w2.tricks = w.tricks /\ w2.sitting_out = w.sitting_out
        /\ w2.trick = w.trick /\ w2.card_count = w.card_count
    BY <1>2, FieldsAfter
  <2> HIDE DEF shows
  <2> QED
    BY <2>1, <2>2 DEF Alike, SameTable
<1>3. CASE m.type \in {"deal", "order", "discarded", "play_card", "last_card", "win_trick", "win_hand"}
  <2>1. /\ v2.phase = v.phase /\ v2.dealer = v.dealer /\ v2.turn = v.turn
        /\ v2.trump = v.trump /\ v2.scores = v.scores
    BY <1>3, FieldsAfter
  <2>2. /\ w2.phase = w.phase /\ w2.dealer = w.dealer /\ w2.turn = w.turn
        /\ w2.trump = w.trump /\ w2.scores = w.scores
    BY <1>3, FieldsAfter
  <2>3. /\ w2.tricks = v2.tricks /\ w2.sitting_out = v2.sitting_out
        /\ w2.trick = v2.trick /\ w2.card_count = v2.card_count
    <3>1. /\ w.tricks = v.tricks /\ w.sitting_out = v.sitting_out /\ w.trick = v.trick
          /\ w.card_count = v.card_count /\ w.dealer = v.dealer
          /\ w.phase = "VOTE_ROUND1" <=> v.phase = "VOTE_ROUND1"
      BY DEF Alike, SameTable
    <3>2. CASE m.type = "deal"
      BY <3>1, <3>2, FieldsAfter
    <3>3. CASE m.type = "order"
      <4>1. /\ v2.tricks = v.tricks /\ v2.trick = v.trick
            /\ v2.sitting_out = v.sitting_out \cup IF m.alone THEN {Partner(m.id)} ELSE {}
            /\ v2.card_count = IF v.phase = "VOTE_ROUND1" /\ v.dealer # Me
                               THEN bump(v.card_count, v.dealer, 1) ELSE v.card_count
        BY <3>3, FieldsAfter
      <4>2. /\ w2.tricks = w.tricks /\ w2.trick = w.trick
            /\ w2.sitting_out = w.sitting_out \cup IF m.alone THEN {Partner(m.id)} ELSE {}
            /\ w2.card_count = IF w.phase = "VOTE_ROUND1" /\ w.dealer # Me
                               THEN bump(w.card_count, w.dealer, 1) ELSE w.card_count
        BY <3>3, FieldsAfter
      <4> QED
        BY <3>1, <4>1, <4>2
    <3>4. CASE m.type = "discarded"
      <4>1. /\ v2.tricks = v.tricks /\ v2.sitting_out = v.sitting_out /\ v2.trick = v.trick
            /\ v2.card_count = IF v.dealer = Me THEN v.card_count
                               ELSE bump(v.card_count, m.id, -1)
        BY <3>4, FieldsAfter
      <4>2. /\ w2.tricks = w.tricks /\ w2.sitting_out = w.sitting_out /\ w2.trick = w.trick
            /\ w2.card_count = IF w.dealer = Me THEN w.card_count
                               ELSE bump(w.card_count, m.id, -1)
        BY <3>4, FieldsAfter
      <4> QED
        BY <3>1, <4>1, <4>2
    <3>5. CASE m.type = "play_card"
      <4>1. /\ v2.tricks = v.tricks /\ v2.sitting_out = v.sitting_out
            /\ v2.trick = Append(v.trick, m.id) /\ v2.card_count = bump(v.card_count, m.id, -1)
        BY <3>5, FieldsAfter
      <4>2. /\ w2.tricks = w.tricks /\ w2.sitting_out = w.sitting_out
            /\ w2.trick = Append(w.trick, m.id) /\ w2.card_count = bump(w.card_count, m.id, -1)
        BY <3>5, FieldsAfter
      <4> QED
        BY <3>1, <4>1, <4>2
    <3>6. CASE m.type = "last_card"
      <4>1. /\ v2.tricks = v.tricks /\ v2.sitting_out = v.sitting_out
            /\ v2.trick = m.ids /\ v2.card_count = v.card_count
        BY <3>6, FieldsAfter
      <4>2. /\ w2.tricks = w.tricks /\ w2.sitting_out = w.sitting_out
            /\ w2.trick = m.ids /\ w2.card_count = w.card_count
        BY <3>6, FieldsAfter
      <4> QED
        BY <3>1, <4>1, <4>2
    <3>7. CASE m.type = "win_trick"
      <4>1. /\ v2.tricks = bump(v.tricks, m.id, 1) /\ v2.sitting_out = v.sitting_out
            /\ v2.trick = <<>> /\ v2.card_count = v.card_count
        BY <3>7, FieldsAfter
      <4>2. /\ w2.tricks = bump(w.tricks, m.id, 1) /\ w2.sitting_out = w.sitting_out
            /\ w2.trick = <<>> /\ w2.card_count = w.card_count
        BY <3>7, FieldsAfter
      <4> QED
        BY <3>1, <4>1, <4>2
    <3>8. CASE m.type = "win_hand"
      <4>1. /\ v2.tricks = Nobody /\ v2.sitting_out = {}
            /\ v2.trick = v.trick /\ v2.card_count = v.card_count
        BY <3>8, FieldsAfter
      <4>2. /\ w2.tricks = Nobody /\ w2.sitting_out = {}
            /\ w2.trick = w.trick /\ w2.card_count = w.card_count
        BY <3>8, FieldsAfter
      <4> QED
        BY <3>1, <4>1, <4>2
    <3> QED
      BY <1>3, <3>2, <3>3, <3>4, <3>5, <3>6, <3>7, <3>8
  <2>4. SameTable(v2, w2)
    BY <2>1, <2>2, <2>3 DEF Alike, SameTable
  <2>5. (w2.phase = v2.phase /\ w2.turn = v2.turn) \/ Pressed(v2, w2, req)
    <3>1. Pressed(v, w, req) => Pressed(v2, w2, req)
      BY <2>1, <2>2 DEF Pressed, Pressable
    <3> QED
      BY <2>1, <2>2, <3>1 DEF Alike
  <2> QED
    BY <2>4, <2>5 DEF Alike
<1> QED
  BY <1>1, <1>2, <1>3, MessagesByType

\* So what is shown in the end is alike, and the messages fit as they did.
LEMMA FinalAlike ==
  ASSUME NEW q \in Seq(Message), NEW x, NEW z, x.view \in View, z.view \in View, NEW req,
         Alike(x.view, z.view, req), z.seats = x.seats,
         NEW y, NEW u, Leads(x, q, y), Leads(z, q, u)
  PROVE  /\ Alike(y.view, u.view, req) /\ u.seats = y.seats
         /\ Fit(x, q) => Fit(z, q)
<1>1. PICK f : f = showing(x, q)
  OBVIOUS
<1>2. PICK g : g = showing(z, q)
  OBVIOUS
<1>3. f[0] = x /\ \A k \in 1 .. Len(q) : f[k] = after(q[k], f[k - 1])
  BY <1>1, ShownSteps
<1>4. g[0] = z /\ \A k \in 1 .. Len(q) : g[k] = after(q[k], g[k - 1])
  BY <1>2, ShownSteps
<1>5. \A k \in 0 .. Len(q) : f[k].view \in View /\ g[k].view \in View
  BY <1>1, <1>2, ShownViews
<1>6. Len(q) \in Nat /\ DOMAIN q = 1 .. Len(q) /\ \A k \in 1 .. Len(q) : q[k] \in Message
  OBVIOUS
<1> DEFINE S == {k \in 0 .. Len(q) : Alike(f[k].view, g[k].view, req) /\ g[k].seats = f[k].seats}
<1>7. 0 \in S
  BY <1>3, <1>4, <1>6
<1>8. ASSUME NEW k \in 0 .. Len(q) - 1, k \in S
      PROVE  k + 1 \in S
  <2>1. k + 1 \in 1 .. Len(q) /\ k + 1 - 1 = k /\ k + 1 \in 0 .. Len(q) /\ k \in 0 .. Len(q)
    BY <1>6
  <2>2. PICK m \in Message : m = q[k + 1]
    BY <1>6, <2>1
  <2>3. f[k + 1] = after(m, f[k]) /\ g[k + 1] = after(m, g[k])
    BY <1>3, <1>4, <2>1, <2>2
  <2>4. /\ f[k + 1].view = shows(m, f[k].view) /\ f[k + 1].seats = thinks(m, f[k].seats)
        /\ g[k + 1].view = shows(m, g[k].view) /\ g[k + 1].seats = thinks(m, g[k].seats)
    BY <2>3 DEF after
  <2>5. f[k].view \in View /\ g[k].view \in View /\ Alike(f[k].view, g[k].view, req)
        /\ g[k].seats = f[k].seats
    BY <1>5, <1>8, <2>1
  <2>6. Alike(f[k + 1].view, g[k + 1].view, req)
    <3>1. PICK v \in View : v = f[k].view
      BY <2>5
    <3>2. PICK w \in View : w = g[k].view
      BY <2>5
    <3>3. PICK v2 : v2 = shows(m, v)
      OBVIOUS
    <3>4. PICK w2 : w2 = shows(m, w)
      OBVIOUS
    <3>5. Alike(v2, w2, req)
      BY <2>5, <3>1, <3>2, <3>3, <3>4, ShowsAlike
    <3> QED
      BY <2>4, <3>1, <3>2, <3>3, <3>4, <3>5
  <2> QED
    BY <2>1, <2>4, <2>5, <2>6
<1>9. \A k \in 0 .. Len(q) : k \in S
  <2> HIDE DEF S
  <2> QED
    BY <1>6, <1>7, <1>8, UpTo
<1>10. Alike(y.view, u.view, req) /\ u.seats = y.seats
  <2>1. y = f[Len(q)] /\ u = g[Len(q)] /\ Len(q) \in 0 .. Len(q)
    BY <1>1, <1>2, <1>6 DEF Leads, final
  <2> QED
    BY <1>9, <2>1
<1>11. ASSUME Fit(x, q)
       PROVE  Fit(z, q)
  <2> SUFFICES ASSUME NEW k \in 1 .. Len(q)
               PROVE  fits(q[k], g[k - 1])
    BY <1>2, <1>6 DEF Fit
  <2>1. k - 1 \in 0 .. Len(q)
    BY <1>6
  <2>2. fits(q[k], f[k - 1])
    BY <1>1, <1>6, <1>11 DEF Fit
  <2>3. g[k - 1].view.dealer = f[k - 1].view.dealer /\ g[k - 1].seats = f[k - 1].seats
    BY <1>9, <2>1 DEF Alike, SameTable
  <2> QED
    BY <2>2, <2>3 DEF fits
<1> QED
  BY <1>10, <1>11

\* What a press changes at once.
LEMMA PressShows ==
  ASSUME ClientTypeOK, Press
  PROVE  \E req \in {"discard", "play_card", "premove"}, card \in AnyCard :
           /\ state' \in View /\ Alike(state, state', req)
           /\ mine' \in [nodes : Seq(AnyCard), top : AnyCard]
           /\ outbox' = IF online THEN Append(outbox, [type |-> req, card |-> card]) ELSE outbox
           /\ running' \in Nat /\ running' >= running
           /\ req = "discard" => running' > 0
<1>1. /\ state \in View /\ running \in Nat /\ Me \in Seat
      /\ mine \in [nodes : Seq(AnyCard), top : AnyCard]
  BY ClientAssumption DEF ClientTypeOK
<1>2. PICK i \in DOMAIN mine.nodes :
        /\ PressDiscard(i) \/ PressCard(i) \/ PressPremove(i)
        /\ outbox' = IF online THEN Append(outbox, request(i)) ELSE outbox
  BY Zenon DEF Press
<1>3. PICK card \in AnyCard : card = mine.nodes[i]
  BY <1>1
<1>4. PICK req : req = asks(i)
  OBVIOUS
<1>5. outbox' = IF online THEN Append(outbox, [type |-> req, card |-> card]) ELSE outbox
  BY <1>2, <1>3, <1>4 DEF request
<1>6. CASE PressDiscard(i)
  <2>1. /\ req = "discard" /\ state' = [state EXCEPT !.phase = "PLAYING"]
        /\ mine' = [mine EXCEPT !.nodes = hide(@, mine.nodes[i])] /\ running' = running + 1
    BY <1>4, <1>6 DEF PressDiscard, animates
  <2>2. state.phase = "DISCARDING" /\ state.dealer = Me
    <3>1. asks(i) = "discard"
      BY <1>4, <2>1
    <3>2. CASE state.phase = "DISCARDING"
      BY <3>1, <3>2 DEF asks
    <3>3. CASE state.phase = "PLAYING"
      BY <3>1, <3>3 DEF asks
    <3>4. CASE state.phase \notin {"DISCARDING", "PLAYING"}
      BY <3>1, <3>4 DEF asks
    <3> QED
      BY <3>2, <3>3, <3>4
  <2>3. state' \in View
    BY <1>1, <2>1 DEF View, Phase
  <2>4. /\ state'.phase = "PLAYING" /\ state'.dealer = state.dealer /\ state'.turn = state.turn
        /\ state'.trump = state.trump /\ state'.scores = state.scores /\ state'.tricks = state.tricks
        /\ state'.sitting_out = state.sitting_out /\ state'.trick = state.trick
        /\ state'.card_count = state.card_count
    BY <1>1, <2>1 DEF View
  <2>5. Alike(state, state', "discard")
    BY <2>2, <2>4 DEF Alike, SameTable, Pressed, Pressable
  <2>6. hide(mine.nodes, mine.nodes[i]) \in Seq(AnyCard)
    BY <1>1, EraseKeepsCards DEF hide
  <2>7. mine' \in [nodes : Seq(AnyCard), top : AnyCard]
    BY <1>1, <2>1, <2>6
  <2>8. running' \in Nat /\ running' >= running /\ running' > 0
    BY <1>1, <2>1
  <2> QED
    BY <1>5, <2>1, <2>3, <2>5, <2>7, <2>8, Zenon
<1>7. CASE PressCard(i)
  <2>1. /\ req = "play_card" /\ state' = [state EXCEPT !.turn = @ + 1]
        /\ mine' = mine /\ running' = running
    BY <1>4, <1>7 DEF PressCard
  <2>2. state.phase = "PLAYING" /\ state.turn = Me
    <3>1. asks(i) = "play_card"
      BY <1>4, <2>1
    <3>2. CASE state.phase = "DISCARDING"
      BY <3>1, <3>2 DEF asks
    <3>3. CASE state.phase = "PLAYING"
      BY <3>1, <3>3 DEF asks
    <3>4. CASE state.phase \notin {"DISCARDING", "PLAYING"}
      BY <3>1, <3>4 DEF asks
    <3> QED
      BY <3>2, <3>3, <3>4
  <2>3. state' \in View
    <3>1. PICK n \in Int : n = state.turn + 1
      BY <1>1 DEF View
    <3>2. state' = [state EXCEPT !.turn = n]
      BY <2>1, <3>1
    <3>3. [state EXCEPT !.turn = n] \in View
      BY <1>1 DEF View
    <3> QED
      BY <3>2, <3>3
  <2>4. /\ state'.phase = state.phase /\ state'.dealer = state.dealer /\ state'.turn = Me + 1
        /\ state'.trump = state.trump /\ state'.scores = state.scores /\ state'.tricks = state.tricks
        /\ state'.sitting_out = state.sitting_out /\ state'.trick = state.trick
        /\ state'.card_count = state.card_count
    BY <1>1, <2>1, <2>2 DEF View
  <2>5. Alike(state, state', "play_card")
    BY <2>2, <2>4 DEF Alike, SameTable, Pressed, Pressable
  <2> QED
    BY <1>1, <1>5, <2>1, <2>3, <2>5
<1>8. CASE PressPremove(i)
  <2>1. req = "premove" /\ state' = state /\ mine' = mine /\ running' = running
    BY <1>4, <1>8 DEF PressPremove
  <2>2. Alike(state, state', "premove")
    BY <2>1 DEF Alike, SameTable
  <2> QED
    BY <1>1, <1>5, <2>1, <2>2
<1> QED
  BY <1>2, <1>6, <1>7, <1>8

\* A card pressed changes nothing but what the answer of the room will change.
LEMMA PressKeepsParts ==
  ASSUME IInv, Parts, Press
  PROVE  Parts'
<1>1. PICK req \in {"discard", "play_card", "premove"}, card \in AnyCard :
        /\ state' \in View /\ Alike(state, state', req)
        /\ mine' \in [nodes : Seq(AnyCard), top : AnyCard]
        /\ outbox' = IF online THEN Append(outbox, [type |-> req, card |-> card]) ELSE outbox
        /\ running' \in Nat /\ running' >= running
        /\ req = "discard" => running' > 0
  BY PressShows DEF Parts
<1>2. /\ UNCHANGED vars /\ ~hung
      /\ UNCHANGED <<card_nodes, queue, cooling_down, thinking, hung, online, drops, tardy, refused>>
  BY Zenon DEF Press
<1>3. seated' = seated /\ phase' = phase /\ turn' = turn
  BY <1>2 DEF vars, people
<1>4. /\ state \in View /\ queue \in Seq(Message) /\ running \in Nat
      /\ outbox \in Seq([type : {"discard", "play_card", "premove"}, card : AnyCard])
  BY DEF Parts, ClientTypeOK
<1>5. /\ outbox' \in Seq([type : {"discard", "play_card", "premove"}, card : AnyCard])
      /\ \A i \in DOMAIN outbox : i \in DOMAIN outbox' /\ outbox'[i] = outbox[i]
      /\ \A i \in DOMAIN outbox' : i \in DOMAIN outbox \/ outbox'[i].type = req
      /\ online => \E i \in DOMAIN outbox' : outbox'[i].type = req
  <2>1. CASE ~online
    BY <1>1, <1>4, <2>1
  <2>2. CASE online
    <3>1. PICK asked \in [type : {"discard", "play_card", "premove"}, card : AnyCard] :
            asked = [type |-> req, card |-> card]
      BY <1>1
    <3>2. outbox' = Append(outbox, asked) /\ asked.type = req
      BY <1>1, <2>2, <3>1
    <3>3. Len(outbox) + 1 \in DOMAIN outbox' /\ outbox'[Len(outbox) + 1] = asked
      BY <1>4, <3>2
    <3> QED
      BY <1>4, <3>1, <3>2, <3>3
  <2> QED
    BY <2>1, <2>2
<1>6. ClientTypeOK'
  BY <1>1, <1>2, <1>4, <1>5 DEF Parts, ClientTypeOK
<1>7. PICK x : x = start
  OBVIOUS
<1>8. PICK z : z = start'
  OBVIOUS
<1>9. /\ x.view = state /\ x.seats = thinking /\ z.view = state' /\ z.seats = thinking'
  BY <1>7, <1>8 DEF start
<1>10. PICK y : Leads(x, queue, y)
  BY DEF Leads
<1>11. PICK u : Leads(z, queue, u)
  BY DEF Leads
<1>12. x.view \in View /\ z.view \in View /\ Alike(x.view, z.view, req) /\ z.seats = x.seats
  BY <1>1, <1>2, <1>4, <1>9
<1>13. /\ Alike(y.view, u.view, req) /\ u.seats = y.seats
       /\ Fit(x, queue) => Fit(z, queue)
  BY <1>4, <1>10, <1>11, <1>12, FinalAlike
<1>14. Leads(start, queue, u)'
  BY <1>2, <1>8, <1>11 DEF Leads
<1>15. \A w : Leads(start, queue, w) => w = y
  BY <1>7, <1>10 DEF Leads
<1>16. online => EndShown'
  <2> HAVE online
  <2>1. seated > Me /\ ShowsTheRoom(y.view)
    BY <1>15 DEF Parts, EndShown
  <2>2. Settled(u.view)
    <3>1. Shows(y.view)
      BY <2>1, SettledShows DEF ShowsTheRoom
    <3>2. SameTable(y.view, u.view)
      BY <1>13 DEF Alike
    <3>3. Shows(u.view)
      BY <3>1, <3>2 DEF Shows, SameTable, CountsAgree
    <3> QED
      BY <3>3, SettledShows
  <2>3. Settled(u.view)'
    BY <1>2, <2>2, RoomIsLeft
  <2>4. CardIsAsked => CardIsAsked'
    BY <1>5 DEF CardIsAsked
  <2>5. ShowsTheRoom(u.view)'
    <3>1. CASE u.view.phase = y.view.phase /\ u.view.turn = y.view.turn
      <4>1. AheadOfRoom(y.view) => AheadOfRoom(u.view)'
        BY <1>2, <3>1, RoomIsLeft DEF AheadOfRoom
      <4> QED
        BY <1>2, <1>3, <2>1, <2>3, <2>4, <3>1, <4>1 DEF ShowsTheRoom
    <3>2. CASE Pressed(y.view, u.view, req)
      <4>1. AheadOfRoom(u.view)
        <5>1. CASE y.view.phase = phase /\ y.view.turn = turn
          <6>1. y.view.dealer = dealer
            BY <2>1, SettledShows DEF ShowsTheRoom, Shows
          <6> QED
            BY <3>2, <5>1, <6>1 DEF Pressed, Pressable, AheadOfRoom, IInv, TurnHoldsToken
        <5>2. CASE AheadOfRoom(y.view)
          BY <3>2, <5>2 DEF Pressed, Pressable, AheadOfRoom
        <5> QED
          BY <2>1, <5>1, <5>2 DEF ShowsTheRoom
      <4>2. AheadOfRoom(u.view)'
        BY <1>2, <4>1, RoomIsLeft
      <4>3. CardIsAsked'
        <5>1. req # "premove"
          BY <3>2 DEF Pressed, Pressable
        <5> QED
          BY <1>5, <5>1 DEF CardIsAsked
      <4> QED
        BY <2>3, <4>2, <4>3 DEF ShowsTheRoom
    <3> QED
      BY <1>13, <3>1, <3>2 DEF Alike
  <2> QED
    BY <1>2, <1>3, <1>14, <2>1, <2>5 DEF EndShown
<1>17. EndShown'
  BY <1>2, <1>16 DEF EndShown
<1>18. drops = 0 => NothingLost'
  <2> HAVE drops = 0
  <2>1. NothingLost
    BY DEF Parts
  <2>2. u.seats = Thinkers'
    BY <1>2, <1>13, <1>15, <2>1, RoomIsLeft DEF NothingLost
  <2>3. Fit(start, queue)'
    BY <1>2, <1>7, <1>8, <1>13, <2>1 DEF NothingLost, Fit
  <2>4. WelcomeFirst'
    BY <1>2, <2>1 DEF NothingLost, WelcomeFirst, tooMany
  <2>5. (seated' > Me => online') /\ (~online' => queue' = <<>> /\ \A s \in Others : card_nodes'[s] = 0)
    BY <1>2, <1>3, <2>1 DEF NothingLost
  <2> QED
    BY <1>14, <2>2, <2>3, <2>4, <2>5 DEF NothingLost
<1>19. drops = 0 /\ ~tardy => WaitsEnd'
  <2> HAVE drops = 0 /\ ~tardy
  <2>1. WaitsEnd
    BY DEF Parts
  <2>2. AnswerDue' => AnswerDue \/ req = "discard"
    BY <1>2, <1>5 DEF AnswerDue
  <2> QED
    BY <1>1, <1>2, <1>4, <2>1, <2>2 DEF WaitsEnd
<1> QED
  BY <1>2, <1>6, <1>17, <1>18, <1>19, RoomIsLeft DEF Parts

-----------------------------------------------------------------------------
(* The theorems *)

\* Nothing is shown wrong before anybody is there.
LEMMA InitParts == ClientInit => Parts
<1> SUFFICES ASSUME ClientInit
             PROVE  Parts
  OBVIOUS
<1>1. /\ Init /\ state = room /\ card_nodes = [s \in Others |-> 0] /\ queue = <<>> /\ running = 0
      /\ mine = [nodes |-> <<>>, top |-> NoCard]
      /\ thinking = {} /\ outbox = <<>> /\ drops = 0
  BY DEF ClientInit
<1>2. cooling_down = FALSE /\ hung = FALSE /\ online = FALSE /\ tardy = FALSE /\ refused = FALSE
  BY Zenon DEF ClientInit
<1>3. phase = "LOBBY" /\ seated = 0 /\ humans = 0 /\ ~(seated > Me)
  BY <1>1, ClientAssumption DEF Init, Seat
<1>4. state \in View
  <2>1. IInv /\ CardIInv
    BY <1>1, InitIInv, InitCardIInv
  <2> QED
    BY <1>1, <2>1, RoomIsView DEF CardIInv, CardsInOrder
<1>5. ClientTypeOK
  <2>1. /\ card_nodes \in [Others -> Int] /\ running \in Nat /\ drops \in Nat
        /\ outbox \in Seq([type : {"discard", "play_card", "premove"}, card : AnyCard])
        /\ queue \in Seq(Message) /\ mine \in [nodes : Seq(AnyCard), top : AnyCard]
    BY <1>1 DEF AnyCard
  <2>2. cooling_down \in BOOLEAN /\ hung \in BOOLEAN /\ online \in BOOLEAN /\ tardy \in BOOLEAN
        /\ refused \in BOOLEAN
    BY <1>2, Zenon
  <2> QED
    BY <1>4, <2>1, <2>2 DEF ClientTypeOK
<1>6. Leads(start, queue, start) /\ Fit(start, queue)
  BY <1>1, FinalOfFew DEF Leads
<1>7. start.seats = Thinkers
  BY <1>1, <1>3, Phases DEF start, Thinkers
<1>8. NothingLost
  <2>1. \A s \in Others : card_nodes[s] = 0
    BY <1>1
  <2>2. WelcomeFirst
    BY <1>1 DEF WelcomeFirst
  <2> QED
    BY <1>1, <1>3, <1>6, <1>7, <2>1, <2>2 DEF NothingLost
<1>9. WaitsEnd
  <2>1. ~AnswerDue
    BY <1>1 DEF AnswerDue
  <2> QED
    BY <1>2, <2>1, Zenon DEF WaitsEnd
<1>10. EndShown
  BY <1>2, Zenon DEF EndShown
<1> QED
  BY <1>3, <1>5, <1>8, <1>9, <1>10 DEF Parts, GamesSeatMe

\* Whatever client and room do, the parts hold on.
LEMMA NextKeepsParts ==
  IInv /\ IInv' /\ CardIInv /\ CardIInv' /\ Parts /\ [ClientNext]_<<vars, client>> => Parts'
<1> SUFFICES ASSUME IInv, IInv', CardIInv, CardIInv', Parts, [ClientNext]_<<vars, client>>
             PROVE  Parts'
  OBVIOUS
<1>1. CASE RoomSteps
  BY <1>1, RoomStepsKeepParts
<1>2. CASE RoomRefuses
  BY <1>2, RefusalKeepsParts
<1>3. CASE Joins
  BY <1>3, JoinKeepsParts
<1>4. CASE Drops
  BY <1>4, DropKeepsParts
<1>5. CASE Reconnects
  BY <1>5, ReconnectKeepsParts
<1>6. CASE apply_queued_action
  BY <1>6, ApplyKeepsParts
<1>7. CASE Resume
  BY <1>7, ResumeKeepsParts
<1>8. CASE Press
  BY <1>8, PressKeepsParts
<1>9. CASE UNCHANGED <<vars, client>>
  <2>1. /\ UNCHANGED vars
        /\ UNCHANGED <<state, card_nodes, mine, queue, cooling_down, running, thinking, hung, online,
                       outbox, drops, tardy, refused>>
    BY <1>9 DEF client
  <2>2. seated' = seated /\ phase' = phase /\ turn' = turn
    BY <2>1 DEF vars, people
  <2>3. ClientTypeOK'
    BY <2>1 DEF Parts, ClientTypeOK
  <2>4. EndShown'
    BY <2>1, <2>2, RoomIsLeft DEF Parts, EndShown, ShowsTheRoom, CardIsAsked, start, Leads
  <2>5. drops = 0 => NothingLost'
    BY <2>1, <2>2, RoomIsLeft DEF Parts, NothingLost, WelcomeFirst, tooMany, Fit, Leads, start
  <2>6. drops = 0 /\ ~tardy => WaitsEnd'
    BY <2>1 DEF Parts, WaitsEnd, AnswerDue
  <2> QED
    BY <2>1, <2>3, <2>4, <2>5, <2>6, RoomIsLeft DEF Parts
<1> QED
  BY <1>1, <1>2, <1>3, <1>4, <1>5, <1>6, <1>7, <1>8, <1>9 DEF ClientNext

\* A step of the client's model is a step of the room's, or leaves the room alone.
LEMMA RoomStepsAreNext == [ClientNext]_<<vars, client>> => [Next]_vars
<1>1. RoomSteps => Next
  <2>1. ASSUME NEW s, Requests(s)
        PROVE  \/ Order(s) \/ Pass(s) \/ Discard(s) \/ PlayCard(s)
               \/ Premove(s) \/ UndoPremove(s) \/ LayDown(s)
    BY <2>1, Zenon DEF Requests
  <2>2. ASSUME NEW req, handles(req)
        PROVE  Discard(Me) \/ PlayCard(Me) \/ Premove(Me)
    BY <2>2, Zenon DEF handles
  <2> QED
    BY <2>1, <2>2, Zenon DEF RoomSteps, Next, TurnMove, OtherRequest
<1>2. Joins => Next
  BY Zenon DEF Joins, Next
<1>3. RoomRefuses \/ Drops \/ Reconnects \/ apply_queued_action \/ Resume \/ Press => UNCHANGED vars
  <2>1. RoomRefuses => UNCHANGED vars
    BY DEF RoomRefuses
  <2>2. Drops => UNCHANGED vars
    BY DEF Drops
  <2>3. Reconnects => UNCHANGED vars
    BY DEF Reconnects
  <2>4. apply_queued_action => UNCHANGED vars
    BY Zenon DEF apply_queued_action
  <2>5. Resume => UNCHANGED vars
    BY Zenon DEF Resume
  <2>6. Press => UNCHANGED vars
    BY DEF Press
  <2> QED
    BY <2>1, <2>2, <2>3, <2>4, <2>5, <2>6
<1>4. UNCHANGED <<vars, client>> => UNCHANGED vars
  OBVIOUS
<1> QED
  BY <1>1, <1>2, <1>3, <1>4 DEF ClientNext

\* What a client sees is a room as it is specified, with no shutdown in between: the
\* requests that reach the room and its welcomes (client.gd, card.gd) allow nothing more.
THEOREM ClientsWatchARoom == ClientSpec => Spec
<1>1. ClientInit => Init
  BY DEF ClientInit
<1> QED
  BY <1>1, RoomStepsAreNext, PTL DEF ClientSpec, Spec

\* The messages on their way lead from what is shown to the room as it is, over any
\* number of messages behind, requests sent and connections lost (client.gd, char.gd).
THEOREM ClientsAreInOrder == ClientSpec /\ [][CleanLayDown]_vars => []ClientIInv
<1>1. Parts /\ [ClientNext]_<<vars, client>> /\ IInv /\ IInv' /\ CardIInv /\ CardIInv' => Parts'
  BY NextKeepsParts
<1>2. ClientSpec /\ [][CleanLayDown]_vars => []IInv /\ []CardIInv
  BY ClientsWatchARoom, ControlIsInOrder, CardsStayInOrder, PTL
<1>3. ClientSpec /\ [][CleanLayDown]_vars => []Parts
  BY <1>1, <1>2, InitParts, PTL DEF ClientSpec
<1>4. Parts => ClientIInv
  BY IInvParts
<1> QED
  BY <1>3, <1>4, PTL

\* A client that has applied what it received shows the room as it is.
THEOREM ClientsShowTheRoom == ClientSpec /\ [][CleanLayDown]_vars => []ViewAgrees
<1>1. ClientIInv => ViewAgrees
  <2> SUFFICES ASSUME Parts, online, queue = <<>>, outbox = <<>>
               PROVE  /\ \A field \in DOMAIN room \ {"phase", "turn", "card_count"} :
                           state[field] = room[field]
                      /\ phase \notin Waiting => CountsAgree(state)
                      /\ \/ state.phase = phase /\ state.turn = turn
                         \/ AheadOfRoom(state) /\ refused
    BY IInvParts DEF ViewAgrees, Quiet
  <2>1. PICK y : Leads(start, queue, y) /\ ShowsTheRoom(y.view)
    BY DEF Parts, EndShown
  <2>2. y.view = state
    <3>1. PICK x : x = start
      OBVIOUS
    <3>2. final(x, <<>>) = x
      BY FinalOfFew
    <3>3. y = x
      BY <2>1, <3>1, <3>2 DEF Leads
    <3> QED
      BY <3>1, <3>3 DEF start
  <2>3. ~CardIsAsked
    BY DEF CardIsAsked
  <2> QED
    BY <2>1, <2>2, <2>3 DEF ShowsTheRoom, Settled
<1> QED
  BY <1>1, ClientsAreInOrder, PTL

\* A client that never lost its connection goes on showing the room, unless the answer
\* to a discard of its own is late.
THEOREM ClientsGoOn == ClientSpec /\ [][CleanLayDown]_vars => []NeverFreezes
<1>1. ClientIInv => NeverFreezes
  <2> SUFFICES ASSUME Parts, Frozen, ~tardy
               PROVE  drops > 0
    BY IInvParts, Zenon DEF NeverFreezes
  <2>1. drops \in Nat /\ running \in Nat
    BY DEF Parts, ClientTypeOK
  <2>2. ~WaitsEnd
    BY <2>1 DEF WaitsEnd, Frozen
  <2>3. drops # 0
    BY <2>2 DEF Parts
  <2> QED
    BY <2>1, <2>3
<1> QED
  BY <1>1, ClientsAreInOrder, PTL

=============================================================================
