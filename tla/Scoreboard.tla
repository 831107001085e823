----------------------------- MODULE Scoreboard -----------------------------
(***************************************************************************)
(* What somebody who keeps the score at a euchre table sees of a room: the *)
(* deal goes round, a team makes trump, the hand is worth something to one *)
(* team, and the team that reaches the winning score first has won.  Cards,*)
(* tricks, votes, premoves, bots and restarts of the process are not seen. *)
(* GameProperties says which part of Game this is (KeepsScore).            *)
(***************************************************************************)
EXTENDS Integers

CONSTANT WinningScore

VARIABLES
  scores, dealer,
  status,          \* "lobby", "bidding", "playing" or "over"
  makers,          \* the team whose contract is played, or NoTeam
  alone            \* one of them plays it without the other

board == <<scores, dealer, status, makers, alone>>

Team   == 0 .. 1
NoTeam == -1
Nil    == [t \in Team |-> 0]

BoardInit ==
  /\ scores = Nil /\ dealer = 0
  /\ status = "lobby" /\ makers = NoTeam /\ alone = FALSE

\* Between two hands nobody is making trump and the deal passes to the left.
NextDeal ==
  /\ status' = "bidding"
  /\ dealer' = (dealer + 1) % 4
  /\ makers' = NoTeam /\ alone' = FALSE

\* A game, the first or a rematch, starts at nil all.
Starts ==
  /\ status \in {"lobby", "over"}
  /\ scores' = Nil
  /\ NextDeal

MakesTrump(team, lone) ==
  /\ status = "bidding"
  /\ status' = "playing"
  /\ makers' = team /\ alone' = lone
  /\ UNCHANGED <<scores, dealer>>

\* A hand is worth one or two points to its makers, four to a loner, and two to
\* the team that stops them.
Worth(team) ==
  IF team # makers THEN {2} ELSE {1, 2} \cup (IF alone THEN {4} ELSE {})

Scores(team, points) ==
  /\ status = "playing"
  /\ points \in Worth(team)
  /\ scores' = [scores EXCEPT ![team] = @ + points]
  /\ \/ /\ scores[team] + points >= WinningScore
        /\ status' = "over"
        /\ makers' = NoTeam /\ alone' = FALSE
        /\ UNCHANGED dealer
     \/ /\ scores[team] + points < WinningScore
        /\ NextDeal

BoardNext ==
  \/ Starts
  \/ \E team \in Team : \/ \E lone \in BOOLEAN : MakesTrump(team, lone)
                        \/ \E points \in {1, 2, 4} : Scores(team, points)

BoardSpec == BoardInit /\ [][BoardNext]_board
=============================================================================
