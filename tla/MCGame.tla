------------------------------- MODULE MCGame -------------------------------
(***************************************************************************)
(* Instances of Game for TLC: deals chosen by hand.                        *)
(***************************************************************************)
EXTENDS GameProperties

C(rank, suit) == [rank |-> rank, suit |-> suit]
Deal(top, h0, h1, h2, h3) ==
  [top |-> top, hands |-> [s \in Seat |-> CASE s = 0 -> h0 [] s = 1 -> h1
                                            [] s = 2 -> h2 [] s = 3 -> h3]]
D == DIAMONDS
K == CLUBS
S == SPADES
H == HEARTS

\* Three cards each: both red bauers in one hand, a void to ruff from.
SmallDeal == Deal(C(TEN, D),
  <<C(JACK, D), C(JACK, H), C(NINE, K)>>,
  <<C(ACE, D), C(KING, H), C(QUEEN, S)>>,
  <<C(NINE, D), C(ACE, H), C(TEN, S)>>,
  <<C(KING, K), C(QUEEN, K), C(ACE, S)>>)
\* Three cards, all trump with both bauers, for seat 1; the others have little.
LayDownDeal == Deal(C(NINE, H),
  <<C(ACE, D), C(KING, S), C(NINE, D)>>,
  <<C(JACK, H), C(JACK, D), C(ACE, H)>>,
  <<C(TEN, D), C(ACE, K), C(QUEEN, S)>>,
  <<C(TEN, S), C(NINE, K), C(TEN, K)>>)
\* Seat 2 goes alone in hearts and its partner, seat 0, sits out.
LonerDeal == Deal(C(NINE, H),
  <<C(ACE, D), C(KING, S), C(NINE, D)>>,
  <<C(JACK, D), C(QUEEN, S), C(ACE, K)>>,
  <<C(KING, H), C(QUEEN, H), C(TEN, H)>>,
  <<C(TEN, S), C(NINE, K), C(TEN, K)>>)
\* Both red bauers and the ace of hearts for seat 0.
BauersDeal == Deal(C(NINE, H),
  <<C(JACK, H), C(JACK, D), C(ACE, H)>>,
  <<C(ACE, D), C(KING, S), C(NINE, D)>>,
  <<C(TEN, D), C(ACE, K), C(QUEEN, S)>>,
  <<C(TEN, S), C(NINE, K), C(TEN, K)>>)

\* Five cards each.  A hand strong in hearts, an ordinary one, two weak ones.
FullDeal1 == Deal(C(KING, H),
  <<C(ACE, H), C(JACK, D), C(QUEEN, H), C(NINE, S), C(ACE, K)>>,
  <<C(NINE, D), C(TEN, D), C(KING, K), C(QUEEN, S), C(NINE, H)>>,
  <<C(ACE, D), C(KING, D), C(TEN, S), C(JACK, K), C(TEN, H)>>,
  <<C(JACK, S), C(ACE, S), C(KING, S), C(QUEEN, K), C(NINE, K)>>)
\* No bot orders up the ten of spades; in the second round seat 2 names diamonds.
FullDeal2 == Deal(C(TEN, S),
  <<C(JACK, K), C(ACE, D), C(ACE, H), C(KING, S), C(JACK, S)>>,
  <<C(NINE, D), C(TEN, D), C(NINE, H), C(TEN, K), C(ACE, K)>>,
  <<C(JACK, D), C(QUEEN, D), C(TEN, H), C(NINE, K), C(KING, K)>>,
  <<C(KING, D), C(JACK, H), C(QUEEN, H), C(KING, H), C(QUEEN, K)>>)
\* Seat 1 can pick up the nine of diamonds and hold all six diamonds.
FullDeal3 == Deal(C(NINE, D),
  <<C(ACE, H), C(JACK, S), C(QUEEN, H), C(NINE, S), C(ACE, K)>>,
  <<C(TEN, D), C(JACK, D), C(QUEEN, D), C(KING, D), C(ACE, D)>>,
  <<C(JACK, H), C(KING, H), C(TEN, S), C(JACK, K), C(TEN, H)>>,
  <<C(NINE, H), C(ACE, S), C(KING, S), C(QUEEN, K), C(NINE, K)>>)

\* Seats 2 and 0 can lay their hands down; seat 3 scores 19 at most in any suit.
NinesDeal == Deal(C(TEN, H),
  <<C(JACK, S), C(JACK, K), C(ACE, S), C(KING, S), C(QUEEN, S)>>,
  <<C(TEN, K), C(QUEEN, K), C(KING, K), C(ACE, K), C(ACE, D)>>,
  <<C(JACK, H), C(JACK, D), C(ACE, H), C(KING, H), C(QUEEN, H)>>,
  <<C(NINE, D), C(NINE, K), C(NINE, H), C(NINE, S), C(TEN, D)>>)

OneNines     == {NinesDeal}
FullDeals    == {FullDeal1, FullDeal2, FullDeal3}
OneBauers    == {BauersDeal}
OneLayDown   == {LayDownDeal}
LayDownDeals == {LayDownDeal, LonerDeal}
OneForeignCard == {C(KING, D)}

OneDeal == {SmallDeal}
=============================================================================
