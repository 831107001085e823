\* Two people and two bots, as the client of the second person shows them.  Whoever
\* presses a card may renege.
CONSTANTS
  CardsPerHand = 3
  WinningScore = 2
  OrderScore = 20
  AloneScore = 35
  Deals <- OneBauers
  OrderSuits = {2}
  HumanCounts = {2}
  MaxPremoves = 1
  ForeignCards = {}
  MaxTable = 4
  Allowed = {"alone", "premove", "lay_down", "renege"}
  Me = 1
  MaxBehind = 0
  MaxSent = 1
  MaxDrops = 1
SPECIFICATION ClientSpec
CHECK_DEADLOCK FALSE
INVARIANTS
  ClientIInv
  ViewAgrees
  
  NeverFreezes
