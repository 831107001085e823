\* People queue one card each for their next turn, or take it back.
CONSTANTS
  CardsPerHand = 3
  WinningScore = 2
  OrderScore = 12
  AloneScore = 21
  Deals <- OneDeal
  OrderSuits = {2}
  HumanCounts = {3}
  MaxPremoves = 1
  ForeignCards <- OneForeignCard
  MaxTable = 4
  Allowed = {"alone", "premove"}
SPECIFICATION FairSpec
CHECK_DEADLOCK FALSE
INVARIANTS
  CardIInv
  RecordIInv
  PremovesPlayOut
PROPERTIES
  CardsAreHeld
  TrickGoesToBestCard
  HandScoredByRules
  GameEnds
