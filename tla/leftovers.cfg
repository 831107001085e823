\* Premoves and tricks left behind by hands laid down, and restarts of the process.
CONSTANTS
  CardsPerHand = 3
  WinningScore = 3
  OrderScore = 12
  AloneScore = 21
  Deals <- LayDownDeals
  OrderSuits = {}
  HumanCounts = {2}
  MaxPremoves = 1
  ForeignCards <- OneForeignCard
  MaxTable = 6
  Allowed = {"lay_down", "premove", "signal"}
SPECIFICATION Spec
CHECK_DEADLOCK FALSE
INVARIANTS
  IInv
PROPERTIES
  KeepsScore
