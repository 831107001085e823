\* Two premoves in the queue: the second one is played.
CONSTANTS
  CardsPerHand = 3
  WinningScore = 1
  OrderScore = 12
  AloneScore = 21
  Deals <- OneDeal
  OrderSuits = {2}
  HumanCounts = {4}
  MaxPremoves = 2
  ForeignCards = {}
  MaxTable = 4
  Allowed = {"premove"}
SPECIFICATION Spec
CHECK_DEADLOCK FALSE
PROPERTIES
  PremovePlaysChosenCard
