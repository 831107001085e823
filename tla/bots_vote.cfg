\* A bot that deals and likes no suit never ends the vote.
CONSTANTS
  CardsPerHand = 5
  WinningScore = 5
  OrderScore = 20
  AloneScore = 35
  Deals <- OneNines
  OrderSuits = {2}
  HumanCounts = {3}
  MaxPremoves = 0
  ForeignCards = {}
  MaxTable = 0
  Allowed = {"lay_down"}
SPECIFICATION FairSpec
CHECK_DEADLOCK FALSE
PROPERTIES
  VotesSettle
