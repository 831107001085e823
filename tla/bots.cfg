\* One person and three bots with whole hands; the process may be restarted.
CONSTANTS
  CardsPerHand = 5
  WinningScore = 3
  OrderScore = 20
  AloneScore = 35
  Deals <- FullDeals
  OrderSuits = {1, 2}
  HumanCounts = {1}
  MaxPremoves = 0
  ForeignCards = {}
  MaxTable = 4
  Allowed = {"alone", "signal"}
SPECIFICATION Spec
CHECK_DEADLOCK FALSE
INVARIANTS
  CardsInOnePlace
  BotPreconditions
  BotsActLegally
PROPERTIES
  TrickGoesToBestCard
  HandScoredByRules
  BotsRenegeOnBauers
