\* Hand after hand, every card playable, until a team wins, and the game after it.
CONSTANTS
  CardsPerHand = 3
  WinningScore = 2
  OrderScore = 12
  AloneScore = 21
  Deals <- OneDeal
  OrderSuits = {2, 0}
  HumanCounts = {4}
  MaxPremoves = 0
  ForeignCards = {}
  MaxTable = 4
  Allowed = {"alone", "rematch", "renege"}
SPECIFICATION Spec
INVARIANTS
  TypeOK
  TurnHoldsToken
  SitterIsCallersPartner
  TrickSeats
  TurnCanPlay
  HandSizes
  CardsInOnePlace
  RecordMatchesTable
  TricksAreTallied
  ScoresDecideEnd
PROPERTIES
  TrickGoesToBestCard
  HandScoredByRules
  KeepsScore
