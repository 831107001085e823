\* Three cards left on the table by a hand laid down, and a loner in the next one: with
\* three seats playing the trick is never as long as they are many, and never ends.
CONSTANTS
  CardsPerHand = 3
  WinningScore = 3
  OrderScore = 12
  AloneScore = 21
  Deals <- OneLayDown
  OrderSuits = {2}
  HumanCounts = {4}
  MaxPremoves = 0
  ForeignCards = {}
  MaxTable = 12
  Allowed = {"alone", "lay_down"}
SPECIFICATION Spec
CHECK_DEADLOCK FALSE
INVARIANTS
  TurnCanPlay
