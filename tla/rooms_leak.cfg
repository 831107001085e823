\* A room that leaves the queue of evictions for good.
CONSTANTS
  a = a
  b = b
  s1 = s1
  Room = {a, b}
  Session = {s1}
  generateCode <- Codes
  Bots = Bots
  NoSeed = NoSeed
  MAX_PLAYERS = 2
  EVICTION_LIMIT = 1
  EVICT_AFTER = 1
  MaxTime = 3
SPECIFICATION CoordinatorSpec
INVARIANT AbandonedRoomsAreQueued
