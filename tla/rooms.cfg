\* One person, two rooms, every order of requests, evictions, shutdowns and restarts.
CONSTANTS
  a = a
  b = b
  s1 = s1
  Room = {a, b}
  Session = {s1}
  generateCode <- Codes
  Bots = Bots
  NoSeed = NoSeed
  MAX_PLAYERS = 2
  EVICTION_LIMIT = 1
  EVICT_AFTER = 0
  MaxTime = 3
SPECIFICATION CoordinatorFairSpec
INVARIANTS
  QueuedOnce
  QueueInOrder
  AbandonedRoomsAreMarked
PROPERTIES
  EvictedWhenIdle
  EvictionEnds
