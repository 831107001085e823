\* One person lets go of the socket they were redirected on after the next one is open.
CONSTANTS
  a = a
  b = b
  Room = {a, b}
  Session = {s1}
  generateCode <- Codes
  Bots = Bots
  NoSeed = NoSeed
  MAX_PLAYERS = 2
  EVICTION_LIMIT = 1
  EVICT_AFTER = 0
  MaxTime = 0
  Conn = {c1, c2, c3}
  NoConn = NoConn
  NoSession = NoSession
SPECIFICATION ServerSpec
INVARIANT OneSocketPerSession
