\* Two people with three sockets between them, and two rooms.
CONSTANTS
  a = a
  b = b
  Room = {a, b}
  Session = {s1, s2}
  generateCode <- Codes
  Bots = Bots
  NoSeed = NoSeed
  MAX_PLAYERS = 2
  EVICTION_LIMIT = 1
  EVICT_AFTER = 0
  MaxTime = 1
  Conn = {c1, c2, c3}
  NoConn = NoConn
  NoSession = NoSession
SPECIFICATION ServerSpec
SYMMETRY Alike
INVARIANTS
  ServerTypeOK
  NoGhosts
  ServedIsConnected
