CONSTANTS
  w1 = w1  w2 = w2  a1 = a1  h1 = h1  h2 = h2
  Messages = {"v1", "v2", "v3"}
  EventIds = {"e1", "e2", "e3"}
  Aggregates = {a1}
  Hashes = {h1, h2}
  Env <- EnvAll
  Workers = {w1, w2}
  BatchSize = 2
  MaxDeliver = 2
  ServerMaxDeliver = 2
  MaxFaults = 1
SPECIFICATION PartSpec
SYMMETRY Workers2
CHECK_DEADLOCK FALSE
INVARIANTS
  NoSilentLoss
