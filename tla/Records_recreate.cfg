SPECIFICATION Spec

CONSTANTS
  Records = {r1}
  r1 = r1
  Clients = {c1}
  c1 = c1
  Writers = {w1, w2}
  w1 = w1
  w2 = w2
  Keys = {k1, k2}
  k1 = k1
  k2 = k2
  HistoryLimit = 2
  SubscriberBuf = 1
  MaxConnections = 2
  MaxPerScope = 1
  Projected = {"e1"}
  MaxEvents = 4
  MaxReconnects = 2
  MaxRestarts = 0
  MaxVersion = 2
  MaxCalls = 3
  MaxFaults = 1
  WellBehaved = FALSE

INVARIANT IdleClientIsCurrent
SYMMETRY Symmetry
CHECK_DEADLOCK FALSE
