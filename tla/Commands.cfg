SPECIFICATION PartFairSpec

CONSTANTS
  OpIds = {o1, o2}
  o1 = o1
  o2 = o2
  Keys = {"k1"}
  Payloads = {"p1", "p2"}
  Requests = {"first", "rival", "denied"}
  Req <- ReqRival
  Clients = {c1, c2}
  c1 = c1
  c2 = c2
  Owners = {w1, w2}
  w1 = w1
  w2 = w2
  Consumers = {s1, s2}
  s1 = s1
  s2 = s2
  Events = {"owner", "other"}
  ResultMaxDeliver = 3
  MaxCalls = 3
  MaxFaults = 1
  MaxOwnerStops = 1

CHECK_DEADLOCK FALSE

INVARIANTS
  OneReceiptPerKey
  ExecutedAtMostOnce
  ReceiptMatchesOwner
PROPERTIES
  CommandsFinish
  ImplementsCommandReceipt
