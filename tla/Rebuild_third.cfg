SPECIFICATION Spec

CONSTANTS
  Ops = {o1, o2, o3}
  o1 = o1
  Workers = {w1}
  w1 = w1
  Callers = {c1}
  c1 = c1
  Keys = {"k1", "k2", "k3"}
  LastVersion = 1
  Unmappable = {}
  ArchiveLimit = 2
  MaxCancels = 0
  MaxRevision = 9
  MaxFaults = 0
  o2 = o2
  o3 = o3

INVARIANTS
  FailsOnlyForCause
CHECK_DEADLOCK FALSE
