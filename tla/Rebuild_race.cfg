SPECIFICATION Spec

CONSTANTS
  Ops = {o1}
  o1 = o1
  Workers = {w1}
  w1 = w1
  Callers = {c1}
  c1 = c1
  Keys = {"k1"}
  LastVersion = 2
  Unmappable = {}
  ArchiveLimit = 2
  MaxCancels = 0
  MaxRevision = 9
  MaxFaults = 0

INVARIANTS
  VisibleCoversCheckpoint
CHECK_DEADLOCK FALSE
