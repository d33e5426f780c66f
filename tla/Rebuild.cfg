SPECIFICATION MCSpec

CONSTANTS
  o1 = o1  o2 = o2
  w1 = w1  w2 = w2
  c1 = c1  c2 = c2
  Ops = {o1, o2}
  Workers = {w1, w2}
  Callers = {c1, c2}
  Keys = {"k1", "k2"}
  LastVersion = 3
  Unmappable = {3}
  ArchiveLimit = 2
  MaxCancels = 2
  MaxRevision = 9
  MaxFaults = 1

CHECK_DEADLOCK FALSE

INVARIANTS
  RestingSwitchCoversCheckpoint
  FailsOnlyForCause
PROPERTIES
  StateMachineFollowed
  CheckpointNeverMovesBack
  RebuildsFinish
