SPECIFICATION RegistrySpec

CONSTANTS
  Props = {"a", "b"}
  Digits = {0}
  MaxDigits = 1
  MaxExponent = 0
  DocKeys = {}
  DocNumbers = {}
  MaxMembers = 0
  Versions = {1, 2}
  Contents <- MCBooleans
  Candidates = {}
  Callers = {c1}
  c1 = c1
  Keys = {x, y}
  x = x
  y = y
  Seeded = {1}
  MaxRevision = 3
  MaxPlans = 1
  MaxCalls = 4
  MaxFaults = 0

CHECK_DEADLOCK FALSE

INVARIANTS
  PlansKeepInstances
