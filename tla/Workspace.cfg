SPECIFICATION Spec

CONSTANTS
  Users = {c1, c2}
  c1 = c1
  c2 = c2
  SchemaVersions = {1, 2}
  Fields = {"f", "g"}
  FirstFields = {"f", "g"}
  DraftFields = {{"g"}}
  Directions = {"asc", "desc"}
  Tables = {1, 2}
  Ids = {x, y}
  x = x
  y = y
  IndexIds = {x, y, z}
  z = z
  Names = {1, 2}
  Entries <- MCEntries
  TagLists <- MCTagLists
  FirstRevisions = {1, 2}
  Lower <- MCLower
  SeededTables = {1}
  FirstVersion = 1
  MaxIndexes = 1
  MaxListed = 2
  MaxRequests = 3
  MaxFailures = 1
  Readers = {r1}
  r1 = r1
  RecordIds = {1, 2, 3}
  FieldValues = {1, 2}
  InitialViews <- MCInitialViews
  LaterViews <- MCLaterViews
  Forbidden = {"secret"}
  PageSize = 1
  MaxRows = 2
  MaxWrites = 1
  MaxUpdates = 1
  MaxSwitches = 1
  Props = {"a", "b"}
  Digits = {0, 1}
  MaxDigits = 3
  MaxExponent = 2
  DocKeys = {1, 2}
  DocNumbers <- MCDocNumbers
  MaxMembers = 2
  Versions = {1, 2}
  Contents <- MCContents
  Candidates <- MCCandidates
  Callers = {c1, c2}
  Keys = {x, y}
  Seeded = {1}
  MaxRevision = 4
  MaxPlans = 2
  MaxCalls = 4
  MaxFaults = 1
  Workflows = {c1, c2}
  SnapshotRequests <- MCSnapshotRequests
  SourceRecords <- MCSourceRecords
  MaxSnapshotCalls = 3
  MaxRecordChanges = 2
  MaxInsertFaults = 1
  Principals <- MCPrincipals
  MaxOpen = 2
  MaxStoreRestarts = 1
  MaxAppendFaults = 1

SYMMETRY Symmetry
CHECK_DEADLOCK FALSE

INVARIANTS
  OneWinner
  DefinitionsAreSound
  DictionaryTrail
  TagsFollowDictionaries
  SteadyRecordsReadOnce
  DeliveredIsAudited
  EachChangeHasOneReceipt
  PlansMatchPublished
  HashIdentifiesContent
  CompatibleIsSafe
  OneSnapshotPerOperation
  ThreePeople
  AuditTellsChanges
