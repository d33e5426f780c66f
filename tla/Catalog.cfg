SPECIFICATION Spec

CONSTANTS
  c1 = c1
  c2 = c2
  Callers = {c1, c2}
  Keys = {"k1", "k2"}
  SourceInputs <- MCSources
  MappingInputs <- MCMappings
  Definitions <- MCDefinitions
  Unstorable = {"huge"}
  Events <- MCEvents
  Consumed = {"approver", "fluxion"}
  BuiltIn <- MCBuiltIn
  MaxRuntimeMappings = 2
  MaxCalls = 5
  RuntimeCalls = 2
  MaxFaults = 1
  MaxRestarts = 1
  MaxRebuilds = 1
  AssociationKinds = {"project", "settlement", "tender"}
  Handlers = {h1, h2}
  ApprovalEvents <- MCApprovals
  MaxDeliveries = 5
  MaxWriteFaults = 1

CHECK_DEADLOCK FALSE

INVARIANTS
  PublishedMappingIsSound
  EachRevisionIsRecorded
  EventsAreRouted
  FixtureForetellsMapping
  AssociationKeepsUp
PROPERTIES
  GenerationCatchesUp
  OnlyStaleReadsLose
