-------------------------- MODULE ProjectionCatalog --------------------------
(***************************************************************************)
(* The projection catalog (projection/catalog*.go): sources and mappings    *)
(* that operators register and publish, and the mapping generation a node   *)
(* builds from the published mappings and routes events by.                 *)
(*                                                                          *)
(* A request has passed authentication and the patterns of its fields.  The *)
(* type of an event stands for its type and version; a hash is what it is a *)
(* hash of; a document is what it holds, a value at each of its paths, and  *)
(* a target path is a sequence of segments.  A commit that fails leaves     *)
(* nothing behind.                                                          *)
(***************************************************************************)
EXTENDS Integers, Sequences, FiniteSets, SequencesExt

CONSTANTS
  Callers,            \* requests handled concurrently
  Keys,               \* idempotency keys
  SourceInputs,       \* bodies of POST /sources
  MappingInputs,      \* bodies of POST /mappings
  Definitions,        \* target schema -> [declares, takes]: target paths, and documents
                      \* (values at target paths) that it accepts
  Unstorable,         \* values of JSON that BSON has no form of
  Events,             \* events delivered to the projector
  Consumed,           \* source systems with a durable consumer
  BuiltIn,            \* <<source, type>> of the built-in summary handlers
  MaxRuntimeMappings, \* entries of one generation
  MaxCalls, MaxFaults, MaxRestarts, MaxRebuilds   \* bounds

ASSUME CatalogAssumption ==
  /\ \A i \in SourceInputs : i.mode \in {"metadata", "allowlist"}
  /\ {i.schema : i \in MappingInputs} \subseteq DOMAIN Definitions
  /\ MaxRuntimeMappings \in Nat /\ MaxCalls \in Nat /\ MaxFaults \in Nat
  /\ MaxRestarts \in Nat /\ MaxRebuilds \in Nat

VARIABLES
  sources,    \* registrations by <<tenant, workspace, source>>
  mappings,   \* registrations by <<tenant, workspace, mapping>>
  fixtures,   \* stored fixture documents
  receipts, audit, audited,
  schemas,    \* published target schemas
  call,       \* call[c]: step, request and registration read
  node,       \* "starting" or "up"
  active,     \* the active generation
  refresh, rebuild,   \* the generation each has built and not yet activated
  landed,     \* landed[e]: what became of an event
  calls, faults, restarts, rebuilds

storeVars == <<sources, mappings, fixtures, receipts, audit, audited>>
nodeVars  == <<node, active, refresh, rebuild, restarts, rebuilds>>
vars == <<storeVars, schemas, call, nodeVars, landed, calls, faults>>

-----------------------------------------------------------------------------
(* Registrations.                                                            *)

SourceKey(i)  == <<i.tenant, i.workspace, i.source>>
MappingKey(i) == <<i.tenant, i.workspace, i.mapping>>
SourceKeys  == {SourceKey(i) : i \in SourceInputs \cup MappingInputs}
MappingKeys == {MappingKey(i) : i \in MappingInputs}

Unregistered == [status |-> "NONE", revision |-> 0]
ValidSource(i) == IF i.mode = "metadata" THEN i.allow = {} ELSE i.allow # {}
ValidMapping(i) == DOMAIN i.fields # {}
Registered(i) == [status |-> "DRAFT", revision |-> 1, input |-> i]
Moved(r, status) == [status |-> status, revision |-> r.revision + 1, input |-> r.input]

\* What registering and publishing the input with this key has left, if any has.
SeedOf(key, inputs, KeyOf(_)) ==
  IF \E i \in inputs : KeyOf(i) = key
  THEN Moved(Registered(CHOOSE i \in inputs : KeyOf(i) = key), "PUBLISHED")
  ELSE Unregistered

\* One target path extends another.  Whether the longer finds room depends on
\* the order the paths are written in, for a fixture that of a Go map, and on
\* the value at the shorter: such a field map may refuse any document.
Overlaps(fields) ==
  \E t, u \in DOMAIN fields : IsStrictPrefix(t, u)

TargetFieldsAllowed(i) == DOMAIN i.fields \subseteq Definitions[i.schema].declares

\* What the field map makes of a document that `holds' values at paths.
Finds(i, holds)  == \A t \in DOMAIN i.fields : i.fields[t] \in DOMAIN holds
Mapped(i, holds) == [t \in DOMAIN i.fields |-> holds[i.fields[t]]]

\* The document has the paths that are mapped, and the target schema accepts the
\* values found there: those of this event, or of this fixture.
Maps(i, holds) == Finds(i, holds) /\ Mapped(i, holds) \in Definitions[i.schema].takes

\* Map also encodes an event's values in BSON, which publication does not try.
Encodes(i, holds) == \A t \in DOMAIN i.fields : Mapped(i, holds)[t] \notin Unstorable
MapsEvent(i, e) == Maps(i, e.holds) /\ Encodes(i, e.holds)

\* The workspace rule of source input s, for an event that names a workspace.
ResolvesWorkspace(s, tenant, named) ==
  /\ s.tenant = tenant
  /\ CASE s.mode = "metadata"  -> named = s.workspace
       [] s.mode = "allowlist" -> <<tenant, s.workspace>> \in s.allow

\* The document stored for the fixture of a mapping: its reference is its hash.
Fixture(i) == [tenant |-> i.tenant, workspace |-> i.workspace, document |-> i.fixture]

FixtureFits(i, source) ==
  LET f == i.fixture
  IN  /\ f.source = source.input.source /\ f.type = i.type /\ f.tenant = i.tenant
      /\ ResolvesWorkspace(source.input, f.tenant, f.workspace)
      /\ Maps(i, f.holds)

-----------------------------------------------------------------------------
(* Requests and receipts.                                                    *)

Idle == [step |-> "idle"]
Creates(q) == q.op \in {"source.create", "mapping.create"}
AboutSource(q) == q.op \in {"source.create", "source.published"}
Key(q) == IF AboutSource(q) THEN SourceKey(q.input) ELSE MappingKey(q.input)
Current(q) == IF AboutSource(q) THEN sources[Key(q)] ELSE mappings[Key(q)]

\* A transition names a registration and the revision of an answer the caller
\* was given; its hash covers the id and the revision only.
Hash(q) == IF Creates(q) THEN <<q.input>> ELSE <<Key(q)[3], q.expected>>
Slot(q) == [tenant |-> q.input.tenant, workspace |-> q.input.workspace, op |-> q.op,
            key |-> <<q.key>>]
Receipt(q) == [slot |-> Slot(q), hash |-> Hash(q)]
Held(q) == \E r \in receipts : r.slot = Slot(q)
AuditEntry(q, revision) == [op |-> q.op, id |-> Key(q), revision |-> revision, key |-> q.key]

Request(op, key, i, expected) == [op |-> op, key |-> key, input |-> i, expected |-> expected]
CreateRequests ==
  [op : {"source.create"}, key : Keys, input : {i \in SourceInputs : ValidSource(i)},
   expected : {0}]
  \cup [op : {"mapping.create"}, key : Keys, input : {i \in MappingInputs : ValidMapping(i)},
        expected : {0}]
Transitions(ops, reg) ==
  [op : ops, key : Keys, input : {reg.input}, expected : 1 .. reg.revision]
TransitionRequests ==
  (UNION {Transitions({"source.published"}, sources[s]) :
            s \in {s \in SourceKeys : sources[s] # Unregistered}})
  \cup (UNION {Transitions({"mapping.published", "mapping.revoked"}, mappings[m]) :
                 m \in {m \in MappingKeys : mappings[m] # Unregistered}})

SeedRequests(s, m) ==
  {Request("source.create", "seed", i, 0) : i \in s}
  \cup {Request("source.published", "seed", i, 1) : i \in s}
  \cup {Request("mapping.create", "seed", i, 0) : i \in m}
  \cup {Request("mapping.published", "seed", i, 1) : i \in m}

Pending == [outcome |-> "pending"]
NothingBuilt == {[built |-> FALSE]}
Stopped == {[stopped |-> TRUE]}

\* The sources s and mappings m have been registered and published.
InitFrom(s, m) ==
  /\ sources  = [k \in SourceKeys |-> SeedOf(k, s, SourceKey)]
  /\ mappings = [k \in MappingKeys |-> SeedOf(k, m, MappingKey)]
  /\ fixtures = {Fixture(i) : i \in m}
  /\ receipts = {[slot |-> [Slot(q) EXCEPT !.key = @ \o Key(q)], hash |-> Hash(q)] :
                   q \in SeedRequests(s, m)}
  /\ audit = {AuditEntry(q, q.expected + 1) : q \in SeedRequests(s, m)}
  /\ audited = Cardinality(audit)
  /\ schemas = {i.schema : i \in m}
  /\ call = [c \in Callers |-> Idle]
  /\ node = "starting" /\ active = {} /\ refresh = NothingBuilt /\ rebuild = NothingBuilt
  /\ landed = [e \in Events |-> Pending]
  /\ calls = 0 /\ faults = 0 /\ restarts = 0 /\ rebuilds = 0

-----------------------------------------------------------------------------
(* A request, up to its transaction.                                         *)

At(c, step) == call[c].step = step
Answer(c) == call' = [call EXCEPT ![c] = Idle]
Go(c, step) == call' = [call EXCEPT ![c].step = step]

Begin(c) ==
  /\ At(c, "idle") /\ calls < MaxCalls
  /\ calls' = calls + 1
  /\ \E q \in CreateRequests \cup TransitionRequests :
       call' = [call EXCEPT ![c] =
                  [step |-> IF q.op = "source.create" THEN "lookup" ELSE "find",
                   request |-> q, read |-> Unregistered]]
  /\ UNCHANGED <<storeVars, schemas, nodeVars, landed, faults>>

\* FindSource and the event contract of a new mapping; the registration of a
\* transition.
Find(c) ==
  /\ At(c, "find")
  /\ LET q == call[c].request
         read == IF Creates(q) THEN sources[SourceKey(q.input)] ELSE Current(q)
     IN  IF read = Unregistered \/ (Creates(q) /\ read.input.type # q.input.type)
         THEN Answer(c)
         ELSE call' = [call EXCEPT ![c].step = "lookup", ![c].read = read]
  /\ UNCHANGED <<storeVars, schemas, nodeVars, landed, calls, faults>>

Lookup(c) ==
  /\ At(c, "lookup")
  /\ LET q == call[c].request
     IN  IF Held(q) THEN Answer(c) ELSE Go(c, IF Creates(q) THEN "commit" ELSE "check")
  /\ UNCHANGED <<storeVars, schemas, nodeVars, landed, calls, faults>>

\* Mutant: the fixture is not mapped.
MappingPublishableUnfixed(i) ==
  LET source == sources[SourceKey(i)]
  IN  /\ source.status = "PUBLISHED"
      /\ i.schema \in schemas
      /\ TargetFieldsAllowed(i)
      /\ Fixture(i) \in fixtures

\* Mutant: the source need not be published.
MappingPublishableEarly(i) ==
  LET source == sources[SourceKey(i)]
  IN  /\ source.status # "NONE"
      /\ i.schema \in schemas
      /\ TargetFieldsAllowed(i)
      /\ Fixture(i) \in fixtures /\ FixtureFits(i, source)

\* What publishing a mapping verifies, outside the transaction that does it.
MappingPublishable(i) ==
  LET source == sources[SourceKey(i)]
  IN  /\ source.status = "PUBLISHED"
      /\ i.schema \in schemas
      /\ TargetFieldsAllowed(i)
      /\ Fixture(i) \in fixtures /\ FixtureFits(i, source)

Allowed(q) == IF q.op = "mapping.revoked" THEN "PUBLISHED" ELSE "DRAFT"
Target(q)  == IF q.op = "mapping.revoked" THEN "REVOKED" ELSE "PUBLISHED"

Check(c) ==
  /\ At(c, "check")
  /\ LET q == call[c].request
         good == /\ call[c].read.status = Allowed(q)
                 /\ q.op = "mapping.published" => MappingPublishable(q.input)
     IN  \/ good /\ Go(c, "commit")
         \/ (~good \/ (q.op = "mapping.published" /\ Overlaps(q.input.fields))) /\ Answer(c)
  /\ UNCHANGED <<storeVars, schemas, nodeVars, landed, calls, faults>>

-----------------------------------------------------------------------------
(* Its transaction: the write, the audit entry and the receipt, or nothing.  *)

Record(q, revision) ==
  /\ receipts' = receipts \cup {Receipt(q)}
  /\ audit' = audit \cup {AuditEntry(q, revision)} /\ audited' = audited + 1
Nothing == UNCHANGED storeVars
PutFixture(i) == fixtures' = fixtures \cup {Fixture(i)}

\* Mutant: a taken key does not abort the transaction.
CreateUnguarded(q) ==
  IF Current(q) # Unregistered
  THEN Nothing
  ELSE /\ IF AboutSource(q)
          THEN /\ sources' = [sources EXCEPT ![Key(q)] = Registered(q.input)]
               /\ UNCHANGED <<mappings, fixtures>>
          ELSE /\ mappings' = [mappings EXCEPT ![Key(q)] = Registered(q.input)]
               /\ PutFixture(q.input)
               /\ UNCHANGED sources
       /\ Record(q, 1)

\* CreateSource, or PutFixture and CreateMapping.
Create(q) ==
  IF Current(q) # Unregistered \/ Held(q)
  THEN Nothing
  ELSE /\ IF AboutSource(q)
          THEN /\ sources' = [sources EXCEPT ![Key(q)] = Registered(q.input)]
               /\ UNCHANGED <<mappings, fixtures>>
          ELSE /\ mappings' = [mappings EXCEPT ![Key(q)] = Registered(q.input)]
               /\ PutFixture(q.input)
               /\ UNCHANGED sources
       /\ Record(q, 1)

\* The filter on status and revision of TransitionSource and TransitionMapping.
Matches(q) == Current(q).status = Allowed(q) /\ Current(q).revision = q.expected

Transition(q) ==
  IF ~Matches(q) \/ Held(q)
  THEN Nothing
  ELSE /\ IF AboutSource(q)
          THEN sources' = [sources EXCEPT ![Key(q)] = Moved(@, Target(q))] /\ UNCHANGED mappings
          ELSE mappings' = [mappings EXCEPT ![Key(q)] = Moved(@, Target(q))] /\ UNCHANGED sources
       /\ UNCHANGED fixtures
       /\ Record(q, Current(q).revision + 1)

Commit(c) ==
  /\ At(c, "commit")
  /\ LET q == call[c].request IN IF Creates(q) THEN Create(q) ELSE Transition(q)
  /\ Answer(c)
  /\ UNCHANGED <<schemas, nodeVars, landed, calls, faults>>

\* The write, the audit append or the receipt fails and the transaction aborts.
Abort(c) ==
  /\ At(c, "commit") /\ faults < MaxFaults
  /\ faults' = faults + 1
  /\ Answer(c)
  /\ UNCHANGED <<storeVars, schemas, nodeVars, landed, calls>>

\* The schema registry publishes a target schema; it never withdraws one.
PublishSchema(s) ==
  /\ s \notin schemas
  /\ schemas' = schemas \cup {s}
  /\ UNCHANGED <<storeVars, call, nodeVars, landed, calls, faults>>

-----------------------------------------------------------------------------
(* Generations.                                                              *)

PublishedMappings == {m \in MappingKeys : mappings[m].status = "PUBLISHED"}

\* compile: a published mapping that an entry can be made of.
Compiles(i) ==
  LET source == sources[SourceKey(i)]
  IN  /\ <<i.source, i.type>> \notin BuiltIn
      /\ i.source \in Consumed
      /\ source.status = "PUBLISHED" /\ source.input.type = i.type
      /\ i.schema \in schemas /\ TargetFieldsAllowed(i)

Entry(m) ==
  [mapping |-> mappings[m].input, revision |-> mappings[m].revision,
   source |-> sources[SourceKey(mappings[m].input)]]
RuntimeKey(entry) == <<SourceKey(entry.mapping), entry.mapping.type>>
Generation == {Entry(m) : m \in PublishedMappings}

\* Mutant: two mappings may have one key.
BuildableTwice ==
  /\ Cardinality(PublishedMappings) <= MaxRuntimeMappings
  /\ \A m \in PublishedMappings : Compiles(mappings[m].input)

\* Every published mapping compiles, within the limit and under a key of its own.
Buildable ==
  /\ Cardinality(PublishedMappings) <= MaxRuntimeMappings
  /\ \A m \in PublishedMappings : Compiles(mappings[m].input)
  /\ \A a, b \in Generation : RuntimeKey(a) = RuntimeKey(b) => a = b

\* Mutant: a refresher that leaves its loop at the first error.
RefreshOrStop ==
  /\ refresh = NothingBuilt
  /\ refresh' = IF Buildable THEN Generation ELSE Stopped
  /\ UNCHANGED <<storeVars, schemas, call, node, active, rebuild, restarts, rebuilds, landed,
                 calls, faults>>

\* Refresh, at start-up and on every tick.  What compile reads of a published
\* mapping no longer changes, so the listing and the compilation are one step.
\* A failure keeps the active generation; at start-up the process gives up and
\* is started again.
Refresh ==
  /\ refresh = NothingBuilt
  /\ refresh' = IF Buildable THEN Generation ELSE NothingBuilt
  /\ UNCHANGED <<storeVars, schemas, call, node, active, rebuild, restarts, rebuilds, landed,
                 calls, faults>>

RefreshActivate ==
  /\ refresh \notin {NothingBuilt, Stopped}
  /\ active' = refresh /\ refresh' = NothingBuilt /\ node' = "up"
  /\ UNCHANGED <<storeVars, schemas, call, rebuild, restarts, rebuilds, landed, calls, faults>>

\* A rebuild builds its generation before the replay and activates it after.
RebuildBuild ==
  /\ node = "up" /\ rebuild = NothingBuilt /\ rebuilds < MaxRebuilds
  /\ rebuilds' = rebuilds + 1
  /\ rebuild' = IF Buildable THEN Generation ELSE NothingBuilt
  /\ UNCHANGED <<storeVars, schemas, call, node, active, refresh, restarts, landed, calls, faults>>

RebuildActivate ==
  /\ rebuild # NothingBuilt
  /\ active' = rebuild /\ rebuild' = NothingBuilt
  /\ UNCHANGED <<storeVars, schemas, call, node, refresh, restarts, rebuilds, landed, calls,
                 faults>>

\* A new process has no generation until its first Refresh.
Restart ==
  /\ restarts < MaxRestarts
  /\ restarts' = restarts + 1
  /\ node' = "starting" /\ active' = {} /\ refresh' = NothingBuilt /\ rebuild' = NothingBuilt
  /\ UNCHANGED <<storeVars, schemas, call, rebuilds, landed, calls, faults>>

-----------------------------------------------------------------------------
(* Events.                                                                   *)

\* Resolve: the entries of the event's tenant, source and type whose source
\* resolves its workspace.
Candidates(e) ==
  {entry \in active :
     /\ entry.mapping.tenant = e.tenant
     /\ entry.mapping.source = e.source /\ entry.mapping.type = e.type
     /\ ResolvesWorkspace(entry.source.input, e.tenant, e.workspace)}

Stored(workspace, mapping) == [outcome |-> "stored", workspace |-> workspace, mapping |-> mapping]
Dead(cause, mapping) == [outcome |-> cause, mapping |-> mapping]
Handler == <<"handler">>

\* Handle, as far as routing goes: by the mapping that resolves, else by the
\* built-in handler, else to the dead letters.
Route(e) ==
  LET found == Candidates(e)
  IN  CASE Cardinality(found) > 1 -> {Dead("ambiguous", Handler)}
        [] Cardinality(found) = 1 ->
             LET i == (CHOOSE entry \in found : TRUE).mapping
             IN  (IF MapsEvent(i, e) THEN {Stored(i.workspace, MappingKey(i))} ELSE {})
                 \cup (IF ~MapsEvent(i, e) \/ Overlaps(i.fields)
                       THEN {Dead("rejected", MappingKey(i))} ELSE {})
        [] OTHER -> IF <<e.source, e.type>> \in BuiltIn
                    THEN {Stored(e.workspace, Handler)} ELSE {Dead("unmapped", Handler)}

Deliver(e) ==
  /\ node = "up" /\ landed[e] = Pending
  /\ \E result \in Route(e) : landed' = [landed EXCEPT ![e] = result]
  /\ UNCHANGED <<storeVars, schemas, call, nodeVars, calls, faults>>

-----------------------------------------------------------------------------
Call(c) == Begin(c) \/ Find(c) \/ Lookup(c) \/ Check(c) \/ Commit(c) \/ Abort(c)
Control == (\E c \in Callers : Call(c)) \/ (\E s \in DOMAIN Definitions : PublishSchema(s))
Runtime == Refresh \/ RefreshActivate \/ RebuildBuild \/ RebuildActivate \/ Restart
           \/ \E e \in Events : Deliver(e)

\* A catalog from its first registration on: every one in use has come from there.
CatalogSpec == InitFrom({}, {}) /\ [][Control \/ Runtime]_vars

-----------------------------------------------------------------------------
(* Properties.                                                               *)

\* Registrations, receipts and results have the shape the code gives them, and
\* a node that is up is routing by a generation.
CatalogTypeOK ==
  /\ \A s \in SourceKeys : sources[s].status \in {"NONE", "DRAFT", "PUBLISHED"}
  /\ \A m \in MappingKeys : mappings[m].status \in {"NONE", "DRAFT", "PUBLISHED", "REVOKED"}
  /\ fixtures \subseteq {Fixture(i) : i \in MappingInputs}
  /\ schemas \subseteq DOMAIN Definitions
  /\ node \in {"starting", "up"} /\ (node = "starting" => active = {})
  /\ \A e \in Events :
       landed[e].outcome \in {"pending", "stored", "ambiguous", "rejected", "unmapped"}

\* A mapping is published only over a published source of the same event
\* contract, a published schema that declares its fields, and a stored fixture
\* that resolves to its workspace and maps: the checks run outside the
\* transaction that publishes (transitionMapping).
PublishedMappingIsSound ==
  \A m \in MappingKeys : mappings[m].status \in {"PUBLISHED", "REVOKED"} =>
    LET i == mappings[m].input
        source == sources[SourceKey(i)]
    IN  /\ source.status = "PUBLISHED" /\ source.input.type = i.type
        /\ i.schema \in schemas /\ TargetFieldsAllowed(i)
        /\ Fixture(i) \in fixtures /\ FixtureFits(i, source)

\* Every revision of a registration has one audit entry, every entry one
\* receipt, and no receipt answers for two changes (CreateSource ... Save).
EachRevisionIsRecorded ==
  /\ audited = Cardinality(audit) /\ audited = Cardinality(receipts)
  /\ \A a, b \in receipts : a.slot = b.slot => a = b
  /\ \A s \in SourceKeys : {a.revision : a \in {a \in audit : a.id = s /\ a.op \in
       {"source.create", "source.published"}}} = 1 .. sources[s].revision
  /\ \A m \in MappingKeys : {a.revision : a \in {a \in audit : a.id = m /\ a.op \in
       {"mapping.create", "mapping.published", "mapping.revoked"}}} = 1 .. mappings[m].revision

\* An event is stored in the workspace it names, or in one whose published
\* source lists that workspace for the tenant (resolvesWorkspace).
StoredWhereResolved ==
  \A e \in Events : landed[e].outcome = "stored" =>
    \/ landed[e].workspace = e.workspace
    \/ LET s == sources[<<e.tenant, landed[e].workspace, e.source>>]
       IN  s.status = "PUBLISHED" /\ s.input.mode = "allowlist"
           /\ <<e.tenant, landed[e].workspace>> \in s.input.allow

\* An event is dead-lettered as ambiguous only when a mapping of its tenant was
\* published over a source that resolves by allowlist, whatever workspace the
\* event names: the keys of a generation are distinct (Build).
AmbiguousOnlyByAllowlist ==
  \A e \in Events : landed[e].outcome = "ambiguous" =>
    \E m \in MappingKeys :
      /\ mappings[m].status \in {"PUBLISHED", "REVOKED"}
      /\ mappings[m].input.tenant = e.tenant /\ mappings[m].input.source = e.source
      /\ sources[SourceKey(mappings[m].input)].input.mode = "allowlist"

\* A mapping rejects an event only for what this event holds: it lacks a path that is
\* mapped, or has values that the target schema refuses and that are not those of the
\* fixture, or one that BSON cannot hold: publication mapped the fixture as Map will
\* (overlapping target paths aside), so it is never the mapping that fits no event.
FixtureForetellsMapping ==
  \A e \in Events : landed[e].outcome = "rejected" =>
    \A i \in MappingInputs :
      /\ landed[e].mapping = MappingKey(i) /\ mappings[MappingKey(i)].input = i
      /\ Finds(i, e.holds)
      => \/ Overlaps(i.fields) \/ ~Encodes(i, e.holds)
         \/ /\ Mapped(i, e.holds) \notin Definitions[i.schema].takes
            /\ Mapped(i, e.holds) # Mapped(i, i.fixture.holds)

\* The events of the built-in handlers are never routed by a catalog mapping
\* (isBuiltInHandlerKey), published or not.
BuiltInsKeepTheirHandler ==
  \A e \in Events : /\ <<e.source, e.type>> \in BuiltIn /\ landed[e] # Pending
                    => landed[e] = Stored(e.workspace, Handler)

\* Every event goes where the catalog that routed it says, through restarts, revocations
\* and late activations: to a workspace that its source resolves to, to its built-in
\* handler, or to the dead letters as ambiguous only because of an allowlist.
EventsAreRouted == StoredWhereResolved /\ AmbiguousOnlyByAllowlist /\ BuiltInsKeepTheirHandler

\* Once the catalog rests, the node routes by exactly the published mappings,
\* whatever failed refreshes, restarts and late activations of rebuilds came
\* before, unless the published mappings cannot be built (Run).
GenerationCatchesUp ==
  <>[](Buildable => node = "up" /\ active = Generation)

\* The refresher ticks for as long as the node runs and a rebuild ends; nothing
\* is assumed of callers or events.
RuntimeFairness ==
  WF_vars(Refresh) /\ WF_vars(RefreshActivate) /\ WF_vars(RebuildActivate)
=============================================================================
