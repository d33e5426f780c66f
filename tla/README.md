# Record Hub: a verification project

Record Hub (`src/server`) keeps tables of records for several owner systems. It
projects the events of the owners into read models, sends them commands on
behalf of users, and lets users keep records and schemas of their own. It is a
Go service on MongoDB (replica set, transactions) and NATS JetStream; several
replicas of it run at once.

This directory holds TLA+ models of its core, TLC configurations that check
them on small instances, and proofs for TLAPS. `PROJECT.json` lists the runs, the
mutants that show that each property can fail, the source lines every definition
stands for, the hazards of the code, the theorems and the findings. Paths below
are relative to `src/`.

## 1. The system

### Components

| Component | State | Operations | Interacts with | Correct when |
|---|---|---|---|---|
| Projection pipeline (`projection/nats.go`, `summary_projector.go`, `store.go`, `archive.go`, `inbox.go`, `retry.go`) | durable consumer, event archive, inbox, checkpoints, records, audit | fetch, archive, claim, associate, apply, publish, ack/nak/dead letter | JetStream, Mongo, feed, rebuild (archive, checkpoints, pointer) | exactly once and in order per aggregate; nothing acked before its commit; nothing lost silently |
| Associations (`projection/*association.go`) | one document per relation | apply before the record, list | pipeline | state and versions agree; never behind a projected approval |
| Projection rebuild (`projection/rebuild.go`, `read_pointer.go`) | operations, receipts, staging collections, read pointers | start, cancel, process (claim, build, stage, replay, switch, finish) | archive, checkpoints, live projector | the switch loses nothing; one operation per key; every operation ends |
| Projection catalog (`projection/catalog*.go`, `registry.go`) | sources, mappings, fixtures, receipts; each node's active generation | create, publish, revoke; build, refresh, activate; route | rebuild, pipeline, schemas | a published mapping is sound; a node ends up with what is published |
| Command gateway (`commands/`) | receipts, command stream, owner inbox, results | submit, dispatch, owner's claim/commit, apply result | owner systems, audit | one receipt per key, executed once, final result kept |
| Records (`records/service.go`, repositories) | records, receipts, audit | create, update, delete | schema, audit, feed | optimistic versions, receipts replayed |
| Change feed (`records/feed.go`) | in-memory history, dedup keys, subscribers, connections | publish, subscribe, replay, drop | records, pipeline | no hole between cursor and live events |
| Workspace definitions (`records/`) | workspaces, tables, views, indexes, tag dictionaries | create, update, build index, save dictionary | schema, audit | one winner per id or version; definitions fit their schema |
| Views and exports (`records/view_model.go`, `export.go`) | none of their own | pages with a cursor, export | records, pointer, audit | what does not move is read once; what is delivered is audited |
| Schema registry and migrations (`schema/`) | definitions with status and revision, plans, receipts | draft, publish, plan, cancel | records, catalog | published definitions never change; content hash matches |
| Binding snapshots (`binding/`) | snapshots by operation id | create | records, projector | one snapshot per operation, of one record version |
| Connector onboarding (`connector/`) | one record per key in memory, audit | submit, review, enable, disable | audit | three people; audit tells what happened |
| Authorization, rotation, registry of connectors, operations view, HTTP decoding, wiring, observability, SDK, tools, web | | | all | not modelled, see section 8 |

### What is hard

- Runners, replicas, API calls and workers interleave at every database or
  stream access; the only shared locks are Mongo's transactions, unique indexes and
  revision checks.
- JetStream delivers at least once, in any order after a retry, and a bounded
  number of times; acks and dead letters may be lost.
- A process may stop between any two writes: commit and ack, association and
  record, publication and save, pointer switch and status.
- A transaction callback may run more than once, and variables that it captures
  outlive an aborted attempt.
- A decision is often taken on a document read earlier (revision of an
  operation, archive listing, active pointer, association, draft, dictionary). Views,
  indexes, dictionaries, associations and snapshots use no transaction at all.
- The feed and the onboarding records live in the memory of one process: ids and
  revisions start again with it, while clients keep theirs.

The list, line by line, is `hazards` in `PROJECT.json`.

## 2. Modules

| Module | Role |
|---|---|
| `ProjectionStore` | checkpoint documents and `classifyCheckpoint`, used by the two projection models |
| `OrderedProjection` | abstract read model: per aggregate the versions 1, 2, 3, ... and the last one shown |
| `ProjectionPipeline` | the pipeline: JetStream consumer, runners, handler, transaction, settling |
| `ProjectionPipelineProofs` | its theorems |
| `Association`, `AssociationProofs` | the association documents and the handlers that race for them; theorems |
| `ProjectionRebuild`, `ProjectionRebuildProofs` | API calls, workers, and the live projector next to them; theorems |
| `ProjectionCatalog`, `ProjectionCatalogProofs` | sources, mappings, generations and the routing of events; theorems |
| `CommandReceipt` | abstract receipt: one payload and one final result per key |
| `CommandGateway`, `CommandGatewayProofs` | Submit calls, owners, result consumers; theorems |
| `RecordFeed` | the feed's broker, the SSE handler and its clients |
| `RecordService`, `RecordServiceProofs` | the writers of records, composed with `RecordFeed`; theorems about both |
| `SchemaCompatibility`, `CanonicalJSON` | pure algorithms with a reference definition |
| `SchemaRegistry`, `SchemaRegistryProofs` | drafts, publication, migration plans; uses the two above; theorems |
| `Workspace` | tables, views, indexes, tag dictionaries |
| `RecordQuery` | pages and exports against concurrent writes |
| `WorkflowBinding` | snapshots for workflows |
| `ConnectorOnboarding` | the onboarding of a connector |
| `WorkspaceProofs` | theorems about `Workspace`, `RecordQuery`, `WorkflowBinding` and `ConnectorOnboarding` |
| `MC*` | instances for TLC; most hold several, told apart by the variable `part`. `MCSchemaRegistry` gives the registry its schemas, also to `MCWorkspace` |

Definitions that begin with "Mutant:" in their comment are faulty variants of the
definition that follows. They are not part of any specification.

### ProjectionPipeline

State: the server's view of each message (`srv`, `delivered`, `dlq`), each
runner's batch, step and captured variables (`batch`, `pc`, `cur`, `att`,
`gapSeen`, `changeSeen`), the Mongo collections (`archive`, `inbox`,
`checkpoint`, `record`, `audit`, `assoc`) and the feed.

One action per store or stream access of `PullRunner.Run` and
`SummaryProjector.Handle`: `Deliver`, `Take`, `Archive`, `Claim`, `Associate`,
`Apply` (one committed transaction, one disjunct per outcome), `Publish`, then `Ack`,
`Nak`, `DeadLetter` and `Term`. Faults are actions of their own: `StepFails`
(Mongo answers with an error, also after a commit), `TxnRetried`, `AckLost`,
`DeadLetterFails`, `SettleLost`, `Crash`, and `AckWaitExpires` while the delivery is
still being handled. A message carries a verdict that says which check refuses it.
JetStream itself (`Deliver`, `AckWaitExpires`, `Exhaust`) is external: modelled
from how the runner uses it and from `tools/nats-init/main.go`. A built-in event names
its workspace; the handler's other sources of one (`summary_projector.go:194-200`) are
left out.

### CommandGateway

`Submit` is a chain of steps (`Find`, `Create`, `FindAgain`, `AuditSubmit`,
`PublishCommand`, `SaveDispatched`); the owner's `InboxService.Process` another
(`Receive`, `ClaimFind`, `ClaimInsert`, `Execute`, `Commit`, `Reply`); the consumer of
results a third (`TakeResult`, `FindReceipt`, `SaveResult`, `AckResult`,
`FailResult`). Calls may be lost at any step, the command may be published and the
client told otherwise, owners may stop, results may be delivered again, and other
results may arrive for the same operation. Owner systems are external;
`InboxService` is the reference they follow.

### ProjectionRebuild

One table and one aggregate; an event is its version, a collection the version it
holds. `Start`/`StartCommit` and `Cancel`/`CancelCommit`/`CancelReceipt` are the API;
`Poll`, `Claim`, `Build`, `Check`, `Stage`, `List`, `Replay`, `Write`, `Stopped`,
`Collect`, `Activate`, `Finish` and `Conclude` are `process`, one store access each;
`LiveArchive`, `LiveRead` and `LiveCommit` are the live projector, whose transaction
reads a snapshot and conflicts with writes to the documents it writes.
`MCProjectionRebuild` lets the projector rest while a worker is busy in the parts
"control" and "fair": that separates what holds of a rebuild as such from what
concurrent events break (finding 2).

### Association

One relation of one of the three kinds. `Receive`, `FindDocument`, `Insert`, `Replace`
and `Project` are a handler's accesses; handlers interleave freely, or one at a time
when `sequential`. The decision functions (`Refuses`, `Disputes`, `Skips`, `Continues`)
are those of `applyAssociationEvent` and its sisters, which differ in one point: only
the project association stops at a conflict. `holds` is a ghost field: the version
whose content the document shows.

### ProjectionCatalog

`Begin`, `Lookup`, `Check` and the commit of a request are one action each, since the
checks of a publication run outside its transaction. A node refreshes, activates,
restarts, finishes a rebuild and routes events with what `active` holds. Events are
resolved by `resolvesWorkspace` and mapped by the compiled fields (`Maps`, `MapsEvent`).
A document is a function from the paths it holds to values, `Mapped` puts the values of
the source paths at the target paths, and a target schema is the set of mapped documents
it takes: so the fixture and every event are validated by their own values, as
`ValidateJSON` does it. `Encodes` is the conversion to BSON, which only `Map` has and which
fails for a value such as an integer beyond 64 bits (`Unstorable`).

### RecordFeed and RecordService

`Publish` is `RecordFeed.Publish` under its mutex: dedup key, history window, fan-out,
drop of slow subscribers. `Replay` is the loop over the history that `Subscribe` runs, as
a recursive function. `Connect`, `Subscribe`, `RefuseCursor`, `WriteReplay`,
`WriteLive` and `Disconnect` are the SSE handler. Clients are external: they keep the
last event id, read a record they are told of, reconnect or start afresh.
`RecordService` writes records in the steps of `CreateRecord`, `UpdateRecord` and
`DeleteRecord` (receipt, read, transaction, publication), with lost answers, failing
transactions and restarts, and publishes into the same broker.

### SchemaRegistry, SchemaCompatibility, CanonicalJSON

The registry's operations in their steps; a hash is what it is a hash of, so a hash
taken of a stale read shows. A plan's fingerprint and request hash are taken of the report
as it is listed. `SchemaCompatibility` translates `compareSchema` for types, enums, required
and additional properties, and judges it by the instances a schema accepts. A property
schema may be an object, or one of the schemas `true` and `false`, which nothing compares
(`compatibility.go:70-74`). `CompareSchema` gives the messages for each path and kind, and
`Reports` the lists that `CheckBackwardCompatibility` may return: `sort.Slice` orders by
path and kind only, and the types within one of them come as Go iterates over a map, so one
pair of schemas can have several reports. A cancellation reads its plan before the receipt
(`FindPlan`); a creation looks for the receipt, then for a plan with its fingerprint. `CanonicalJSON` normalises number literals and orders members, and is
judged by the numeric values and by the equality of objects.

### Workspace and RecordQuery

Nothing here runs in a transaction. `Handle` is a handler up to its write: what it read
before its last read cannot change any more. Then come the write, and for an index and
a dictionary a second write that may fail. A record is given the tags of the dictionaries
that one listing returns (`ListTagDictionaries`: the first `MaxListed` in the order of the
scopes), those of its table over those of the workspace. `RecordQuery` builds the page
query from view, sorts and cursor (`Selected`), has the database sort what it finds
(`InOrder`, external: some list in the order of the sorts), and follows the cursor as
clients and `ExportRecords` do. `Allowed` is the loop that drops forbidden and repeated
columns of an export.

### WorkflowBinding

`CreateSnapshot`, `ReadRecord`, `InsertSnapshot` and `FindExisting` are the accesses of
the service; `InsertFails` also stands for an insert whose answer is lost;
`ChangeRecord` is the projector or a rebuild.

### ConnectorOnboarding

The transitions under the mutex, each followed by an audit append of its own.
Callers act on a record they were shown earlier, also by a former process. The records are
in memory, and the model's trail begins anew with them: what a stop between a transition
and its append leaves in the audit log is outside `AuditTellsChanges`.

## 3. Runs

| Run | Shows |
|---|---|
| `pipeline_fair` | two runners, one fault anywhere, and three streams: three versions of one aggregate in any order, with batches of two ("ordered"); rival events of one version with a successor ("rivals"); a second payload under an event id and events that are refused ("payloads"). Exactly-once and in order, the feed announces committed versions only, a message is acked only when its own payload is the one applied, whatever is delivered is settled; refinement of `OrderedProjection` |
| `pipeline_loss` | finding 1 (violation) |
| `commands` | two parts: two clients, one key, two payloads and a refused request ("submit"); two owners and two consumers, owner stops, another result ("owner"). One receipt per key, executed once, receipt equals the owner's result, audited once, sent commands finish unless an owner stopped with them claimed; refinement of `CommandReceipt` |
| `rebuild` | three parts: callers racing for two operations with cancellations ("control"), two workers on one operation with the live projector on ("live"), rebuilds with a fault anywhere and the projector at rest ("fair"): one operation per key, the documented state machine, the checkpoint never moves back, the switch covers it, failures have a cause, started rebuilds end |
| `rebuild_race`, `rebuild_third` | findings 2 and 3 (violations) |
| `records_feed` | two writers, one SSE client, a lost answer, a failure and a restart: a key takes effect once, the audit log is the record's history, the stream has no hole, connection slots do not leak, an idle client is current |
| `records_recreate` | finding 4 (violation): the same without the assumption that record ids are not used again |
| `registry_order`, `registry_boolean` | findings 5 and 6 (violations) |
| `workspace` | parts "schemas", "views", "indexes", "tags", "records", "snapshots", "connectors", see below |
| `catalog` | parts "control" (two callers fill an empty catalog), "runtime" (a catalog in use changes while a node runs) and "association" (two handlers race) |

`workspace` checks, by part: *schemas*: a content hash identifies the content of a
published version (it is of that content, which no late update has changed, and the
canonical text it digests is faithful), each change has one receipt, plans are unique per
pair and report and stay true, reports of compatibility are sound where the comparison
looks; *views, indexes, tags*: one winner per id,
version or revision, definitions that can be served (`DefinitionsAreSound`: they fit the
pinned schema, have their index and pass the limit of indexes by at most the callers that
race), a dictionary trail that names what each save replaced and ends in what is in
force, tags that follow the most specific dictionary; *records*: a record that stays in
the view unchanged is read exactly once, and an export is delivered only with an audit
entry of exactly its rows and columns; *snapshots*: one snapshot per operation;
*connectors*: three people, with a true audit.

`catalog` checks that a published mapping stays sound, that every revision is recorded
once, that events are routed as the catalog says (stored where the source allows, left to
built-in handlers, ambiguous only by an allowlist), that a mapping rejects an event only for
what that event holds (a path is missing, or the target schema refuses values that are not
the fixture's, or BSON has no form of them), that a node catches up with the catalog; and for the associations that
losses come from stale reads only and that they keep up with the projection.

Each module also states its type invariant (`TypeOK`, or `...TypeOK` where modules are
combined). It documents the state; the runs leave it out. Those of the pipeline, the
command gateway and the rebuild are theorems, the others have a counterpart in the
invariants of section 5.

### Bounds

- *Runners, owners, consumers, callers: two where the property is about a race,
  one otherwise.* They share state only through documents that one of them writes
  at a time, so a race is between two of them.
- *Versions: three in the stream "ordered" of `pipeline_fair` and for associations* (a version can then arrive
  before both its predecessors and the gap be filled in either order), *three in the
  rebuilds* (one replayed, one that comes in between, one that cannot be mapped). The other
  two streams are fetched one message at a time.
- *`MaxDeliver` = 2 or 3*: a first delivery and a last one; the deployed 5 adds
  deliveries like the first. `MaxDeliver` equals `ServerMaxDeliver`, as deployed.
- *`MaxFaults` = 1*: one fault at any step, in addition to every interleaving. Two
  faults were explored for the pipeline's safety; the theorems below hold for any number.
- *`MaxCalls`, `MaxCancels`, `MaxOwnerStops`*: enough for a call, its retry and a rival.
  In the part "owner" of `commands` a behaviour has one fault or one owner that stops, the
  other result is published before the command is claimed (and delivered at any time), and
  of two idle owners or consumers the first begins: idle ones are alike.
- *`MaxRevision`*: two workers on one RUNNING operation can raise its revision for
  ever by staging in turn; the bound ends that.
- *History of two, a buffer of one, one connection per table*: a cursor can expire, a
  subscriber can be slow, and a slot that is not returned keeps the client out, each
  within four changes.
- *`MaxIndexes` = 1 with three index ids; `MaxRows` = 2 with three records and pages of
  one*: the limits are reached and passed.
- *Two schema versions and two contents, of which the second narrows two types of the
  first, so that a report has two orders; candidate schemas over two properties with every
  choice of six property schemas, `true` and `false` among them;
  number literals of up to three digits with exponents up to two; documents of two members
  with numbers of one digit*: the reference definitions are compared over all of them.
- *Parts of one run*: components in one MC module share no variable, so the behaviours
  of a part are those of the component alone.
- *Mapped values: a number, a text, and a number that BSON cannot hold; five events*: one
  with the fixture's value, one with each of the others, one without the path, and one of a
  built-in handler. A node's routing of an event depends on nothing that other events
  leave, so events are taken in one order.
- *`ArchiveLimit` = 2 with three events*: in the part "fair" the archive exceeds it and
  the rebuild fails for that (`rebuild.go:412`), in the others it does not.

The largest runs are `workspace` (1.3 million distinct states, about two minutes with two
workers) and `catalog` (0.6 million).

`CHECK_DEADLOCK FALSE` stands in every configuration: with a finite set of
messages, calls or operations the system comes to rest when all are settled.

### Fairness

- Pipeline: weak fairness of each runner's work, of delivery of each message and of
  the server's timers. `Run` loops until it is cancelled, every call in it has a
  timeout, and a stopped process is replaced. Faults are never required, and bounded.
  No owner system has to publish anything: `EventuallySettled` is about what was
  delivered, also when the version before it never comes.
- Commands: weak fairness of each call, owner and consumer. No client has to call
  again and no owner has to report an expiry. An owner may stop; one that does so between
  claim and commit leaves its entry CLAIMED for good (`inbox.go:152`), since the reference
  inbox has no lease. `CommandsFinish` excepts exactly these commands (`Abandoned`).
- Rebuild: weak fairness of each worker, which polls until its process stops.
- Catalog: weak fairness of `Refresh`, `RefreshActivate` and `RebuildActivate`: the
  refresher ticks for as long as the node runs, also after an error, and a rebuild that
  has built its generation ends. Nothing is assumed of callers, events or restarts.

## 4. Findings

1. **A message can be given up without a dead letter** (`pipeline_loss`). Server
   and runner have the same limit of deliveries. A crash, or a failed publication of
   the dead letter, on the last delivery ends the message: no runner has it in hand any
   more, and it is neither applied nor in the DLQ, contrary to `docs/event-contract.md:58`.
   (The server also gives up on a message that a slow runner still holds; that runner may
   yet settle it, so `NoSilentLoss` does not speak of it.)
2. **A rebuild can drop an event** (`rebuild_race`). The checkpoints of the switch
   come from a second listing of the archive (`rebuild.go:452`). An event archived
   between the two listings is counted and not replayed; the live projector then
   takes it for stale.
3. **The third rebuild of a table fails** (`rebuild_third`). The unique index of
   `read_pointer.go:40` allows one RETIRED pointer per table.
4. **A record created again under its id may stay unannounced** (`records_recreate`).
   The feed's key is operation, record and version (`records/service.go:810`); the second
   creation has the key of the first and is dropped as a duplicate while the first is
   retained. With fresh ids (`WellBehaved`) an idle client is current, as `records_feed`
   shows.
5. **A repeated request may get a second migration plan** (`registry_order`). The
   compatibility report lists the types of one property in the order of a Go map
   (`compatibility.go:90`; the sort of line 40 looks at path and kind), and
   `migration.go:310` hashes it as it is listed. One pair of published versions can so have
   two plans, and a retry under one key a conflict with its own receipt
   (`migration.go:296`), where `docs/phase-2-migration-design.md:66-67` promises the same
   plan.
6. **A report overlooks `true` and `false`** (`registry_boolean`). `compareSchema` goes into
   a property only when its schema is an object in both versions (`compatibility.go:72`). A
   candidate that turns `true` into `false` is reported compatible and refuses instances
   that the published version accepts, contrary to the comment at `compatibility.go:22`.

Seen while modelling. The models contain the behaviour unless it says otherwise; no run
is about it:

- Rebuild: a repeated Cancel is answered as a conflict, since its hash covers the
  revision that the first call has changed (`rebuild.go:244`;
  `docs/phase-2-rebuild-design.md:34-35` speaks of the original result). Of two workers on
  one operation the slower one takes SUCCEEDED for a cancellation and overwrites it
  (`rebuild.go:436`, `493`); and while they stage in turn, none of them can save the success
  of its switch (`rebuild.go:397`), so that the third switch fails even a first rebuild on
  the index of finding 3. A cancellation accepted after the last look does not stop the
  switch. Staging orders events by record version, the live projector by aggregate version
  (`store.go:258`; an event of the rebuild model has one version, so the two agree there).
- Pipeline: an event behind a gap that is not filled within the limit of deliveries goes
  to the DLQ, and later versions of the aggregate follow it there.
- Associations: when handlings overlap, an event can be noted as a gap and then
  projected after its predecessor; the association stays in GAP.
- Workspace: the limit of indexes can be passed by racing callers; a failed clean-up
  leaves metadata without index; a dictionary can be saved without its audit entry; only
  the first 64 dictionaries of a tenant count.
- Query: a page that ends at a record without the sort field ends the reading.
- Catalog: one published mapping that no longer compiles blocks every later generation
  and the start of a node; two allowlists that name one workspace make its events
  ambiguous; overlapping target paths
  are applied in the order of a Go map.
- Catalog, too: a number that fits the target schema but not BSON passes publication and
  sends its events to the dead letters.
- Schemas: a typed optional property added to an open schema is reported compatible
  though older instances may have had it with another type.
- Onboarding: the HTTP upload records no passed checks, so `Enable` refuses what was
  submitted through it; a rejected key cannot be submitted again; revisions start again
  with the process.

## 5. What is proved

A theorem holds for every value of the constants that the named assumptions allow, and so
for any number of processes, keys, events and faults; a run shows the same property on
one instance. Every inductive invariant was checked by TLC on the instance of the run
before it was proved.

Recursion is written as recursive functions. The library's induction rules cannot be
instantiated here; where a proof needs one, it takes the least number at which the claim
fails (`WFMin`, of the well-founded order of the naturals) and shows that there is none.

### The pipeline

`ProjectionPipelineProofs` proves `TypeCorrect`, `PipelineInvariant` and from it the three
invariants and the refinement that the runs check (`ExactlyOnceInOrder`,
`FeedOnlyCommitted`, `AckedOnlyWhenApplied`, `ImplementsOrderedProjection`), and six
properties that the runs do not repeat: a message is terminated only with its dead letter
stored, APPLIED events are covered by the checkpoint, only archived payloads are
projected, approvals follow their association, a GAP has an event beyond it, and
checkpoints advance by one. The assumptions are `EnvAssumption` (each message has an
envelope; equal id and hash mean the same envelope, since the hash digests it; only
approvals are refused by the association writer) and `BoundsAssumption`.

The inductive invariant is

    IInv == TypeOK /\ RunnersKnow /\ StoreInv /\ ServerInv

`StoreInv` relates the collections, `ServerInv` the settled messages to them. Neither
is inductive alone: an ack is sent by a runner that has seen the commit some steps
before, while other runners wrote to the same documents. `RunnersKnow` says what a
runner may rely on at each step, whatever the others have done since: its payload is
the archived one after `Archive`, the association exists before `Apply`, the event
is APPLIED before `Ack`, and a captured feed change is for a version at most one past
the checkpoint, so that a retried callback cannot announce a version that is never
committed. The argument then is:

1. `StoreStep`: each action that writes a collection keeps `StoreInv`, given what
   its runner knows. `Decision` and `Classification` reduce a transaction to its three cases.
2. `StoreGrows`: whatever a step does, archived payloads, claims, APPLIED marks,
   associations and checkpoints only grow. Hence `KnowledgeLasts`: a step of one
   runner takes nothing from what another knows.
3. `KnowledgeStep`: the acting runner knows what its next step needs.
4. `ServerStep`: acks and terms are sent by runners that know.

The refinement maps `log` to the audit entries and `shown` to the record; only
`TxnApply` is a step of the abstract specification.

### The associations

`AssociationProofs` proves four properties of `Association` for any kinds, handlers
and events and any number of deliveries and interruptions. The assumption is that events
have a positive version and an id, which `AssociationEvent.Validate` checks.

- `AssociationInv` says that there is one document at most, that it is honest, and that
  a handler about to replace holds an honest document that its event changes and is not
  refused by. The last part is what makes it inductive: the document written depends on
  what was read, not on what is held. `AppliedWell` is the lemma on the decision functions.
- `StatesAreHonest`, `SourcesMoveForward` and `LossesAreStaleReads` follow from it step by
  step: the filter makes the two documents agree in their source version, so the source
  cannot go back, and if the two are the same document nothing is lost.
- `AssociationsKeepUp` adds `SequentialInv`: one handler is at work, and an event it has
  had accepted is in the association if the projection would take it.

### The command gateway

`CommandGatewayProofs` proves `OneReceiptPerKey`, `ExecutedAtMostOnce`,
`ReceiptMatchesOwner` and the refinement of `CommandReceipt`, from `GatewayInv`. None of
the three is inductive alone. What the invariant adds is what each process may rely on
between two of its accesses: a call holds the receipt of its key and payload, still
ACCEPTED while its revision stands (`CallsInv`); a command was sent only for a receipt that
exists; one worker at most is past the claim of an entry, and the entry is CLAIMED
(`ClaimInv`); a message of the result stream is the owner's committed result, an expiry or
one that is refused (`ResultsInv`); a consumer that has looked at a receipt knows it to be
pending while its revision stands (`ConsumersInv`); and a receipt is final exactly when it
has a result, audited at most once (`FinalInv`). The refinement maps a key to the payload
and the final result of its receipt; only `Create` and `SaveResult` are steps of the
abstract specification.

### The records and their feed

`RecordServiceProofs` proves of the composition

- `SlotsAreReturned`, from `SlotsInv`: the counters are the number of clients that are
  admitted or streaming, whichever return the SSE handler takes. Clients may be infinite
  in number; the limit keeps those that are connected finite.
- `OneEffectPerKey`, from `EffectInv`.
- `AuditIsTheHistory`, from `HistoryInv` and under `WellBehaved` (callers send versions
  they were shown, and ids are fresh): the entries of a record are the versions 1 to its
  present one, each with its predecessor as the before state. The service reads the record
  before its transaction, so the invariant carries what a request read, and the proof
  shows that a transaction whose version filter matches replaces exactly that. Without
  fresh ids it is false.
- `StreamIsContiguous` (`StreamContiguous`), from `StreamInv`: the history is the end of
  what this process has published, numbered without a gap (`LogInv`), and positions lie
  within it (`ClientInv`). The lemmas about `Replay` say that the loop returns the events
  of the table after the cursor, in order and each once; they go by the least length for
  which it would not.
- `IdleClientIsCurrent` (`ClientsCatchUp`), from `StreamInv`, `HistoryInv` and
  `FollowedInv` and under `WellBehaved`: what is announced has been committed
  (`AnnouncedInv`); a document that is not deleted is at its newest committed version
  (`VersionsInv`); and where a client shows a record otherwise than it is, there is a change
  of the record after the client's position, or a request that is going to announce one
  (`FollowInv`). A stream with nothing left to read, and no write under way, leaves neither.

### The rebuild

`ProjectionRebuildProofs` proves

- `CheckpointNeverMovesBack`, for any number of workers next to the live projector;
- `OneDeparture`: with any number of workers an operation leaves the documented state
  machine in one way only, a slower worker that finishes a SUCCEEDED or FAILED operation
  as CANCELLED (section 4); and `OneWorkerFollows`: with one worker at a time there is none.
  `OperationsFollow` is the same of the instance that the run checks
  (`StateMachineFollowed`);
- `SwitchCovers`: with one worker at a time, and a projector that rests while it works,
  readers are never switched to a collection behind the checkpoint. Finding 2 shows that
  the second hypothesis is needed. `RestingSwitchCovers` is the property of the run;
- `FailuresExplained`: with any number of workers a rebuild fails for one of the causes of
  `FailsOnlyForCause`, or when there is a RETIRED pointer already; and
  `FirstTwoFailForCause`: with one worker at a time, the first two rebuilds of a table
  (`AtMostTwo`) fail for such a cause only. Finding 3 shows that the number is needed, and
  section 4 that one worker is.

`RebuildTypes` and `KnowsInv` say what a worker and a call know of an operation as long as
its revision stands, `OwnsInv` what the operation of the only worker can be at each of its
steps, and `CoverInv` that what is archived is staged or still to be replayed. `CauseInv`
finds the cause as soon as a worker turns to failing, and `SwitchesInv` says that an
operation that has switched the pointer is past it (`PastSwitch`): it is over, to be
cancelled, or its worker is about to save its success. A RETIRED pointer then tells of two
such operations, and the one that is about to switch is a third.

### The schemas

`SchemaRegistryProofs` proves of the registry, from `RegistryInv`, that each change has one
receipt (`EachChangeHasOneReceipt`), that plans are unique per pair and report and those
between published versions have a report that comparing the two may give
(`PlansMatchPublished`; per pair alone they are not, finding 5), and that
the hash of a published version is of the content it has (`PublishedHashes`). The last is
not obvious, since `Publish` hashes what it read before the transaction: the caller's
expected revision was at most the one read, the one read is at most the current one, and
the transaction only matches if the current one is the expected one, so all three are equal
and a revision determines its content.

`CompatiblePreserves` is about `compareSchema` as an algorithm, for every two schemas over
any set of properties: a candidate without a reported change accepts every instance the
old schema accepts, unless it declares a property that the open old schema left undeclared
(the last item but one of section 4) or changes a property schema that is `true` or `false`
in either version (finding 6). `CompatibleIsSafe` follows.

`CanonicalNumbers` and `CanonicalDocuments` are about the canonical form: two literals have
one text exactly when they are one number, with any number of digits and any exponents, and
two documents exactly when they have the same members, however many. The reference is
Horner's sum of the digits (`Spelled`), with the point moved to the last place a literal can
have. Zeroes in front do not change a sum, and digits are determined by their sum and their
number (`SpelledOnce`, by induction from the last digit, where the sum modulo 10 decides).
`NormalizeNumber` only drops zeroes in front, drops zeroes at the end that `Scaled` puts
back, and places the point (`Pointed`), so the text in normal form spells the literal's
value; and a value has one normal form (`NormalOnce`): a text with more digits before the
point would begin with a zero, one with more behind it would end with one. For documents,
the place of a member is the number of keys up to its own: distinct keys have distinct
places, so every place is taken, and documents with the same keys put them at the same
places. The inductions are over the least natural number outside a set (`SetInduction`),
since the library's own induction takes an operator. With both, `HashesIdentify` needs no
hypothesis: a content hash identifies the content of its version.

### The catalog

`ProjectionCatalogProofs` proves the four invariants of the run `catalog` for
`CatalogSpec`, the catalog that starts empty: a published mapping is sound, every revision
is recorded once, events are routed as the catalog says, and a mapping rejects an event only for what
the event holds, for any values and any target schemas. `CatalogInv`
consists of

- `MappingsSound` and `CallersKnow`: the checks of a publication run outside its
  transaction; what they found (a published source of the same contract, a published
  schema, a fixture that maps) is kept by every step of every other caller, so it still
  holds when the transaction commits;
- `NodeInv`: a generation that a node holds, or builds, was built of mappings that were
  published then and are sound now, also when they have been revoked since;
- `LandedInv`: an event landed as the generation that routed it says;
- `RecordsInv`: revisions, audit entries and receipts correspond one to one.

`StoreMoves` is the relation that all steps of the store satisfy (documents are created or
take the next revision, nothing published is edited); the parts above are shown to last
under it once, and each action is shown to satisfy it.

### The workspace

`WorkspaceProofs` proves of `Workspace` that one claim has one winner (`OneWinner`), that
stored definitions can be served (`DefinitionsAreSound`) and that dictionaries leave a
trail (`DictionaryTrail`), for any finite set of callers. `WorkspaceInv` consists of

- `WinnersInv`: a request that was answered with success is `Settled`: its document is
  there, or the version it competed for is behind, and no other caller is between the two
  writes of an index or a dictionary with the same claim. `OneWinner` needs this because
  the answer comes after the second write;
- `DefinitionsInv`: callers about to write a definition have fields that the pinned schema
  has (`FitInv`), and the indexes of a table together with the callers that have counted
  them and not yet inserted theirs are fewer than the limit plus the number of callers
  (`CountInv`): an insert moves one from the callers to the indexes;
- `SavesKnow` and `DictionaryInv`: a save expects at most the revision that it read, which
  is at most the one in force, so a save that matches replaces what it read, and its audit
  entry names that. Entries that are not yet appended, or lost, are part of the trail.

`TagsFollowDictionaries` (`DictionariesDecide`) needs of the states only that finitely many
dictionaries are saved. It says what `Merge` of the two scopes answers, from the assumption
that no two ids of one entry list normalise alike, which `Validate` refuses.

Of the readings, `DeliveredIsAudited` (`ExportsAreAudited`) and `SteadyRecordsReadOnce`
(`SteadyRecordsOnce`) are proved from `QueryInv`, for every view, page size, set of records
and number of readers and writes:

- `ExportInv`: the rows of an export stay within the limit, and one that is to be answered
  is in the audit log. That each of its rows names its record comes from a lemma about
  `ExportColumns`: the id is among them, for any list of columns;
- `ReadInv`: a coherent reading has `Covered` the steady records up to its cursor. Those
  that match the filter and are not beyond the cursor have been given, those beyond it have
  not, each at most once and in order; at the end all have. Other records may have moved
  across the cursor meanwhile, so nothing is said of them.

For this the order of a view is the lexicographic order of the vectors of sort values
(`Less`): it is transitive, and total on records because the id breaks ties. That a finite
set of records has a list in this order, which the `CHOOSE` of `InOrder` needs, is proved
by adding one record at a time. A page is then a beginning of the list of what is beyond
the cursor, and the next cursor is its end.

Of the snapshots, `OneSnapshotPerOperation` and `AnswerFitsRequest` are proved from
`BindingInv`: a stored or prepared snapshot is of a state the record had and fits the
request whose hash it carries, operations are unique among the stored ones, and an answer
is a stored snapshot with the hash of its request. The last part is needed because the
caller of an answer and the creator of its snapshot may differ: they agree through the
hash.

Of the onboarding, `ThreePeople` and `AuditTellsChanges` are proved from `OnboardingInv`:
the roles in a record are of distinct people in each status, revisions grow so that a
revision determines its change, and every change is in the audit log, about to be
appended, or one of the lost appends.

## 6. What is only model-checked

- Liveness (`EventuallySettled`, `CommandsFinish`, `RebuildsFinish`,
  `GenerationCatchesUp`): out of the prover's reach.
- `FailsOnlyForCause` beyond two rebuilds or with two workers on one operation: it is false
  there (section 4). The part "live" of the run has two workers and bounds the revision of
  their operation, so that one of them stages.
- The part "runtime" of the run `catalog` starts from a catalog in use and adds nothing to
  what is proved: the theorems are about every behaviour from the empty catalog.

In the runs no message fails the mapping step of the pipeline; safety for such messages
rests on the theorems.

## 7. Plan

Done: every component of section 1 that carries the program's logic is modelled, and every
safety property of the runs is stated by a theorem. What could be added:

1. An abstract specification of the feed (a log and a position per client), of which the
   theorems about streams would be the refinement.
2. Nested objects in the compatibility report; principal rotation, once a binary uses it.

## 8. Not modelled

Authorization and token verification (cryptography and tables; the models take an
authorized caller or one verdict), HTTP decoding and error codes, the operations view
(read-only aggregation), the registry of connectors and principal rotation (no binary of
the repository constructs them), wiring and configuration, metrics and the rate limiter,
SDKs, tools and the web console. String escapes of the canonical form and semantic types
are left out. Time is abstracted: timers may fire at any moment, deadlines make a call
fail, and retention windows are not reached.
