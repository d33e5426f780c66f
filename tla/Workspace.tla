------------------------------ MODULE Workspace ------------------------------
(***************************************************************************)
(* The definitions of a workspace (modules/records): workspaces, tables,     *)
(* views, secondary indexes and tag dictionaries, and the tags that records  *)
(* are given under the dictionaries.                                        *)
(*                                                                          *)
(* One tenant and one workspace.  A request has passed authentication and    *)
(* membership and the checks of its own shape (Validate).  None of these     *)
(* operations runs in a transaction: every read and every write is a step.   *)
(* Schema versions are the environment: a draft may be edited until it is    *)
(* published and never after (SchemaRegistry!UpdateDraft).                   *)
(***************************************************************************)
EXTENDS Integers, FiniteSets

CONSTANTS
  Users,         \* requests handled concurrently
  SchemaVersions, \* versions of the schema
  Fields,        \* top-level properties a schema may have
  Tables,        \* table ids, positive numbers in the order of their names
  Ids,           \* ids of workspaces and views
  IndexIds,      \* ids of indexes
  Names,         \* names of tables and views
  Entries,       \* entry lists that callers save: functions from raw tag ids
  TagLists,      \* sets of raw tag ids that records are written with
  FirstRevisions, \* revisions that callers propose for a new dictionary
  Lower(_),      \* NormalizeTagID on a raw tag id
  SeededTables,  \* tables that exist at the start, pinned to FirstVersion
  FirstVersion,  \* the version published at the start
  FirstFields,   \* its properties
  DraftFields,   \* the property sets that a draft has when it is published
  Directions,    \* index directions
  MaxIndexes,    \* maxIndexesPerTable
  MaxListed,     \* dictionaries that ListTagDictionaries returns
  MaxRequests,   \* bound: requests of one behaviour
  MaxFailures    \* bound: failures of a write, and stops of the process

ASSUME WorkspaceAssumption ==
  /\ IsFiniteSet(Users)
  /\ Tables \subseteq Nat \ {0} /\ SeededTables \subseteq Tables \cap Names
  /\ FirstVersion \in SchemaVersions /\ FirstFields \subseteq Fields
  /\ DraftFields \subseteq SUBSET Fields /\ FirstRevisions \subseteq Nat \ {0}
  /\ \A e \in Entries : \A t, u \in DOMAIN e : Lower(t) = Lower(u) => t = u \* Validate
  /\ MaxIndexes \in Nat \ {0} /\ MaxListed \in Nat /\ MaxRequests \in Nat /\ MaxFailures \in Nat

VARIABLES
  published,     \* schema versions that are PUBLISHED
  properties,    \* properties[v]: the properties of version v
  workspaces,    \* workspace ids
  tables,        \* table documents
  views,         \* view documents
  indexes,       \* index metadata
  physical,      \* indexes that the record collection really has
  dictionaries,  \* dictionaries[scope]: scope 0 is the workspace, n is table n
  audit,         \* audit entries of the dictionaries
  work,          \* work[c]: step and request of caller c and what it has read
  acks,          \* ghost: requests answered with success, numbered
  stranded,      \* ghost: ids of index metadata that a failed clean-up or a stop left
  unaudited,     \* ghost: dictionary revisions saved without an audit entry
  requests, failures

schemaVars == <<published, properties>>
indexVars  == <<indexes, physical, stranded>>
tagVars    == <<dictionaries, audit, unaudited>>
workspaceVars  == <<workspaces, tables, views, indexVars, tagVars>>
wvars == <<schemaVars, workspaceVars, work, acks, requests, failures>>

Scopes == {0} \cup Tables
Envelope == {"id"}                         \* stands for the envelope fields
NoEntries == [t \in {} |-> 0]
NoDictionary == [revision |-> 0, entries |-> NoEntries]

NoWork == [op |-> "none"]
IdleWork == [step |-> "idle", request |-> NoWork, read |-> NoDictionary, number |-> 0]

WorkspaceInit ==
  /\ published = {FirstVersion}
  /\ properties = [v \in SchemaVersions |-> IF v = FirstVersion THEN FirstFields ELSE {}]
  /\ workspaces = {} /\ views = {} /\ indexes = {} /\ physical = {}
  /\ tables = {[id |-> t, name |-> t, version |-> FirstVersion] : t \in SeededTables}
  /\ dictionaries = [s \in Scopes |-> NoDictionary]
  /\ audit = {} /\ work = [c \in Users |-> IdleWork]
  /\ acks = {} /\ stranded = {} /\ unaudited = {}
  /\ requests = 0 /\ failures = 0

-----------------------------------------------------------------------------
(* The tag dictionaries.                                                     *)

Saved == {s \in Scopes : dictionaries[s].revision > 0}

\* ListTagDictionaries: the first MaxListed in the order of workspace and table.
ListTagDictionaries == {s \in Saved : Cardinality({u \in Saved : u < s}) < MaxListed}

\* An entry replaces the earlier ones with its normalised id.
Merge(resolved, entries) ==
  LET new == {Lower(t) : t \in DOMAIN entries}
  IN  [id \in DOMAIN resolved \cup new |->
         IF id \in new THEN entries[CHOOSE t \in DOMAIN entries : Lower(t) = id]
         ELSE resolved[id]]
ListedEntries(scope) ==
  IF scope \in ListTagDictionaries THEN dictionaries[scope].entries ELSE NoEntries

\* Mutant: the workspace's dictionary overrides that of the table.
ResolveMostSpecificFirst(table) ==
  [found |-> ListTagDictionaries \cap {0, table} # {},
   entries |-> Merge(Merge(NoEntries, ListedEntries(table)), ListedEntries(0))]

\* resolveTagDictionary: the listed dictionaries of the table, the least specific
\* first, each overriding the one before.
ResolveTagDictionary(table) ==
  [found |-> ListTagDictionaries \cap {0, table} # {},
   entries |-> Merge(Merge(NoEntries, ListedEntries(0)), ListedEntries(table))]

\* ValidateAssignments: after normalizeTags has dropped repeated raw ids, two raw
\* ids of one tag are refused, and so is a tag that is unknown or inactive, or a
\* second tag of a group.
ValidateAssignments(entries, tags) ==
  /\ \A t \in tags : Lower(t) \in DOMAIN entries /\ entries[Lower(t)].active
  /\ \A t, u \in tags :
       t # u => Lower(t) # Lower(u) /\ entries[Lower(t)].group # entries[Lower(u)].group
NormalizeRecordTags(table, tags) ==
  LET dictionary == ResolveTagDictionary(table)
  IN  dictionary.found => ValidateAssignments(dictionary.entries, tags)

-----------------------------------------------------------------------------
(* The published schema of a table, and the fields it allows.                *)

Table(t) == {d \in tables : d.id = t}
SchemaOf(t) == (CHOOSE d \in Table(t) : TRUE).version
PublishedSchema(t) == Table(t) # {} /\ SchemaOf(t) \in published
\* validateViewSchemaFields and validateIndexSchemaField.
ViewFieldsAllowed(t, fields) == fields \subseteq Envelope \cup properties[SchemaOf(t)]
IndexFieldAllowed(t, field) == field \in properties[SchemaOf(t)] \ Envelope

\* ListIndexes returns at most MaxIndexes documents of the table, by field,
\* direction and id: no fewer than that when there are more.
IndexesOf(t) == {i \in indexes : i.table = t}

\* The checks of CreateIndex between its reads and its insert.
IndexRefused(q) ==
  \/ ~PublishedSchema(q.table)
  \/ ~IndexFieldAllowed(q.table, q.field)
  \/ \E i \in IndexesOf(q.table) : i.field = q.field /\ i.direction = q.direction
  \/ Cardinality(IndexesOf(q.table)) >= MaxIndexes

-----------------------------------------------------------------------------
(* What callers send.  An expected version or revision is one the caller has *)
(* been shown.                                                               *)

WorkspaceRequests == [op : {"workspace"}, id : Ids]
TableRequests == [op : {"table"}, id : Tables, name : Names, version : SchemaVersions]
ViewFields == {{f} : f \in Fields \cup Envelope}
ViewRequests == [op : {"view"}, id : Ids, table : Tables, name : Names, fields : ViewFields]
ViewUpdates(v) ==
  [op : {"update"}, id : {v.id}, table : {v.table}, name : Names, fields : ViewFields,
   expected : 1 .. v.version]
IndexRequests ==
  [op : {"index"}, id : IndexIds, table : Tables, field : Fields, direction : Directions]
\* Validate wants a positive revision; any will do for a new dictionary.
Saves(s, expected, revisions) ==
  [op : {"save"}, scope : {s}, entries : Entries, expected : {expected}, revision : revisions]
SaveRequests(s) ==
  Saves(s, 0, FirstRevisions) \cup UNION {Saves(s, r, {r + 1}) : r \in 1 .. dictionaries[s].revision}
Requested ==
  WorkspaceRequests \cup TableRequests \cup ViewRequests \cup IndexRequests
  \cup (UNION {ViewUpdates(v) : v \in views}) \cup (UNION {SaveRequests(s) : s \in Scopes})

-----------------------------------------------------------------------------
Req(c) == work[c].request
AtStep(c, step) == work[c].step = step
GoTo(c, step) == work' = [work EXCEPT ![c].step = step]
Stop(c) == work' = [work EXCEPT ![c] = IdleWork]
Succeed(c) ==
  /\ acks' = acks \cup {[request |-> Req(c), number |-> work[c].number]}
  /\ Stop(c)
Fault == failures < MaxFailures /\ failures' = failures + 1

\* The first part of each handler, up to its write: the reads and the checks.  The
\* documents read before the last read (a table, a published schema) never change
\* or go away, so the reads are one step.  A refused request changes nothing.
TableAccepted(q) == q.version \in published

ViewAccepted(q) == PublishedSchema(q.table) /\ ViewFieldsAllowed(q.table, q.fields)
UpdateAccepted(q) == PublishedSchema(q.table) /\ ViewFieldsAllowed(q.table, q.fields)
RequestAccepted(q) ==
  CASE q.op = "table"  -> TableAccepted(q)
    [] q.op = "view"   -> ViewAccepted(q)
    [] q.op = "update" -> UpdateAccepted(q)
    [] q.op = "index"  -> ~IndexRefused(q)
    [] OTHER -> TRUE

\* The dictionary read for the audit entry.
Before(q) == IF q.op = "save" THEN dictionaries[q.scope] ELSE NoDictionary

Handle(c) ==
  /\ AtStep(c, "idle") /\ requests < MaxRequests
  /\ \E q \in Requested :
       /\ RequestAccepted(q)
       /\ work' = [work EXCEPT ![c] = [step |-> q.op, request |-> q, read |-> Before(q),
                                       number |-> requests + 1]]
  /\ requests' = requests + 1
  /\ UNCHANGED <<schemaVars, workspaceVars, acks, failures>>

\* An insert that a unique index refuses.
Duplicate(c) ==
  LET q == Req(c)
  IN  \/ AtStep(c, "workspace") /\ q.id \in workspaces
      \/ AtStep(c, "table") /\ \E d \in tables : d.id = q.id \/ d.name = q.name
      \/ AtStep(c, "view") /\ \E v \in views : v.id = q.id \/ (v.table = q.table /\ v.name = q.name)
      \/ AtStep(c, "index") /\ \E i \in indexes :
           i.id = q.id \/ (i.table = q.table /\ i.field = q.field /\ i.direction = q.direction)
      \/ AtStep(c, "save") /\ q.expected = 0 /\ dictionaries[q.scope].revision > 0
RefuseDuplicate(c) ==
  /\ Duplicate(c)
  /\ Stop(c)
  /\ UNCHANGED <<schemaVars, workspaceVars, acks, requests, failures>>

CreateWorkspace(c) ==
  /\ AtStep(c, "workspace") /\ ~Duplicate(c)
  /\ workspaces' = workspaces \cup {Req(c).id}
  /\ Succeed(c)
  /\ UNCHANGED <<schemaVars, tables, views, indexVars, tagVars, requests, failures>>

CreateTable(c) ==
  /\ AtStep(c, "table") /\ ~Duplicate(c)
  /\ tables' = tables \cup {[id |-> Req(c).id, name |-> Req(c).name, version |-> Req(c).version]}
  /\ Succeed(c)
  /\ UNCHANGED <<schemaVars, workspaces, views, indexVars, tagVars, requests, failures>>

\* An insert at version 1.
CreateView(c) ==
  LET q == Req(c)
  IN
  /\ AtStep(c, "view") /\ ~Duplicate(c)
  /\ views' = views \cup {[id |-> q.id, table |-> q.table, name |-> q.name, fields |-> q.fields,
                           version |-> 1]}
  /\ Succeed(c)
  /\ UNCHANGED <<schemaVars, workspaces, tables, indexVars, tagVars, requests, failures>>

\* Mutant: the expected version is not compared.
MatchingAnyVersion(q) == {v \in views : v.id = q.id}

\* The update is filtered by the expected version; a name that another view of
\* the table has is refused by the unique index.
Matching(q) == {v \in views : v.id = q.id /\ v.version = q.expected}
NameTaken(q) == \E v \in views : v.id # q.id /\ v.table = q.table /\ v.name = q.name
UpdateView(c) ==
  LET q == Req(c)
  IN
  /\ AtStep(c, "update")
  /\ IF Matching(q) = {} \/ NameTaken(q)
     THEN Stop(c) /\ UNCHANGED <<views, acks>>
     ELSE /\ views' = {v \in views : v.id # q.id}
                        \cup {[id |-> v.id, table |-> v.table, name |-> q.name,
                               fields |-> q.fields, version |-> v.version + 1] :
                                 v \in Matching(q)}
          /\ Succeed(c)
  /\ UNCHANGED <<schemaVars, workspaces, tables, indexVars, tagVars, requests, failures>>

-----------------------------------------------------------------------------
(* CreateIndex: the metadata first, then the index itself.  The index belongs *)
(* to the collection all tables share, so its name is its field and direction. *)

InsertIndex(c) ==
  LET q == Req(c)
  IN
  /\ AtStep(c, "index") /\ ~Duplicate(c)
  /\ indexes' = indexes \cup {[id |-> q.id, table |-> q.table, field |-> q.field,
                               direction |-> q.direction]}
  /\ GoTo(c, "ddl")
  /\ UNCHANGED <<schemaVars, workspaces, tables, views, physical, stranded, tagVars, acks,
                 requests, failures>>

BuildIndex(c) ==
  /\ AtStep(c, "ddl")
  /\ physical' = physical \cup {<<Req(c).field, Req(c).direction>>}
  /\ Succeed(c)
  /\ UNCHANGED <<schemaVars, workspaces, tables, views, indexes, stranded, tagVars, requests, failures>>

BuildFails(c) ==
  /\ AtStep(c, "ddl") /\ Fault
  /\ GoTo(c, "cleanup")
  /\ UNCHANGED <<schemaVars, workspaceVars, acks, requests>>

\* Mutant: the metadata stays after a failed build.
RemoveNothing(c) ==
  /\ AtStep(c, "cleanup")
  /\ Stop(c)
  /\ UNCHANGED <<schemaVars, workspaceVars, acks, requests, failures>>

\* The metadata of an index that could not be built is removed.
RemoveIndex(c) ==
  /\ AtStep(c, "cleanup")
  /\ indexes' = {i \in indexes : i.id # Req(c).id}
  /\ Stop(c)
  /\ UNCHANGED <<schemaVars, workspaces, tables, views, physical, stranded, tagVars, acks, requests,
                 failures>>

\* The delete of the clean-up fails (its error is dropped), or the process stops
\* before the index is built or the metadata removed.
LeaveIndex(c) ==
  /\ AtStep(c, "ddl") \/ AtStep(c, "cleanup")
  /\ Fault
  /\ stranded' = stranded \cup {Req(c).id}
  /\ Stop(c)
  /\ UNCHANGED <<schemaVars, workspaces, tables, views, indexes, physical, tagVars, acks, requests>>

-----------------------------------------------------------------------------
(* SaveTagDictionary: the insert or the filtered update, then the audit entry, *)
(* whose before hash is of the dictionary read first.                          *)

\* Mutant: the update is not filtered by the revision.
SaveAnyRevision(c) ==
  /\ AtStep(c, "save") /\ ~Duplicate(c)
  /\ dictionaries' = [dictionaries EXCEPT ![Req(c).scope] =
                        [revision |-> Req(c).revision, entries |-> Req(c).entries]]
  /\ GoTo(c, "audit")
  /\ UNCHANGED <<schemaVars, workspaces, tables, views, indexVars, audit, unaudited, acks, requests,
                 failures>>

SaveTagDictionary(c) ==
  LET q == Req(c)
  IN
  /\ AtStep(c, "save") /\ ~Duplicate(c)
  /\ IF dictionaries[q.scope].revision # q.expected
     THEN Stop(c) /\ UNCHANGED dictionaries
     ELSE /\ dictionaries' = [dictionaries EXCEPT ![q.scope] =
                                [revision |-> q.revision, entries |-> q.entries]]
          /\ GoTo(c, "audit")
  /\ UNCHANGED <<schemaVars, workspaces, tables, views, indexVars, audit, unaudited, acks, requests,
                 failures>>

AuditEntry(c) ==
  [scope |-> Req(c).scope, version |-> Req(c).revision, before |-> work[c].read,
   after |-> [revision |-> Req(c).revision, entries |-> Req(c).entries]]

AppendAudit(c) ==
  /\ AtStep(c, "audit")
  /\ audit' = audit \cup {AuditEntry(c)}
  /\ Succeed(c)
  /\ UNCHANGED <<schemaVars, workspaces, tables, views, indexVars, dictionaries, unaudited, requests,
                 failures>>

\* The append fails, or the process stops: the dictionary stays saved.
AuditFails(c) ==
  /\ AtStep(c, "audit") /\ Fault
  /\ unaudited' = unaudited \cup {AuditEntry(c)}
  /\ Stop(c)
  /\ UNCHANGED <<schemaVars, workspaces, tables, views, indexVars, dictionaries, audit, acks, requests>>

-----------------------------------------------------------------------------
(* The schema registry, as far as these operations see it.                   *)

\* A draft, edited until then, is published; its content no longer changes.
PublishVersion ==
  /\ \E v \in SchemaVersions \ published, p \in DraftFields :
       /\ published' = published \cup {v}
       /\ properties' = [properties EXCEPT ![v] = p]
  /\ UNCHANGED <<workspaceVars, work, acks, requests, failures>>

WorkspaceNext ==
  \/ \E c \in Users :
       \/ Handle(c) \/ RefuseDuplicate(c)
       \/ CreateWorkspace(c) \/ CreateTable(c) \/ CreateView(c) \/ UpdateView(c)
       \/ InsertIndex(c) \/ BuildIndex(c) \/ BuildFails(c) \/ RemoveIndex(c) \/ LeaveIndex(c)
       \/ SaveTagDictionary(c) \/ AppendAudit(c) \/ AuditFails(c)
  \/ PublishVersion

WorkspaceSpec == WorkspaceInit /\ [][WorkspaceNext]_wvars

-----------------------------------------------------------------------------
Steps == {"idle", "workspace", "table", "view", "update", "index", "ddl", "cleanup", "save",
          "audit"}
WorkspaceTypeOK ==
  /\ published \subseteq SchemaVersions /\ properties \in [SchemaVersions -> SUBSET Fields]
  /\ workspaces \subseteq Ids
  /\ tables \subseteq [id : Tables, name : Names, version : SchemaVersions]
  /\ \A v \in views : v.id \in Ids /\ v.table \in Tables /\ v.name \in Names /\ v.version > 0
  /\ indexes \subseteq [id : IndexIds, table : Tables, field : Fields, direction : Directions]
  /\ physical \subseteq Fields \X Directions /\ stranded \subseteq IndexIds
  /\ \A s \in Scopes : dictionaries[s].revision \in Nat
                       /\ dictionaries[s].entries \in Entries \cup {NoEntries}
  /\ \A c \in Users : work[c].step \in Steps
  /\ requests \in 0 .. MaxRequests /\ failures \in 0 .. MaxFailures

\* What a request competes for: a new id, a version of a view, a revision of a
\* dictionary.
Claim(q) ==
  CASE q.op = "update" -> <<"update", q.id, q.expected>>
    [] q.op = "save" -> <<"save", q.scope, q.expected>>
    [] OTHER -> <<q.op, q.id, 0>>

\* Of the requests that create one id, update one version of a view or replace one
\* revision of a dictionary, at most one is told that it succeeded (the unique
\* indexes and the filtered updates of the repository).
OneWinner ==
  \A a, b \in acks : Claim(a.request) = Claim(b.request) => a = b

\* The fields of a view or an index are properties of the schema version its table
\* is pinned to, whatever drafts were edited or published meanwhile.
DefinitionsFitSchema ==
  /\ \A v \in views : PublishedSchema(v.table) /\ ViewFieldsAllowed(v.table, v.fields)
  /\ \A i \in indexes : PublishedSchema(i.table) /\ IndexFieldAllowed(i.table, i.field)

\* Index metadata whose creation is over describes an index the collection has,
\* unless the clean-up after a failed build was itself lost.
MetadataHasIndex ==
  \A i \in indexes :
    \/ <<i.field, i.direction>> \in physical
    \/ i.id \in stranded
    \/ \E c \in Users : work[c].step \in {"ddl", "cleanup"} /\ Req(c).id = i.id

\* CreateIndex counts the indexes of the table before it inserts, so callers that
\* count together may pass the limit, by less than their number.
IndexOvershootIsBounded ==
  \A t \in Tables : Cardinality(IndexesOf(t)) <= MaxIndexes + Cardinality(Users) - 1

\* A stored view or index can be served: its fields are in the published schema of its
\* table, the collection has the index, and callers who create indexes together pass
\* the limit by less than their number.
DefinitionsAreSound == DefinitionsFitSchema /\ MetadataHasIndex /\ IndexOvershootIsBounded

\* The saves of a dictionary, audited, about to be audited, or left unaudited.
SavesOf(scope) ==
  {e \in audit \cup unaudited \cup {AuditEntry(c) : c \in {d \in Users : AtStep(d, "audit")}} :
     e.scope = scope}

\* The audit entry of a revision names as its before state the revision it replaced,
\* and the first one none: the dictionary read before the write is the one that the
\* write replaces, since a caller expects a revision it has been shown.
AuditNamesReplaced ==
  \A e \in audit :
    \/ e.version = e.before.revision + 1 /\ \E p \in SavesOf(e.scope) : p.after = e.before
    \/ e.before = NoDictionary /\ \A p \in SavesOf(e.scope) : e.version <= p.version

\* The dictionary in force is the newest one saved, and each save is audited unless
\* its append failed.
NewestRevisionInForce ==
  \A s \in Saved :
    \E e \in SavesOf(s) :
      e.after = dictionaries[s] /\ \A f \in SavesOf(s) : f.version <= e.version

\* The audit log tells the history of a dictionary: each save names the one it replaced,
\* and what is in force is the newest, whoever saves meanwhile or dies before the append.
DictionaryTrail == AuditNamesReplaced /\ NewestRevisionInForce

\* Reference: the most specific dictionary with an entry for a tag decides on it.
Naming(s, id) == {r \in DOMAIN dictionaries[s].entries : Lower(r) = id}
Deciding(t, id) ==
  LET scopes == {s \in Saved \cap {0, t} : Naming(s, id) # {}}
  IN  UNION {{dictionaries[s].entries[r] : r \in Naming(s, id)} :
               s \in {s \in scopes : \A u \in scopes : u <= s}}

\* normalizeRecordTags accepts exactly the tags that the most specific dictionaries
\* allow, as long as the tenant has no more dictionaries than one listing returns.
TagsFollowDictionaries ==
  Cardinality(Saved) <= MaxListed =>
    \A t \in Tables, tags \in TagLists :
      NormalizeRecordTags(t, tags) <=>
        Saved \cap {0, t} = {} \/
        /\ \A r \in tags : \E e \in Deciding(t, Lower(r)) : e.active
        /\ \A r, u \in tags : r # u =>
             /\ Lower(r) # Lower(u)
             /\ \A e \in Deciding(t, Lower(r)), f \in Deciding(t, Lower(u)) : e.group # f.group
=============================================================================
