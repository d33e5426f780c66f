------------------------ MODULE SchemaRegistryProofs ------------------------
(***************************************************************************)
(* Proofs about SchemaRegistry, for every set of versions, contents,       *)
(* callers and keys and any number of requests and faults; about the       *)
(* comparison of schemas, for every set of properties; and about the       *)
(* canonical form, for literals and documents of any size.                 *)
(***************************************************************************)
EXTENDS SchemaRegistry, FiniteSetTheorems, SequenceTheorems, WellFoundedInduction, TLAPS

-----------------------------------------------------------------------------
(* The comparison of two schemas. *)

\* Without a change of types or enum a property that is an object in both versions accepts
\* what it accepted.
LEMMA ObjectAccepts ==
  ASSUME NEW old \in Leaf, NEW new \in Leaf, NEW path, NEW value \in Values,
         CompareTypes(path, old, new) = {}, CompareEnum(path, old, new) = {},
         AcceptsValue(old, value)
  PROVE  AcceptsValue(new, value)
  <1>1. \A kind, messages : AddChanges(path, kind, messages) = {} => messages = {}
    BY DEF AddChanges
  <1>2. IF old.types = {} THEN new.types = {} \/ Accepted("any", new.types)
        ELSE new.types = {} \/ \A type \in old.types : Accepted(type, new.types)
    <2> DEFINE before == IF old.types = {} THEN {"any"} ELSE old.types
    <2>1. {type \in before : new.types # {} /\ ~Accepted(type, new.types)} = {}
      BY <1>1, Zenon DEF CompareTypes
    <2> QED
      BY <2>1
  <1>3. new.types \subseteq Types
    BY DEF Leaf, Anything, Nothing
  <1>4. ~Accepted("any", new.types)
    BY <1>3 DEF Types, Accepted
  <1>5. IF old.enum = NoEnum THEN new.enum = NoEnum \/ "any" \in new.enum
        ELSE new.enum = NoEnum \/ old.enum \subseteq new.enum
    <2> DEFINE before == IF old.enum = NoEnum THEN {"any"} ELSE old.enum
    <2>1. (IF new.enum = NoEnum THEN {} ELSE before \ new.enum) = {}
      BY <1>1, Zenon DEF CompareEnum
    <2> QED
      BY <2>1
  <1>6. new.enum \subseteq Values \/ new.enum = NoEnum
    BY DEF Leaf, Anything, Nothing
  <1>7. value \in new.enum
    <2>1. "any" \notin Values
      BY DEF Values
    <2> QED
      BY <1>5, <1>6, <2>1 DEF AcceptsValue, NoEnum
  <1>8. new.types = {} \/ TypesOf(value) \cap new.types # {}
    <2>1. CASE old.types = {}
      BY <1>2, <1>4, <2>1
    <2>2. CASE old.types # {} /\ new.types # {}
      <3>1. PICK type \in TypesOf(value) : type \in old.types
        BY <2>2 DEF AcceptsValue
      <3>2. type \in new.types \/ (type = "integer" /\ "number" \in new.types)
        BY <1>2, <2>2, <3>1 DEF Accepted
      <3>3. type = "integer" => "number" \in TypesOf(value)
        BY <3>1 DEF TypesOf
      <3> QED
        BY <3>1, <3>2, <3>3
    <2> QED
      BY <2>1, <2>2
  <1> QED
    BY <1>7, <1>8 DEF AcceptsValue

\* Of two property schemas that are not both objects nothing is compared.
LEMMA LeafAccepts ==
  ASSUME NEW old \in Leaf, NEW new \in Leaf, NEW path, NEW value \in Values,
         CompareLeaf(path, old, new) = {}, AcceptsValue(old, value),
         "boolean" \in {old.form, new.form} => old \in {Nothing, new} \/ new = Anything
  PROVE  AcceptsValue(new, value)
  <1>1. CASE old.form = "object" /\ new.form = "object"
    <2>1. CompareTypes(path, old, new) = {} /\ CompareEnum(path, old, new) = {}
      BY <1>1 DEF CompareLeaf
    <2> QED
      BY <2>1, ObjectAccepts
  <1>2. CASE ~(old.form = "object" /\ new.form = "object")
    <2>1. old \in {Nothing, new} \/ new = Anything
      BY <1>2 DEF Leaf, Anything, Nothing
    <2>2. ~AcceptsValue(Nothing, value)
      BY DEF AcceptsValue, Nothing
    <2>3. AcceptsValue(Anything, value)
      BY DEF AcceptsValue, Anything, NoEnum
    <2> QED
      BY <2>1, <2>2, <2>3
  <1> QED
    BY <1>1, <1>2

\* What an empty report says of each property.
LEMMA EmptyReport ==
  ASSUME NEW old \in Schema, NEW new \in Schema, Compatible(old, new)
  PROVE  /\ old.closed = new.closed
         /\ new.required \subseteq old.required
         /\ \A p \in Properties(old) :
              p \in Properties(new) /\ CompareLeaf(p, old.leaf[p], new.leaf[p]) = {}
  <1>0. \A path, kind, condition : AddChange(path, kind, condition) = {} => ~condition
    BY DEF AddChange, AddChanges
  <1>1. CompareSchema(old, new) = {}
    BY DEF Compatible
  <1>2. old.closed = new.closed
    <2>1. CompareOtherConstraints(old, new) = {}
      BY <1>1, Zenon DEF CompareSchema
    <2> QED
      BY <1>0, <2>1, Zenon DEF CompareOtherConstraints
  <1>3. \A p \in new.required \ old.required : AddChange(p, "required-added", TRUE) = {}
    BY <1>1, Zenon DEF CompareSchema
  <1>4. new.required \subseteq old.required
    BY <1>0, <1>3, Zenon
  <1>5. ASSUME NEW p \in Properties(old)
        PROVE  IF p \notin Properties(new) THEN AddChange(p, "property-removed", TRUE) = {}
               ELSE CompareLeaf(p, old.leaf[p], new.leaf[p]) = {}
    <2>1. CompareProperty(p, old, new) = {}
      <3> SUFFICES ASSUME NEW c \in CompareProperty(p, old, new) PROVE FALSE
        OBVIOUS
      <3>1. c \in UNION {CompareProperty(q, old, new) : q \in Properties(old)}
        BY Zenon
      <3>2. c \in CompareSchema(old, new)
        BY <3>1, Zenon DEF CompareSchema
      <3> QED
        BY <1>1, <3>2
    <2> QED
      BY <2>1 DEF CompareProperty
  <1> QED
    BY <1>0, <1>2, <1>4, <1>5, Zenon

\* CheckBackwardCompatibility, for every pair of schemas over every set of properties: a
\* candidate without a reported change accepts every instance that the old schema
\* accepts, unless it declares a property that the open old schema left undeclared, or
\* one of them has true or false where the other has another property schema.
THEOREM CompatiblePreserves ==
  ASSUME NEW old \in Schema, NEW new \in Schema,
         Compatible(old, new), ~DeclaresMore(old, new), ~LeavesUncompared(old, new)
  PROVE  Preserves(old, new)
  <1> SUFFICES ASSUME NEW instance \in Instances, Accepts(old, instance)
               PROVE  Accepts(new, instance)
    BY DEF Preserves
  <1>1. /\ old.closed = new.closed
        /\ new.required \subseteq old.required
        /\ \A p \in Properties(old) :
             p \in Properties(new) /\ CompareLeaf(p, old.leaf[p], new.leaf[p]) = {}
    BY EmptyReport
  <1>2. ASSUME NEW p \in DOMAIN instance \cap Properties(new)
        PROVE  AcceptsValue(new.leaf[p], instance[p])
    <2>1. p \in Properties(old)
      <3>1. CASE old.closed
        BY <3>1 DEF Accepts
      <3>2. CASE ~old.closed
        BY <3>2 DEF DeclaresMore
      <3> QED
        BY <3>1, <3>2
    <2>2. old.leaf[p] \in Leaf /\ new.leaf[p] \in Leaf
      BY <2>1 DEF Schema, Properties
    <2>3. instance[p] \in Values
      BY DEF Instances
    <2>4. AcceptsValue(old.leaf[p], instance[p])
      BY <2>1 DEF Accepts
    <2>5. "boolean" \in {old.leaf[p].form, new.leaf[p].form} =>
            old.leaf[p] \in {Nothing, new.leaf[p]} \/ new.leaf[p] = Anything
      BY <2>1, Zenon DEF LeavesUncompared
    <2>6. CompareLeaf(p, old.leaf[p], new.leaf[p]) = {}
      BY <1>1, <2>1
    <2> QED
      BY <2>2, <2>3, <2>4, <2>5, <2>6, LeafAccepts
  <1> QED
    BY <1>1, <1>2 DEF Accepts

\* The same of the versions and candidates of a registry, at every moment.
THEOREM CompatibilityIsSafe == RegistrySpec => []CompatibleIsSafe
  <1>1. CompatibleIsSafe
    BY RegistryAssumption, CompatiblePreserves DEF CompatibleIsSafe, ReportsAreSound
  <1> QED
    BY <1>1, PTL
-----------------------------------------------------------------------------
(* The registry: invariants. *)

DefinitionSet ==
  [status : {"NONE", "DRAFT", "PUBLISHED"}, revision : Nat, content : Contents,
   hash : SUBSET Contents]
RequestSet ==
  [op : {"none", "create", "update", "publish", "plan", "cancel"},
   key : Keys \cup {"none"}, number : Nat, to : Nat, content : Contents, expected : Nat]
ReportSet == {NoReport} \cup UNION {Reports(old, new) : old \in Contents, new \in Contents}
PlanSet ==
  [id : Nat, print : [from : Versions, to : Versions, report : ReportSet],
   against : {"NONE", "DRAFT", "PUBLISHED"},
   status : {"NONE", "DRAFT", "CANCELLED", "CANCEL_REQUESTED"}, version : Nat]
CallSteps == {"idle", "from", "to", "plan", "receipt", "fingerprint", "read", "commit"}
CallSet == [step : CallSteps, request : RequestSet, from : DefinitionSet, to : DefinitionSet,
            report : ReportSet, plan : SUBSET PlanSet]

StoreTypes ==
  /\ Contents # {}
  /\ defs \in [Versions -> DefinitionSet]
  /\ \A v \in Versions : defs[v].status = "NONE" => defs[v].revision = 0
CallTypes == call \in [Callers -> CallSet]

\* A published version carries the hash of its content.
HashesMatch ==
  \A v \in Versions : defs[v].status = "PUBLISHED" => defs[v].hash = HashOf(defs[v].content)

\* A definition d that was read of version v: its revision is not ahead, and if the
\* version has the same revision, or d was published, d is what the version is.
ReadOf(d, v) ==
  /\ v \in Versions
  /\ d.revision <= defs[v].revision
  /\ d.revision = defs[v].revision \/ d.status = "PUBLISHED" =>
       d.status = defs[v].status /\ d.content = defs[v].content

\* What a request is about; `expected' comes from an answer.
About(q) ==
  /\ q.op \in {"create", "update", "publish", "plan"} => q.number \in Versions
  /\ q.op \in {"update", "publish"} => q.expected <= defs[q.number].revision
  /\ q.op = "plan" => q.to \in Versions

\* What the caller has read by the time it writes.
Knows(c) ==
  /\ About(c.request)
  /\ c.request.op = "plan" =>
       /\ c.step \in {"idle", "from", "to", "receipt", "fingerprint", "commit"}
       /\ c.step \in {"to", "receipt", "fingerprint", "commit"} =>
            c.from.status = "PUBLISHED" /\ ReadOf(c.from, c.request.number)
       /\ c.step \in {"receipt", "fingerprint", "commit"} =>
            ReadOf(c.to, c.request.to) /\ c.report \in Reports(c.from.content, c.to.content)
  /\ c.request.op = "publish" /\ c.step = "commit" =>
       c.request.expected <= c.from.revision /\ ReadOf(c.from, c.request.number)
  /\ c.request.op = "none" => c.step = "idle"
  /\ c.step \in {"from", "to", "fingerprint"} => c.request.op = "plan"
CallersKnow == \A w \in Callers : Knows(call[w])

\* Plans have the ids 1, 2, ..., one each.
PlanIdsUnique ==
  /\ IsFiniteSet(plans)
  /\ plans \subseteq PlanSet
  /\ \A p \in plans : p.id \in 1 .. Cardinality(plans) /\ p.version \in Nat \ {0}
  /\ \A p, q \in plans : p.id = q.id => p = q

PlansSound ==
  /\ \A p, q \in plans : p.print = q.print => p = q
  /\ \A p \in plans :
       /\ p.print.from \in Versions /\ p.print.to \in Versions
       /\ defs[p.print.from].status = "PUBLISHED"
       /\ p.against = "PUBLISHED" =>
            /\ defs[p.print.to].status = "PUBLISHED"
            /\ p.print.report \in Reports(defs[p.print.from].content, defs[p.print.to].content)

\* Receipts are finite in number, and one of a cancellation is of a plan there is.
ReceiptsCount ==
  /\ IsFiniteSet(receipts)
  /\ EachChangeHasOneReceipt
  /\ \A e \in receipts : e.hash.op = "cancel" => e.hash.number \in 1 .. Cardinality(plans)

RegistryInv ==
  StoreTypes /\ CallTypes /\ HashesMatch /\ CallersKnow /\ PlanIdsUnique /\ PlansSound
  /\ ReceiptsCount
-----------------------------------------------------------------------------
(* What a caller sends and knows. *)

LEMMA EmptyTypes ==
  ASSUME Contents # {}
  PROVE  AnyContent \in Contents /\ NoDefinition \in DefinitionSet /\ NoRequest \in RequestSet
         /\ Idle \in CallSet
  <1>1. AnyContent \in Contents
    BY Zenon DEF AnyContent
  <1>2. NoDefinition \in DefinitionSet /\ NoRequest \in RequestSet
    BY <1>1 DEF NoDefinition, NoHash, DefinitionSet, NoRequest, RequestSet
  <1>3. NoReport \in ReportSet
    BY DEF ReportSet
  <1> QED
    BY <1>1, <1>2, <1>3 DEF Idle, CallSet, CallSteps

\* A report of two contents is one of the reports there are.
LEMMA ReportsAre ==
  ASSUME NEW old \in Contents, NEW new \in Contents, NEW report \in Reports(old, new)
  PROVE  report \in ReportSet
  <1> DEFINE all == {Reports(from, to) : from \in Contents, to \in Contents}
  <1>1. PICK some : some = Reports(old, new) /\ some \in all
    OBVIOUS
  <1>2. report \in some
    BY <1>1
  <1>3. ReportSet = {NoReport} \cup UNION all
    BY DEF ReportSet
  <1> HIDE DEF all
  <1> QED
    BY <1>1, <1>2, <1>3

\* A request has its types and is about what there is.
LEMMA SentRequests ==
  ASSUME StoreTypes, PlanIdsUnique,
         NEW q \in CreateRequests \cup UpdateRequests \cup PublishRequests
                   \cup PlanRequests \cup CancelRequests
  PROVE  q \in RequestSet /\ q.op # "none" /\ About(q)
  <1> USE RegistryAssumption DEF StoreTypes
  <1>0. AnyContent \in Contents
    BY EmptyTypes
  <1>1. CASE q \in CreateRequests
    <2>1. q.number \in Versions
      BY <1>1 DEF CreateRequests
    <2>2. q.number \in Nat
      BY <2>1
    <2> QED
      BY <1>1, <2>1, <2>2 DEF CreateRequests, RequestSet, About
  <1>2. CASE q \in UpdateRequests
    <2>1. PICK v \in Versions :
            q \in [op : {"update"}, key : Keys, number : {v}, to : {0}, content : Contents,
                   expected : 1 .. Least(defs[v].revision, MaxRevision - 2)]
      BY <1>2 DEF UpdateRequests
    <2>2. q.expected \in Nat /\ q.expected <= defs[v].revision
      BY <2>1 DEF Least, DefinitionSet
    <2> QED
      BY <2>1, <2>2 DEF RequestSet, About
  <1>3. CASE q \in PublishRequests
    <2>1. PICK v \in Versions :
            q \in [op : {"publish"}, key : Keys, number : {v}, to : {0}, content : {AnyContent},
                   expected : 1 .. defs[v].revision]
      BY <1>3 DEF PublishRequests
    <2>2. q.expected \in Nat /\ q.expected <= defs[v].revision
      BY <2>1 DEF DefinitionSet
    <2> QED
      BY <1>0, <2>1, <2>2 DEF RequestSet, About
  <1>4. CASE q \in PlanRequests
    <2>1. q.number \in Versions /\ q.to \in Versions
      BY <1>4 DEF PlanRequests
    <2>2. q.number \in Nat /\ q.to \in Nat
      BY <2>1
    <2> QED
      BY <1>0, <1>4, <2>1, <2>2 DEF PlanRequests, RequestSet, About
  <1>5. CASE q \in CancelRequests
    <2>1. PICK p \in plans :
            q \in [op : {"cancel"}, key : Keys, number : {p.id}, to : {0}, content : {AnyContent},
                   expected : 1 .. p.version]
      BY <1>5 DEF CancelRequests
    <2>2. q.expected \in Nat /\ p.id \in Nat
      BY <2>1, FS_CardinalityType DEF PlanIdsUnique
    <2> QED
      BY <1>0, <2>1, <2>2 DEF RequestSet, About
  <1> QED
    BY <1>1, <1>2, <1>3, <1>4, <1>5

\* How definitions move: revisions count the changes, and none follows a publication.
DefinitionsMove ==
  \A v \in Versions :
    /\ defs[v].revision <= defs'[v].revision
    /\ defs[v].revision = defs'[v].revision \/ defs[v].status = "PUBLISHED" =>
         defs'[v].status = defs[v].status /\ defs'[v].content = defs[v].content
         /\ defs'[v].revision = defs[v].revision /\ defs'[v].hash = defs[v].hash

\* What was read stays a read of its version, and what a caller knows stays known.
LEMMA ReadLasts ==
  ASSUME StoreTypes, StoreTypes', DefinitionsMove, NEW d \in DefinitionSet, NEW v, ReadOf(d, v)
  PROVE  ReadOf(d, v)'
  <1>1. v \in Versions
    BY DEF ReadOf
  <1>2. defs[v] \in DefinitionSet /\ defs'[v] \in DefinitionSet
    BY <1>1 DEF StoreTypes
  <1> QED
    BY <1>1, <1>2 DEF ReadOf, DefinitionsMove, DefinitionSet

LEMMA AboutLasts ==
  ASSUME StoreTypes, StoreTypes', DefinitionsMove, NEW q \in RequestSet, About(q)
  PROVE  About(q)'
  <1>1. ASSUME q.op \in {"update", "publish"}
        PROVE  q.expected <= defs'[q.number].revision
    <2>1. q.number \in Versions /\ q.expected <= defs[q.number].revision
      BY <1>1 DEF About
    <2>2. /\ defs[q.number].revision \in Nat /\ defs'[q.number].revision \in Nat
          /\ q.expected \in Nat
      BY <2>1 DEF StoreTypes, DefinitionSet, RequestSet
    <2>3. defs[q.number].revision <= defs'[q.number].revision
      BY <2>1 DEF DefinitionsMove
    <2> QED
      BY <2>1, <2>2, <2>3
  <1> QED
    BY <1>1 DEF About

LEMMA KnowledgeLasts ==
  ASSUME StoreTypes, StoreTypes', DefinitionsMove, NEW c \in CallSet, Knows(c)
  PROVE  Knows(c)'
  <1>1. c.request \in RequestSet /\ c.from \in DefinitionSet /\ c.to \in DefinitionSet
    BY DEF CallSet
  <1>2. About(c.request)'
    BY <1>1, AboutLasts DEF Knows
  <1>3. /\ ReadOf(c.from, c.request.number) => ReadOf(c.from, c.request.number)'
        /\ ReadOf(c.to, c.request.to) => ReadOf(c.to, c.request.to)'
    BY <1>1, ReadLasts
  <1> QED
    BY <1>2, <1>3 DEF Knows

\* A step that moves one caller, who knows what it needs.
LEMMA CallersStep ==
  ASSUME StoreTypes, StoreTypes', DefinitionsMove, CallTypes, CallTypes', CallersKnow,
         NEW w \in Callers, \A u \in Callers \ {w} : call'[u] = call[u], Knows(call[w])'
  PROVE  CallersKnow'
  <1> SUFFICES ASSUME NEW u \in Callers PROVE Knows(call[u])'
    BY DEF CallersKnow
  <1>1. CASE u = w
    BY <1>1
  <1>2. CASE u # w
    <2>1. PICK c : c = call[u]
      OBVIOUS
    <2>2. c \in CallSet /\ Knows(c)
      BY <2>1 DEF CallTypes, CallersKnow
    <2>3. Knows(c)'
      BY <2>2, KnowledgeLasts
    <2>4. call'[u] = c
      BY <1>2, <2>1
    <2> QED
      BY <2>3, <2>4
  <1> QED
    BY <1>1, <1>2
-----------------------------------------------------------------------------
(* The writes and the definitions. *)

\* One definition is replaced by a newer one.
LEMMA DefinitionStep ==
  ASSUME StoreTypes, HashesMatch, NEW v \in Versions, defs' \in [Versions -> DefinitionSet],
         \A u \in Versions \ {v} : defs'[u] = defs[u],
         defs[v].status # "PUBLISHED", defs'[v].status # "NONE",
         defs'[v].revision = defs[v].revision + 1,
         defs'[v].status = "PUBLISHED" => defs'[v].hash = HashOf(defs'[v].content)
  PROVE  StoreTypes' /\ DefinitionsMove /\ HashesMatch'
  <1>1. defs' \in [Versions -> DefinitionSet]
    OBVIOUS
  <1>2. \A u \in Versions : u # v => defs'[u] = defs[u]
    OBVIOUS
  <1>3. StoreTypes'
    BY <1>1, <1>2 DEF StoreTypes
  <1>4. HashesMatch'
    BY <1>2 DEF HashesMatch, HashOf
  <1>5. \A u \in Versions : defs[u].revision \in Nat
    BY DEF StoreTypes, DefinitionSet
  <1>6. DefinitionsMove
    <2> SUFFICES ASSUME NEW u \in Versions
                 PROVE  /\ defs[u].revision <= defs'[u].revision
                        /\ defs[u].revision = defs'[u].revision \/ defs[u].status = "PUBLISHED" =>
                             /\ defs'[u].status = defs[u].status
                             /\ defs'[u].content = defs[u].content
                             /\ defs'[u].revision = defs[u].revision
                             /\ defs'[u].hash = defs[u].hash
      BY DEF DefinitionsMove
    <2>1. CASE u = v
      BY <1>2, <1>5, <2>1
    <2>2. CASE u # v
      BY <1>2, <1>5, <2>2
    <2> QED
      BY <2>1, <2>2
  <1> QED
    BY <1>3, <1>4, <1>6

LEMMA NoDefinitionStep ==
  ASSUME StoreTypes, HashesMatch, defs' = defs
  PROVE  StoreTypes' /\ DefinitionsMove /\ HashesMatch'
  BY DEF StoreTypes, DefinitionsMove, HashesMatch, DefinitionSet

\* What a caller's write has in hand.
LEMMA RequestKnown ==
  ASSUME StoreTypes, CallTypes, CallersKnow, NEW w \in Callers
  PROVE  /\ call[w] \in CallSet /\ Request(w) \in RequestSet
         /\ call[w].from \in DefinitionSet /\ call[w].to \in DefinitionSet
         /\ Knows(call[w]) /\ About(Request(w))
         /\ Request(w).op \in {"create", "update", "publish"} =>
              Request(w).number \in Versions /\ defs[Request(w).number] \in DefinitionSet
  BY DEF CallTypes, CallSet, CallersKnow, Knows, About, Request, StoreTypes

\* The three writes to a definition.  A publication hashes what was read: the revision
\* asked for was current when the caller learnt of it, so what was read has at least
\* that revision, and the write asks for no later one.
LEMMA DefinitionWrites ==
  ASSUME StoreTypes, CallTypes, CallersKnow, HashesMatch, NEW w \in Callers, At(w, "commit"),
         Create(w) \/ UpdateDraft(w) \/ PublishDefinition(w)
  PROVE  /\ StoreTypes' /\ DefinitionsMove /\ HashesMatch'
         /\ Request(w).number \in Versions
         /\ defs'[Request(w).number].revision = defs[Request(w).number].revision + 1
         /\ \A u \in Versions \ {Request(w).number} : defs'[u] = defs[u]
  <1> DEFINE q == Request(w)
             n == q.number
             d == defs[n]
  <1>1. q \in RequestSet /\ n \in Versions /\ d \in DefinitionSet /\ call[w].from \in DefinitionSet
    BY RequestKnown DEF Create, UpdateDraft, PublishDefinition
  <1>2. ASSUME defs' \in [Versions -> DefinitionSet],
               \A u \in Versions \ {n} : defs'[u] = defs[u],
               d.status # "PUBLISHED", defs'[n].status # "NONE",
               defs'[n].revision = d.revision + 1,
               defs'[n].status = "PUBLISHED" => defs'[n].hash = HashOf(defs'[n].content)
        PROVE  /\ StoreTypes' /\ DefinitionsMove /\ HashesMatch'
               /\ n \in Versions /\ defs'[n].revision = d.revision + 1
               /\ \A u \in Versions \ {n} : defs'[u] = defs[u]
    BY <1>1, <1>2, DefinitionStep
  <1>3. CASE Create(w)
    <2>1. [status |-> "DRAFT", revision |-> 1, content |-> q.content, hash |-> NoHash]
            \in DefinitionSet
      BY <1>1 DEF DefinitionSet, RequestSet, NoHash
    <2>2. defs' = [defs EXCEPT ![n] = [status |-> "DRAFT", revision |-> 1, content |-> q.content,
                                       hash |-> NoHash]]
          /\ d.status = "NONE"
      BY <1>3 DEF Create
    <2>3. d.revision = 0
      BY <1>1, <2>2 DEF StoreTypes
    <2>4. /\ defs' \in [Versions -> DefinitionSet]
          /\ \A u \in Versions \ {n} : defs'[u] = defs[u]
          /\ defs'[n].status = "DRAFT" /\ defs'[n].revision = 1
      BY <1>1, <2>1, <2>2 DEF StoreTypes
    <2> QED
      BY <1>2, <2>2, <2>3, <2>4
  <1>4. CASE UpdateDraft(w)
    <2>1. d.revision \in Nat /\ q.content \in Contents
      BY <1>1 DEF DefinitionSet, RequestSet
    <2>2. defs' = [defs EXCEPT ![n].content = q.content, ![n].revision = @ + 1]
          /\ d.status = "DRAFT"
      BY <1>4 DEF UpdateDraft
    <2>3. /\ defs' \in [Versions -> DefinitionSet]
          /\ \A u \in Versions \ {n} : defs'[u] = defs[u]
          /\ defs'[n].status = "DRAFT" /\ defs'[n].revision = d.revision + 1
      BY <1>1, <2>1, <2>2 DEF StoreTypes, DefinitionSet
    <2> QED
      BY <1>2, <2>2, <2>3
  <1>5. CASE PublishDefinition(w)
    <2>1. d.revision \in Nat /\ HashOf(call[w].from.content) \in SUBSET Contents
      BY <1>1 DEF DefinitionSet, HashOf
    <2>2. /\ defs' = [defs EXCEPT ![n].status = "PUBLISHED", ![n].revision = @ + 1,
                                  ![n].hash = HashOf(call[w].from.content)]
          /\ d.status = "DRAFT" /\ d.revision = q.expected /\ q.op = "publish"
      BY <1>5 DEF PublishDefinition
    <2>3. /\ defs' \in [Versions -> DefinitionSet]
          /\ \A u \in Versions \ {n} : defs'[u] = defs[u]
          /\ defs'[n].status = "PUBLISHED" /\ defs'[n].revision = d.revision + 1
          /\ defs'[n].content = d.content /\ defs'[n].hash = HashOf(call[w].from.content)
      BY <1>1, <2>1, <2>2 DEF StoreTypes, DefinitionSet
    <2>4. call[w].from.content = d.content
      <3>1. Knows(call[w])
        BY RequestKnown
      <3>2. q.expected <= call[w].from.revision /\ ReadOf(call[w].from, n)
        BY <2>2, <3>1 DEF Knows, Request, At
      <3>3. call[w].from.revision \in Nat /\ d.revision \in Nat /\ q.expected \in Nat
        BY <1>1 DEF DefinitionSet, RequestSet
      <3>4. call[w].from.revision = d.revision
        BY <2>2, <3>2, <3>3 DEF ReadOf
      <3> QED
        BY <3>2, <3>4 DEF ReadOf
    <2> QED
      BY <1>2, <2>2, <2>3, <2>4
  <1> QED
    BY <1>3, <1>4, <1>5
-----------------------------------------------------------------------------
(* The writes and the plans. *)

\* Plans between published versions stay true however definitions move.
LEMMA PlansLast ==
  ASSUME DefinitionsMove, PlansSound, PlanIdsUnique, plans' = plans
  PROVE  PlansSound' /\ PlanIdsUnique'
  <1>1. \A v \in Versions : defs[v].status = "PUBLISHED" =>
          defs'[v].status = "PUBLISHED" /\ defs'[v].content = defs[v].content
    BY DEF DefinitionsMove
  <1>2. PlanIdsUnique'
    BY DEF PlanIdsUnique
  <1>3. ASSUME NEW p \in plans
        PROVE  /\ p.print.from \in Versions /\ p.print.to \in Versions
               /\ defs'[p.print.from].status = "PUBLISHED"
               /\ p.against = "PUBLISHED" =>
                    /\ defs'[p.print.to].status = "PUBLISHED"
                    /\ p.print.report \in
                         Reports(defs'[p.print.from].content, defs'[p.print.to].content)
    BY <1>1, <1>3 DEF PlansSound
  <1> QED
    BY <1>2, <1>3 DEF PlansSound

\* A plan is made of two versions that its caller has read: the source was published and
\* cannot have changed; nor can the target if it was.
LEMMA PlanCreated ==
  ASSUME StoreTypes, CallTypes, CallersKnow, PlansSound, PlanIdsUnique,
         NEW w \in Callers, At(w, "commit"), CreateMigrationPlan(w)
  PROVE  /\ PlansSound' /\ PlanIdsUnique'
         /\ \E r : /\ plans' = plans \cup {r} /\ r \notin plans
                   /\ r.id = Cardinality(plans) + 1 /\ r.version = 1
         /\ Cardinality(plans') = Cardinality(plans) + 1
  <1> DEFINE q == Request(w)
             print == Fingerprint(q.number, q.to, Hash(w).report)
             r == [id |-> Cardinality(plans) + 1, print |-> print, against |-> call[w].to.status,
                   status |-> "DRAFT", version |-> 1]
  <1>1. /\ q.op = "plan" /\ plans' = plans \cup {r} /\ defs' = defs
        /\ \A p \in plans : p.print # print
    BY DEF CreateMigrationPlan
  <1>2. Knows(call[w]) /\ q = call[w].request
    BY RequestKnown DEF Request
  <1>3. /\ call[w].from.status = "PUBLISHED" /\ ReadOf(call[w].from, q.number)
        /\ ReadOf(call[w].to, q.to)
        /\ call[w].report \in Reports(call[w].from.content, call[w].to.content)
    BY <1>1, <1>2 DEF Knows, At
  <1>4. print = [from |-> q.number, to |-> q.to, report |-> call[w].report]
    BY <1>1, <1>2 DEF Fingerprint, Hash, Request
  <1>5. /\ r.id = Cardinality(plans) + 1 /\ r.print = print /\ r.version = 1
        /\ r.against = call[w].to.status /\ r.status = "DRAFT"
        /\ r = [id |-> r.id, print |-> r.print, against |-> r.against, status |-> r.status,
                version |-> r.version]
    OBVIOUS
  <1> HIDE DEF r, print
  <1>11. r \in PlanSet
    <2>1. Cardinality(plans) \in Nat
      BY FS_CardinalityType DEF PlanIdsUnique
    <2>2. call[w].report \in ReportSet /\ call[w].to.status \in {"NONE", "DRAFT", "PUBLISHED"}
      BY RequestKnown DEF CallSet, DefinitionSet
    <2>3. print \in [from : Versions, to : Versions, report : ReportSet]
      BY <1>3, <1>4, <2>2 DEF ReadOf
    <2> QED
      BY <1>5, <2>1, <2>2, <2>3 DEF PlanSet
  <1>6. /\ q.number \in Versions /\ q.to \in Versions
        /\ defs[q.number].status = "PUBLISHED" /\ defs[q.number].content = call[w].from.content
        /\ call[w].to.status = "PUBLISHED" =>
             defs[q.to].status = "PUBLISHED" /\ defs[q.to].content = call[w].to.content
    BY <1>3 DEF ReadOf
  <1>7. PlansSound'
    <2>1. \A p, s \in plans' : p.print = s.print => p = s
      BY <1>1, <1>5 DEF PlansSound
    <2>2. ASSUME NEW p \in plans'
          PROVE  /\ p.print.from \in Versions /\ p.print.to \in Versions
                 /\ defs[p.print.from].status = "PUBLISHED"
                 /\ p.against = "PUBLISHED" =>
                      /\ defs[p.print.to].status = "PUBLISHED"
                      /\ p.print.report \in
                           Reports(defs[p.print.from].content, defs[p.print.to].content)
      <3>1. CASE p \in plans
        BY <3>1 DEF PlansSound
      <3>2. CASE p = r
        BY <1>3, <1>4, <1>5, <1>6, <3>2
      <3> QED
        BY <1>1, <3>1, <3>2
    <2> QED
      BY <1>1, <2>1, <2>2 DEF PlansSound
  <1>8. r \notin plans /\ Cardinality(plans) \in Nat
    BY <1>1, <1>5, FS_CardinalityType DEF PlanIdsUnique
  <1>9. IsFiniteSet(plans') /\ Cardinality(plans') = Cardinality(plans) + 1
    BY <1>1, <1>8, FS_AddElement DEF PlanIdsUnique
  <1>10. PlanIdsUnique'
    <2>1. \A p \in plans : p.id \in 1 .. Cardinality(plans)
      BY DEF PlanIdsUnique
    <2>2. \A p \in plans' : p.id \in 1 .. Cardinality(plans')
      BY <1>1, <1>5, <1>8, <1>9, <2>1
    <2>3. \A p, s \in plans' : p.id = s.id => p = s
      BY <1>1, <1>5, <1>8, <2>1 DEF PlanIdsUnique
    <2>4. \A p \in plans' : p.version \in Nat \ {0}
      BY <1>1, <1>5 DEF PlanIdsUnique
    <2>5. plans' \subseteq PlanSet
      BY <1>1, <1>11 DEF PlanIdsUnique
    <2> QED
      BY <1>9, <2>2, <2>3, <2>4, <2>5 DEF PlanIdsUnique
  <1> QED
    BY <1>1, <1>5, <1>7, <1>8, <1>9, <1>10

\* A cancellation replaces one plan by its next version.
LEMMA PlanCancelled ==
  ASSUME StoreTypes, PlansSound, PlanIdsUnique, NEW w \in Callers, UpdateMigrationPlan(w)
  PROVE  /\ PlansSound' /\ PlanIdsUnique'
         /\ \E p \in plans : \E r :
              /\ plans' = (plans \ {p}) \cup {r}
              /\ p.id = Request(w).number /\ r.id = p.id /\ r.version = p.version + 1
         /\ Cardinality(plans') = Cardinality(plans)
  <1> DEFINE q == Request(w)
             matching == {p \in plans : p.id = q.number /\ p.version = q.expected}
  <1>1. PICK p \in matching : TRUE
    BY DEF UpdateMigrationPlan
  <1>2. matching = {p} /\ p \in plans /\ p.id = q.number
    BY <1>1 DEF PlanIdsUnique
  <1> DEFINE r == [p EXCEPT !.status = NextStatus(p.status), !.version = @ + 1]
  <1>3. plans' = (plans \ {p}) \cup {r} /\ defs' = defs
    <2>1. plans' = (plans \ matching) \cup
            {[s EXCEPT !.status = NextStatus(s.status), !.version = @ + 1] : s \in matching}
      BY DEF UpdateMigrationPlan
    <2>2. plans' = (plans \ {p}) \cup
            {[s EXCEPT !.status = NextStatus(s.status), !.version = @ + 1] : s \in {p}}
      BY <1>2, <2>1
    <2>3. {[s EXCEPT !.status = NextStatus(s.status), !.version = @ + 1] : s \in {p}} = {r}
      OBVIOUS
    <2> QED
      BY <2>2, <2>3 DEF UpdateMigrationPlan
  <1>4. p \in PlanSet
    BY <1>2 DEF PlanIdsUnique
  <1>5. /\ r.id = p.id /\ r.print = p.print /\ r.against = p.against
        /\ r.version = p.version + 1
        /\ r \in PlanSet
    <2>1. NextStatus(p.status) \in {"NONE", "CANCELLED", "CANCEL_REQUESTED"}
      BY DEF NextStatus
    <2>2. /\ p.id \in Nat /\ p.version + 1 \in Nat
          /\ p.print \in [from : Versions, to : Versions, report : ReportSet]
          /\ p.against \in {"NONE", "DRAFT", "PUBLISHED"}
      BY <1>4 DEF PlanSet
    <2>3. p \in [id : {p.id}, print : {p.print}, against : {p.against}, status : {p.status},
                 version : {p.version}]
      BY <1>4 DEF PlanSet
    <2>4. r \in [id : {p.id}, print : {p.print}, against : {p.against},
                 status : {NextStatus(p.status)}, version : {p.version + 1}]
      BY <2>3
    <2> HIDE DEF r
    <2>5. /\ r.id = p.id /\ r.print = p.print /\ r.against = p.against
          /\ r.status = NextStatus(p.status) /\ r.version = p.version + 1
          /\ r = [id |-> r.id, print |-> r.print, against |-> r.against, status |-> r.status,
                  version |-> r.version]
      BY <2>4
    <2> QED
      BY <2>1, <2>2, <2>5 DEF PlanSet
  <1> HIDE DEF r, matching
  <1>6. /\ IsFiniteSet(plans)
        /\ p.version \in Nat \ {0} /\ p.id \in 1 .. Cardinality(plans)
        /\ \A s, t \in plans : s.id = t.id => s = t
        /\ \A s, t \in plans : s.print = t.print => s = t
    BY <1>2 DEF PlanIdsUnique, PlansSound
  <1>7. r \notin plans \ {p}
    BY <1>2, <1>5, <1>6
  <1>8. IsFiniteSet(plans') /\ Cardinality(plans') = Cardinality(plans)
    <2>1. /\ IsFiniteSet(plans \ {p}) /\ Cardinality(plans \ {p}) = Cardinality(plans) - 1
      BY <1>2, <1>6, FS_RemoveElement
    <2>2. IsFiniteSet(plans') /\ Cardinality(plans') = Cardinality(plans \ {p}) + 1
      BY <1>3, <1>7, <2>1, FS_AddElement
    <2> QED
      BY <1>6, <2>1, <2>2, FS_CardinalityType
  <1>9. PlansSound'
    <2>1. \A s, t \in plans' : s.print = t.print => s = t
      BY <1>2, <1>3, <1>5, <1>6
    <2>2. ASSUME NEW s \in plans'
          PROVE  /\ s.print.from \in Versions /\ s.print.to \in Versions
                 /\ defs[s.print.from].status = "PUBLISHED"
                 /\ s.against = "PUBLISHED" =>
                      /\ defs[s.print.to].status = "PUBLISHED"
                      /\ s.print.report \in
                           Reports(defs[s.print.from].content, defs[s.print.to].content)
      <3>1. CASE s \in plans
        BY <3>1 DEF PlansSound
      <3>2. CASE s = r
        BY <1>2, <1>5, <3>2 DEF PlansSound
      <3> QED
        BY <1>3, <3>1, <3>2
    <2> QED
      BY <1>3, <2>1, <2>2 DEF PlansSound
  <1>10. PlanIdsUnique'
    <2>1. \A s \in plans' : s.id \in 1 .. Cardinality(plans')
      BY <1>3, <1>5, <1>6, <1>8 DEF PlanIdsUnique
    <2>2. \A s, t \in plans' : s.id = t.id => s = t
      BY <1>2, <1>3, <1>5, <1>6
    <2>3. \A s \in plans' : s.version \in Nat \ {0}
      BY <1>3, <1>5, <1>6 DEF PlanIdsUnique
    <2>4. plans' \subseteq PlanSet
      BY <1>3, <1>5 DEF PlanIdsUnique
    <2> QED
      BY <1>8, <2>1, <2>2, <2>3, <2>4 DEF PlanIdsUnique
  <1> QED
    BY <1>2, <1>3, <1>5, <1>8, <1>9, <1>10
-----------------------------------------------------------------------------
(* The receipts. *)

\* A new receipt adds one to the changes it is a receipt of, and to no other.
LEMMA ReceiptAdded ==
  ASSUME IsFiniteSet(receipts), NEW e, e \notin receipts, receipts' = receipts \cup {e},
         NEW ops, NEW n
  PROVE  /\ IsFiniteSet(ReceiptsOf(ops, n)) /\ Cardinality(ReceiptsOf(ops, n)) \in Nat
         /\ e.hash.op \in ops /\ e.hash.number = n =>
              Cardinality(ReceiptsOf(ops, n)') = Cardinality(ReceiptsOf(ops, n)) + 1
         /\ ~(e.hash.op \in ops /\ e.hash.number = n) =>
              Cardinality(ReceiptsOf(ops, n)') = Cardinality(ReceiptsOf(ops, n))
  <1>1. ReceiptsOf(ops, n) \subseteq receipts
    BY DEF ReceiptsOf
  <1>2. IsFiniteSet(ReceiptsOf(ops, n)) /\ Cardinality(ReceiptsOf(ops, n)) \in Nat
    BY <1>1, FS_Subset, FS_CardinalityType
  <1>3. e \notin ReceiptsOf(ops, n)
    BY <1>1
  <1>4. ASSUME e.hash.op \in ops, e.hash.number = n
        PROVE  Cardinality(ReceiptsOf(ops, n)') = Cardinality(ReceiptsOf(ops, n)) + 1
    <2>1. ReceiptsOf(ops, n)' = ReceiptsOf(ops, n) \cup {e}
      BY <1>4 DEF ReceiptsOf
    <2> QED
      BY <1>2, <1>3, <2>1, FS_AddElement
  <1>5. ASSUME ~(e.hash.op \in ops /\ e.hash.number = n)
        PROVE  ReceiptsOf(ops, n)' = ReceiptsOf(ops, n)
    BY <1>5 DEF ReceiptsOf
  <1> QED
    BY <1>2, <1>4, <1>5

\* The receipt of a transaction: its key was not taken.
LEMMA CompletedOnce ==
  ASSUME ReceiptsCount, NEW w \in Callers, Complete(w)
  PROVE  \E e : /\ receipts' = receipts \cup {e} /\ e \notin receipts
                /\ e.hash.op = Request(w).op /\ e.hash.number = Request(w).number
                /\ IsFiniteSet(receipts') /\ audited' = Cardinality(receipts')
                /\ \A f, g \in receipts' : f.hash.op = g.hash.op /\ f.key = g.key => f = g
  <1> DEFINE e == [key |-> Request(w).key, hash |-> Hash(w)]
  <1>1. Hash(w).op = Request(w).op /\ Hash(w).number = Request(w).number
    BY DEF Hash, Request
  <1>2. /\ e.hash.op = Request(w).op /\ e.hash.number = Request(w).number
        /\ e.key = Request(w).key
    BY <1>1
  <1>3. receipts' = receipts \cup {e} /\ audited' = audited + 1
    BY DEF Complete
  <1> HIDE DEF e
  <1>4. \A f \in receipts : ~(f.hash.op = e.hash.op /\ f.key = e.key)
    BY <1>2 DEF Complete, Found
  <1>5. /\ IsFiniteSet(receipts) /\ audited = Cardinality(receipts)
        /\ \A f, g \in receipts : f.hash.op = g.hash.op /\ f.key = g.key => f = g
    BY DEF ReceiptsCount, EachChangeHasOneReceipt
  <1>6. e \notin receipts
    BY <1>4
  <1>7. IsFiniteSet(receipts') /\ Cardinality(receipts') = Cardinality(receipts) + 1
    BY <1>3, <1>5, <1>6, FS_AddElement
  <1>8. \A f, g \in receipts' : f.hash.op = g.hash.op /\ f.key = g.key => f = g
    BY <1>3, <1>4, <1>5
  <1> QED
    BY <1>2, <1>3, <1>5, <1>6, <1>7, <1>8

\* A change and its receipt are one transaction, so the counts stay equal.
LEMMA ReceiptsStep ==
  ASSUME StoreTypes, CallTypes, CallersKnow, HashesMatch, PlansSound, PlanIdsUnique,
         ReceiptsCount, NEW w \in Callers, Transaction(w)
  PROVE  ReceiptsCount'
  <1> DEFINE edits == {"create", "update", "publish"}
             cancels == {"cancel"}
             q == Request(w)
  <1>1. PICK e : /\ receipts' = receipts \cup {e} /\ e \notin receipts
                 /\ e.hash.op = q.op /\ e.hash.number = q.number
                 /\ IsFiniteSet(receipts') /\ audited' = Cardinality(receipts')
                 /\ \A f, g \in receipts' : f.hash.op = g.hash.op /\ f.key = g.key => f = g
    BY CompletedOnce DEF Transaction
  <1>2. /\ IsFiniteSet(receipts)
        /\ \A v \in Versions : Cardinality(ReceiptsOf(edits, v)) = defs[v].revision
        /\ \A p \in plans : Cardinality(ReceiptsOf(cancels, p.id)) = p.version - 1
        /\ \A f \in receipts : f.hash.op = "cancel" => f.hash.number \in 1 .. Cardinality(plans)
    BY DEF ReceiptsCount, EachChangeHasOneReceipt
  <1>3. \A n : /\ Cardinality(ReceiptsOf(edits, n)) \in Nat
               /\ q.op \in edits /\ q.number = n =>
                    Cardinality(ReceiptsOf(edits, n)') = Cardinality(ReceiptsOf(edits, n)) + 1
               /\ ~(q.op \in edits /\ q.number = n) =>
                    Cardinality(ReceiptsOf(edits, n)') = Cardinality(ReceiptsOf(edits, n))
    BY <1>1, <1>2, ReceiptAdded
  <1>4. \A n : /\ Cardinality(ReceiptsOf(cancels, n)) \in Nat
               /\ q.op \in cancels /\ q.number = n =>
                    Cardinality(ReceiptsOf(cancels, n)') = Cardinality(ReceiptsOf(cancels, n)) + 1
               /\ ~(q.op \in cancels /\ q.number = n) =>
                    Cardinality(ReceiptsOf(cancels, n)') = Cardinality(ReceiptsOf(cancels, n))
    BY <1>1, <1>2, ReceiptAdded
  <1>5. SUFFICES
          /\ \A v \in Versions : Cardinality(ReceiptsOf(edits, v)') = defs'[v].revision
          /\ \A p \in plans' : Cardinality(ReceiptsOf(cancels, p.id)') = p.version - 1
          /\ q.op = "cancel" => q.number \in 1 .. Cardinality(plans')
          /\ Cardinality(plans) \in Nat /\ Cardinality(plans') \in Nat
          /\ Cardinality(plans) <= Cardinality(plans')
    <2>1. \A f \in receipts' : f.hash.op = "cancel" => f.hash.number \in 1 .. Cardinality(plans')
      BY <1>1, <1>2, <1>5
    <2> QED
      BY <1>1, <1>5, <2>1 DEF ReceiptsCount, EachChangeHasOneReceipt
  <1> HIDE DEF edits, cancels
  <1>6. Cardinality(plans) \in Nat
    BY FS_CardinalityType DEF PlanIdsUnique
  <1>7. CASE Create(w) \/ UpdateDraft(w) \/ PublishDefinition(w)
    <2>1. /\ q.number \in Versions
          /\ defs'[q.number].revision = defs[q.number].revision + 1
          /\ \A u \in Versions \ {q.number} : defs'[u] = defs[u]
      BY <1>7, DefinitionWrites DEF Transaction
    <2>2. plans' = plans /\ q.op \in {"create", "update", "publish"}
      BY <1>7 DEF Create, UpdateDraft, PublishDefinition
    <2>3. q.op \in edits /\ q.op \notin cancels /\ q.op # "cancel"
      BY <2>2 DEF edits, cancels
    <2>4. \A v \in Versions : Cardinality(ReceiptsOf(edits, v)') = defs'[v].revision
      BY <1>2, <1>3, <2>1, <2>3
    <2>5. \A p \in plans' : Cardinality(ReceiptsOf(cancels, p.id)') = p.version - 1
      BY <1>2, <1>4, <2>2, <2>3
    <2> QED
      BY <1>6, <2>2, <2>3, <2>4, <2>5
  <1>8. CASE CreateMigrationPlan(w)
    <2>1. PICK r : /\ plans' = plans \cup {r}
                   /\ r.id = Cardinality(plans) + 1 /\ r.version = 1
      BY <1>8, PlanCreated DEF Transaction
    <2>2. Cardinality(plans') = Cardinality(plans) + 1
      BY <1>8, PlanCreated DEF Transaction
    <2>3. defs' = defs /\ q.op = "plan"
      BY <1>8 DEF CreateMigrationPlan
    <2>4. q.op \notin edits /\ q.op \notin cancels /\ q.op # "cancel"
      BY <2>3 DEF edits, cancels
    <2>5. \A v \in Versions : Cardinality(ReceiptsOf(edits, v)') = defs'[v].revision
      BY <1>2, <1>3, <2>3, <2>4
    <2>6. Cardinality(ReceiptsOf(cancels, r.id)) = 0
      <3>1. ReceiptsOf(cancels, r.id) = {}
        BY <1>2, <1>6, <2>1 DEF ReceiptsOf, cancels
      <3> QED
        BY <3>1, FS_EmptySet
    <2>7. \A p \in plans' : Cardinality(ReceiptsOf(cancels, p.id)') = p.version - 1
      BY <1>2, <1>4, <2>1, <2>4, <2>6
    <2> QED
      BY <1>6, <2>2, <2>4, <2>5, <2>7
  <1>9. CASE UpdateMigrationPlan(w)
    <2>0. PICK p \in plans : \E r :
            /\ plans' = (plans \ {p}) \cup {r}
            /\ p.id = q.number /\ r.id = p.id /\ r.version = p.version + 1
      BY <1>9, PlanCancelled
    <2>1. PICK r : /\ plans' = (plans \ {p}) \cup {r}
                   /\ p.id = q.number /\ r.id = p.id /\ r.version = p.version + 1
      BY <2>0
    <2>2. Cardinality(plans') = Cardinality(plans)
      BY <1>9, PlanCancelled
    <2>3. defs' = defs /\ q.op = "cancel"
      BY <1>9 DEF UpdateMigrationPlan
    <2>4. q.op \notin edits /\ q.op \in cancels
      BY <2>3 DEF edits, cancels
    <2>5. \A v \in Versions : Cardinality(ReceiptsOf(edits, v)') = defs'[v].revision
      BY <1>2, <1>3, <2>3, <2>4
    <2>6. /\ p.id \in 1 .. Cardinality(plans) /\ p.version \in Nat
          /\ \A s \in plans : s.id = p.id => s = p
      BY DEF PlanIdsUnique
    <2>7. \A s \in plans' : Cardinality(ReceiptsOf(cancels, s.id)') = s.version - 1
      <3> SUFFICES ASSUME NEW s \in plans'
                   PROVE  Cardinality(ReceiptsOf(cancels, s.id)') = s.version - 1
        OBVIOUS
      <3>1. CASE s = r
        BY <1>2, <1>4, <2>1, <2>4, <2>6, <3>1
      <3>2. CASE s \in plans \ {p}
        BY <1>2, <1>4, <2>1, <2>4, <2>6, <3>2
      <3> QED
        BY <2>1, <3>1, <3>2
    <2> QED
      BY <1>6, <2>1, <2>2, <2>4, <2>5, <2>6, <2>7
  <1> QED
    BY <1>7, <1>8, <1>9 DEF Transaction, Write
-----------------------------------------------------------------------------
(* The invariant. *)

LEMMA SeedReceipts ==
  ASSUME NEW op, NEW v
  PROVE  SeedReceipt(op, v).key = <<"seed", v>> /\ SeedReceipt(op, v).hash.op = op
         /\ SeedReceipt(op, v).hash.number = v
  BY DEF SeedReceipt

LEMMA FiniteImage ==
  ASSUME NEW S, IsFiniteSet(S), NEW op
  PROVE  IsFiniteSet({SeedReceipt(op, v) : v \in S})
  <1> DEFINE f == [v \in S |-> SeedReceipt(op, v)]
             T == {SeedReceipt(op, v) : v \in S}
  <1>1. f \in Surjection(S, T)
    BY DEF Surjection
  <1> QED
    BY <1>1, FS_Surjection

\* The seeded versions come with the receipts of their creation and publication.
LEMMA InitReceipts ==
  ASSUME RegistryInit
  PROVE  ReceiptsCount
  <1> USE RegistryAssumption
  <1>1. /\ receipts = {SeedReceipt("create", v) : v \in Seeded}
                      \cup {SeedReceipt("publish", v) : v \in Seeded}
        /\ plans = {} /\ audited = Cardinality(receipts)
    BY DEF RegistryInit
  <1>2. IsFiniteSet(receipts)
    <2>1. IsFiniteSet({SeedReceipt("create", v) : v \in Seeded})
          /\ IsFiniteSet({SeedReceipt("publish", v) : v \in Seeded})
      BY FiniteImage
    <2> QED
      BY <1>1, <2>1, FS_Union
  <1>3. \A e \in receipts :
          \E v \in Seeded : e = SeedReceipt("create", v) \/ e = SeedReceipt("publish", v)
    BY <1>1
  <1>4. ASSUME NEW e \in receipts, NEW f \in receipts, e.hash.op = f.hash.op, e.key = f.key
        PROVE  e = f
    <2>1. PICK u \in Seeded : e = SeedReceipt("create", u) \/ e = SeedReceipt("publish", u)
      BY <1>3
    <2>2. PICK v \in Seeded : f = SeedReceipt("create", v) \/ f = SeedReceipt("publish", v)
      BY <1>3
    <2>3. u = v
      <3>1. <<"seed", u>> = <<"seed", v>>
        BY <1>4, <2>1, <2>2, SeedReceipts
      <3> QED
        BY <3>1
    <2> QED
      BY <1>4, <2>1, <2>2, <2>3, SeedReceipts
  <1>5. \A e \in receipts : e.hash.op # "cancel"
    BY <1>3, SeedReceipts
  <1>6. ASSUME NEW v \in Versions
        PROVE  Cardinality(ReceiptsOf({"create", "update", "publish"}, v)) = defs[v].revision
    <2> DEFINE E == ReceiptsOf({"create", "update", "publish"}, v)
    <2>1. CASE v \in Seeded
      <3> DEFINE c == SeedReceipt("create", v)
                 p == SeedReceipt("publish", v)
      <3>1. c \in receipts /\ p \in receipts
        BY <1>1, <2>1
      <3>2. /\ c.hash.op = "create" /\ c.hash.number = v
            /\ p.hash.op = "publish" /\ p.hash.number = v
        BY SeedReceipts
      <3>3. c # p
        BY <3>2
      <3>4. \A e \in E : e = c \/ e = p
        BY <1>3, SeedReceipts DEF ReceiptsOf
      <3>5. c \in E /\ p \in E
        BY <3>1, <3>2 DEF ReceiptsOf
      <3>6. E = {c} \cup {p}
        BY <3>4, <3>5
      <3> HIDE DEF c, p
      <3>7. Cardinality(E) = 2
        <4>1. IsFiniteSet({c}) /\ Cardinality({c}) = 1
          BY FS_Singleton
        <4>2. Cardinality({c} \cup {p}) = Cardinality({c}) + 1
          BY <3>3, <4>1, FS_AddElement
        <4> QED
          BY <3>6, <4>1, <4>2
      <3>8. defs[v].revision = 2
        BY <2>1 DEF RegistryInit, Published
      <3> QED
        BY <3>7, <3>8
    <2>2. CASE v \notin Seeded
      <3>1. E = {}
        BY <1>3, <2>2, SeedReceipts DEF ReceiptsOf
      <3>2. defs[v].revision = 0
        BY <2>2 DEF RegistryInit, NoDefinition
      <3> QED
        BY <3>1, <3>2, FS_EmptySet
    <2> QED
      BY <2>1, <2>2
  <1> QED
    BY <1>1, <1>2, <1>4, <1>5, <1>6 DEF ReceiptsCount, EachChangeHasOneReceipt

LEMMA InitRegistry == RegistryInit => RegistryInv
  <1> SUFFICES ASSUME RegistryInit PROVE RegistryInv
    OBVIOUS
  <1>1. PICK content \in Contents :
          defs = [v \in Versions |-> IF v \in Seeded THEN Published(content) ELSE NoDefinition]
    BY DEF RegistryInit
  <1>2. Published(content) \in DefinitionSet
    BY DEF Published, DefinitionSet, HashOf
  <1>3. NoDefinition \in DefinitionSet /\ Idle \in CallSet
    BY EmptyTypes
  <1>4. StoreTypes
    BY <1>1, <1>2, <1>3 DEF StoreTypes, NoDefinition, Published
  <1>5. CallTypes
    BY <1>3 DEF RegistryInit, CallTypes
  <1>6. HashesMatch
    BY <1>1 DEF HashesMatch, NoDefinition, Published
  <1>7. CallersKnow
    BY DEF RegistryInit, CallersKnow, Knows, About, Idle, NoRequest
  <1>8. PlanIdsUnique /\ PlansSound
    BY FS_EmptySet DEF RegistryInit, PlanIdsUnique, PlansSound
  <1> QED
    BY <1>4, <1>5, <1>6, <1>7, <1>8, InitReceipts DEF RegistryInv

\* Steps that only move a caller.
LEMMA CallersOnly ==
  ASSUME RegistryInv, UNCHANGED storeVars, CallTypes', NEW w \in Callers,
         \A u \in Callers \ {w} : call'[u] = call[u], Knows(call[w])'
  PROVE  RegistryInv'
  <1> USE DEF RegistryInv
  <1>1. defs' = defs /\ plans' = plans /\ receipts' = receipts /\ audited' = audited
    BY DEF storeVars
  <1>2. StoreTypes' /\ DefinitionsMove /\ HashesMatch'
    BY <1>1, NoDefinitionStep
  <1>3. CallersKnow'
    BY <1>2, CallersStep
  <1>4. PlansSound' /\ PlanIdsUnique'
    BY <1>1, <1>2, PlansLast
  <1>5. ReceiptsCount'
    BY <1>1 DEF ReceiptsCount, EachChangeHasOneReceipt, ReceiptsOf
  <1> QED
    BY <1>2, <1>3, <1>4, <1>5

\* A caller that has its answer knows all it needs.
LEMMA Answered ==
  ASSUME Contents # {}, CallTypes, NEW w \in Callers, Answer(w)
  PROVE  CallTypes' /\ (\A u \in Callers \ {w} : call'[u] = call[u]) /\ Knows(call[w])'
  <1>1. Idle \in CallSet
    BY EmptyTypes
  <1>2. call'[w] = Idle
    BY DEF Answer, CallTypes
  <1>3. Knows(Idle)'
    BY DEF Knows, About, Idle, NoRequest
  <1> QED
    BY <1>1, <1>2, <1>3 DEF Answer, CallTypes, Knows, About, ReadOf
-----------------------------------------------------------------------------
(* The steps of a request. *)

\* A caller that stays with its request and reads no version.
LEMMA MovedOn ==
  ASSUME RegistryInv, NEW w \in Callers, NEW step \in CallSteps, Go(w, step),
         UNCHANGED storeVars, ~At(w, "idle"),
         step \in {"from", "to", "fingerprint"} => Request(w).op = "plan",
         Request(w).op = "plan" =>
           step \in {"fingerprint", "commit"} /\ call[w].step \in {"receipt", "fingerprint"},
         Request(w).op = "publish" => step # "commit"
  PROVE  RegistryInv'
  <1> USE DEF RegistryInv
  <1>1. call[w] \in CallSet /\ Knows(call[w])
    BY DEF CallTypes, CallersKnow
  <1>2. /\ call' \in [Callers -> CallSet] /\ \A u \in Callers \ {w} : call'[u] = call[u]
        /\ call'[w].step = step /\ call'[w].request = call[w].request
        /\ call'[w].from = call[w].from /\ call'[w].to = call[w].to
        /\ call'[w].report = call[w].report
    BY <1>1 DEF Go, CallTypes, CallSet
  <1>3. defs' = defs
    BY DEF storeVars
  <1>4. Knows(call[w])'
    BY <1>1, <1>2, <1>3 DEF Knows, About, ReadOf, Request, At
  <1> QED
    BY <1>2, <1>4, CallersOnly DEF CallTypes

LEMMA FirstSteps ==
  ASSUME NEW op
  PROVE  /\ op = "plan" => First(op) = "from"
         /\ First(op) = "from" => op = "plan"
         /\ op # "cancel" => First(op) # "plan"
         /\ First(op) \in {"from", "plan", "receipt"}
  BY DEF First

LEMMA BeginStep ==
  ASSUME RegistryInv, NEW w \in Callers, Begin(w)
  PROVE  RegistryInv'
  <1> USE DEF RegistryInv
  <1>1. PICK q \in CreateRequests \cup UpdateRequests \cup PublishRequests
                   \cup PlanRequests \cup CancelRequests :
          call' = [call EXCEPT ![w].request = q, ![w].step = First(q.op)]
    BY DEF Begin
  <1>2. q \in RequestSet /\ q.op # "none" /\ About(q)
    BY SentRequests
  <1>3. /\ call' \in [Callers -> CallSet] /\ \A u \in Callers \ {w} : call'[u] = call[u]
        /\ call'[w].request = q
        /\ call'[w].step = First(q.op)
    <2>1. First(q.op) \in CallSteps
      BY DEF First, CallSteps
    <2> QED
      BY <1>1, <1>2, <2>1 DEF CallTypes, CallSet
  <1>4. UNCHANGED storeVars /\ defs' = defs
    BY DEF Begin, storeVars
  <1>5. Knows(call[w])'
    BY <1>2, <1>3, <1>4, FirstSteps DEF Knows, About
  <1> QED
    BY <1>3, <1>4, <1>5, CallersOnly DEF CallTypes

LEMMA AnswerStep ==
  ASSUME RegistryInv, NEW w \in Callers, Answer(w), UNCHANGED storeVars
  PROVE  RegistryInv'
  BY Answered, CallersOnly DEF RegistryInv, StoreTypes

\* The two reads for a plan, the read of a plan, and that of a draft.
LEMMA ReadSteps ==
  ASSUME RegistryInv, NEW w \in Callers,
         FindFrom(w) \/ FindTo(w) \/ FindPlan(w) \/ ReadDraft(w)
  PROVE  RegistryInv'
  <1> USE DEF RegistryInv
  <1>1. call[w] \in CallSet /\ Knows(call[w])
    BY DEF CallTypes, CallersKnow
  <1>2. UNCHANGED storeVars /\ defs' = defs
    BY DEF FindFrom, FindTo, FindPlan, ReadDraft, storeVars
  <1>3. \A v \in Versions : defs[v] \in DefinitionSet /\ ReadOf(defs[v], v)
    BY DEF StoreTypes, DefinitionSet, ReadOf
  <1>4. CASE FindFrom(w)
    <2> DEFINE from == defs[Request(w).number]
    <2>1. Request(w).op = "plan" /\ Request(w).number \in Versions
      BY <1>1, <1>4 DEF FindFrom, At, Knows, About, Request
    <2>2. CASE from.status = "PUBLISHED"
      <3>1. /\ call' \in [Callers -> CallSet] /\ \A u \in Callers \ {w} : call'[u] = call[u]
            /\ call'[w].step = "to" /\ call'[w].request = call[w].request
            /\ call'[w].from = from
        BY <1>1, <1>3, <1>4, <2>1, <2>2 DEF FindFrom, CallTypes, CallSet, CallSteps
      <3>2. Knows(call[w])'
        BY <1>1, <1>2, <1>3, <2>1, <2>2, <3>1 DEF Knows, About, ReadOf, Request
      <3> QED
        BY <1>2, <3>1, <3>2, CallersOnly DEF CallTypes
    <2>3. CASE from.status # "PUBLISHED"
      BY <1>2, <1>4, <2>3, AnswerStep DEF FindFrom
    <2> QED
      BY <2>2, <2>3
  <1>5. CASE FindTo(w)
    <2> DEFINE to == defs[Request(w).to]
    <2>1. Request(w).op = "plan" /\ Request(w).to \in Versions
      BY <1>1, <1>5 DEF FindTo, At, Knows, About, Request
    <2>2. CASE to.status # "NONE"
      <3>1. PICK report \in Reports(call[w].from.content, to.content) :
              call' = [call EXCEPT ![w].step = "receipt", ![w].to = to, ![w].report = report]
        BY <1>5, <2>2 DEF FindTo
      <3>2. report \in ReportSet
        <4>1. call[w].from.content \in Contents /\ to.content \in Contents
          BY <1>1, <1>3, <2>1 DEF CallSet, DefinitionSet
        <4> QED
          BY <4>1, ReportsAre
      <3>3. /\ call' \in [Callers -> CallSet] /\ \A u \in Callers \ {w} : call'[u] = call[u]
            /\ call'[w].step = "receipt" /\ call'[w].request = call[w].request
            /\ call'[w].to = to /\ call'[w].from = call[w].from /\ call'[w].report = report
        BY <1>1, <1>3, <2>1, <3>1, <3>2 DEF CallTypes, CallSet, CallSteps
      <3>4. Knows(call[w])'
        BY <1>1, <1>2, <1>3, <1>5, <2>1, <3>1, <3>3
           DEF FindTo, At, Knows, About, ReadOf, Request
      <3> QED
        BY <1>2, <3>3, <3>4, CallersOnly DEF CallTypes
    <2>3. CASE to.status = "NONE"
      BY <1>2, <1>5, <2>3, AnswerStep DEF FindTo
    <2> QED
      BY <2>2, <2>3
  <1>6. CASE ReadDraft(w)
    <2> DEFINE existing == defs[Request(w).number]
    <2>1. Request(w).op \in {"update", "publish"} /\ Request(w).number \in Versions
      BY <1>1, <1>6 DEF ReadDraft, Knows, About, Request
    <2>2. CASE existing.status = "DRAFT"
      <3>1. /\ call' \in [Callers -> CallSet] /\ \A u \in Callers \ {w} : call'[u] = call[u]
            /\ call'[w].step = "commit" /\ call'[w].request = call[w].request
            /\ call'[w].from = existing
        BY <1>1, <1>3, <1>6, <2>1, <2>2 DEF ReadDraft, CallTypes, CallSet, CallSteps
      <3>2. Knows(call[w])'
        BY <1>1, <1>2, <1>3, <2>1, <3>1 DEF Knows, About, ReadOf, Request
      <3> QED
        BY <1>2, <3>1, <3>2, CallersOnly DEF CallTypes
    <2>3. CASE existing.status # "DRAFT"
      BY <1>2, <1>6, <2>3, AnswerStep DEF ReadDraft
    <2> QED
      BY <2>2, <2>3
  <1>7. CASE FindPlan(w)
    <2> DEFINE found == {p \in plans : p.id = Request(w).number}
    <2>1. found \in SUBSET PlanSet
      BY DEF PlanIdsUnique
    <2>2. call' = [call EXCEPT ![w].step = "receipt", ![w].plan = found]
      BY <1>7 DEF FindPlan
    <2> HIDE DEF found
    <2>3. /\ call' \in [Callers -> CallSet] /\ \A u \in Callers \ {w} : call'[u] = call[u]
          /\ call'[w].step = "receipt" /\ call'[w].request = call[w].request
      BY <1>1, <2>1, <2>2 DEF CallTypes, CallSet, CallSteps
    <2>4. call[w].request.op \notin {"plan", "none"}
      BY <1>1, <1>7 DEF FindPlan, At, Knows
    <2>5. Knows(call[w])'
      BY <1>1, <1>2, <2>3, <2>4 DEF Knows, About
    <2> QED
      BY <1>2, <2>3, <2>5, CallersOnly DEF CallTypes
  <1> QED
    BY <1>4, <1>5, <1>6, <1>7

\* The lookups of receipts and fingerprints.
LEMMA LookupSteps ==
  ASSUME RegistryInv, NEW w \in Callers,
         ReplayReceipt(w) \/ NoReceipt(w) \/ FindFingerprint(w) \/ CheckPlan(w)
  PROVE  RegistryInv'
  <1>1. call[w] \in CallSet /\ Knows(call[w])
    BY DEF RegistryInv, CallTypes, CallersKnow
  <1>2. UNCHANGED storeVars
    BY DEF ReplayReceipt, NoReceipt, FindFingerprint, CheckPlan
  <1>3. CASE Answer(w)
    BY <1>2, <1>3, AnswerStep
  <1>4. CASE NoReceipt(w)
    <2> DEFINE step == CASE Request(w).op = "create" -> "commit"
                         [] Request(w).op = "plan"   -> "fingerprint"
                         [] OTHER                    -> "read"
    <2>1. /\ step \in CallSteps
          /\ step \in {"from", "to", "fingerprint"} => Request(w).op = "plan"
          /\ Request(w).op = "plan" => step = "fingerprint"
          /\ Request(w).op = "publish" => step # "commit"
      BY DEF CallSteps
    <2>2. Go(w, step) /\ call[w].step = "receipt"
      BY <1>4 DEF NoReceipt, At
    <2> HIDE DEF step
    <2> QED
      BY <1>2, <2>1, <2>2, MovedOn DEF At
  <1>5. CASE FindFingerprint(w) /\ Go(w, "commit")
    <2>1. call[w].step = "fingerprint" /\ Request(w).op = "plan"
      BY <1>1, <1>5 DEF FindFingerprint, At, Knows, Request
    <2> QED
      BY <1>2, <1>5, <2>1, MovedOn DEF At, CallSteps
  <1>6. CASE CheckPlan(w) /\ Go(w, "commit")
    <2>1. call[w].step = "receipt" /\ Request(w).op = "cancel"
      BY <1>6 DEF CheckPlan, At
    <2> QED
      BY <1>2, <1>6, <2>1, MovedOn DEF At, CallSteps
  <1> QED
    BY <1>3, <1>4, <1>5, <1>6 DEF ReplayReceipt, FindFingerprint, CheckPlan

\* What a transaction does to the store.
LEMMA StoreStep ==
  ASSUME RegistryInv, NEW w \in Callers, Transaction(w)
  PROVE  /\ StoreTypes' /\ DefinitionsMove /\ HashesMatch'
         /\ PlansSound' /\ PlanIdsUnique' /\ ReceiptsCount'
  <1> USE DEF RegistryInv
  <1>1. ReceiptsCount'
    BY ReceiptsStep
  <1>2. CASE Create(w) \/ UpdateDraft(w) \/ PublishDefinition(w)
    <2>1. StoreTypes' /\ DefinitionsMove /\ HashesMatch'
      BY <1>2, DefinitionWrites DEF Transaction
    <2>2. plans' = plans
      BY <1>2 DEF Create, UpdateDraft, PublishDefinition
    <2> QED
      BY <1>1, <2>1, <2>2, PlansLast
  <1>3. CASE CreateMigrationPlan(w)
    <2>1. PlansSound' /\ PlanIdsUnique'
      BY <1>3, PlanCreated DEF Transaction
    <2> QED
      BY <1>1, <1>3, <2>1, NoDefinitionStep DEF CreateMigrationPlan
  <1>4. CASE UpdateMigrationPlan(w)
    <2>1. PlansSound' /\ PlanIdsUnique'
      BY <1>4, PlanCancelled
    <2> QED
      BY <1>1, <1>4, <2>1, NoDefinitionStep DEF UpdateMigrationPlan
  <1> QED
    BY <1>2, <1>3, <1>4 DEF Transaction, Write

LEMMA CommitStep ==
  ASSUME RegistryInv, NEW w \in Callers, Commit(w) \/ CommitUnacknowledged(w)
  PROVE  RegistryInv'
  <1> USE DEF RegistryInv
  <1>1. /\ StoreTypes' /\ DefinitionsMove /\ HashesMatch'
        /\ PlansSound' /\ PlanIdsUnique' /\ ReceiptsCount'
    BY StoreStep DEF Commit, CommitUnacknowledged
  <1>2. CallTypes' /\ (\A u \in Callers \ {w} : call'[u] = call[u]) /\ Knows(call[w])'
    <2>1. CASE Commit(w)
      BY <2>1, Answered DEF Commit, StoreTypes
    <2>2. CASE CommitUnacknowledged(w)
      <3>1. PICK q : q = Request(w)
        OBVIOUS
      <3>2. q \in RequestSet /\ About(q) /\ call[w].request = q
        BY <3>1, RequestKnown DEF Request
      <3>3. q.op # "none"
        BY <2>2, <3>1 DEF CommitUnacknowledged, Transaction, Write, Create, UpdateDraft,
             PublishDefinition, CreateMigrationPlan, UpdateMigrationPlan
      <3>4. About(q)'
        BY <1>1, <3>2, AboutLasts
      <3>5. Idle \in CallSet
        BY EmptyTypes DEF StoreTypes
      <3> DEFINE c == [Idle EXCEPT !.request = q, !.step = First(q.op)]
      <3>6. c \in CallSet /\ c.request = q /\ c.step = First(q.op)
        <4>1. First(q.op) \in CallSteps
          BY FirstSteps DEF CallSteps
        <4> QED
          BY <3>2, <3>5, <4>1 DEF CallSet
      <3>7. call' = [call EXCEPT ![w] = c]
        BY <2>2, <3>1 DEF CommitUnacknowledged
      <3> HIDE DEF c
      <3>8. call' \in [Callers -> CallSet] /\ call'[w] = c
            /\ \A u \in Callers \ {w} : call'[u] = call[u]
        BY <3>6, <3>7 DEF CallTypes
      <3>9. Knows(call[w])'
        BY <3>3, <3>4, <3>6, <3>8, FirstSteps DEF Knows, About
      <3> QED
        BY <3>8, <3>9 DEF CallTypes
    <2> QED
      BY <2>1, <2>2
  <1>3. CallersKnow'
    BY <1>1, <1>2, CallersStep
  <1> QED
    BY <1>1, <1>2, <1>3

LEMMA NextRegistry == RegistryInv /\ [RegistryNext]_registryVars => RegistryInv'
  <1> SUFFICES ASSUME RegistryInv, [RegistryNext]_registryVars PROVE RegistryInv'
    OBVIOUS
  <1>1. ASSUME NEW w \in Callers, Begin(w) PROVE RegistryInv'
    BY <1>1, BeginStep
  <1>2. ASSUME NEW w \in Callers, FindFrom(w) \/ FindTo(w) \/ FindPlan(w) \/ ReadDraft(w)
        PROVE  RegistryInv'
    BY <1>2, ReadSteps
  <1>3. ASSUME NEW w \in Callers,
               ReplayReceipt(w) \/ NoReceipt(w) \/ FindFingerprint(w) \/ CheckPlan(w)
        PROVE  RegistryInv'
    BY <1>3, LookupSteps
  <1>4. ASSUME NEW w \in Callers, Commit(w) \/ CommitUnacknowledged(w) PROVE RegistryInv'
    BY <1>4, CommitStep
  <1>5. ASSUME NEW w \in Callers, Abort(w) PROVE RegistryInv'
    BY <1>5, AnswerStep DEF Abort
  <1>6. CASE UNCHANGED registryVars
    BY <1>6 DEF registryVars, storeVars, RegistryInv, StoreTypes, CallTypes, HashesMatch,
         CallersKnow, Knows, About, ReadOf, PlanIdsUnique, PlansSound, ReceiptsCount,
         EachChangeHasOneReceipt, ReceiptsOf
  <1> QED
    BY <1>1, <1>2, <1>3, <1>4, <1>5, <1>6 DEF RegistryNext

LEMMA RegistryInvariant == RegistrySpec => []RegistryInv
  BY InitRegistry, NextRegistry, PTL DEF RegistrySpec

-----------------------------------------------------------------------------
(* Induction over numbers, from the least element of a set of them. *)

LEMMA LeastNatural ==
  ASSUME NEW T, T \subseteq Nat, T # {}
  PROVE  \E x \in T : \A y \in T : x <= y
  <1>1. PICK x \in T : \A y \in T : ~(<<y, x>> \in OpToRel(<, Nat))
    BY WFMin, NatLessThanWellFounded, Zenon
  <1>2. \A y \in T : <<y, x>> \in Nat \X Nat
    OBVIOUS
  <1>3. \A y \in T : ~(y < x)
    BY <1>1, <1>2 DEF OpToRel
  <1> QED
    BY <1>3

LEMMA SetInduction ==
  ASSUME NEW S, 0 \in S, \A n \in Nat : n \in S => n + 1 \in S
  PROVE  \A n \in Nat : n \in S
  <1> SUFFICES ASSUME Nat \ S # {} PROVE FALSE
    OBVIOUS
  <1>1. PICK x \in Nat \ S : \A y \in Nat \ S : x <= y
    BY LeastNatural
  <1>2. x # 0
    OBVIOUS
  <1>3. x - 1 \in Nat /\ x - 1 \in S
    BY <1>1, <1>2
  <1> QED
    BY <1>3
-----------------------------------------------------------------------------
(* The integer that digits spell. *)

Digit == 0 .. 9

LEMMA SameDigits ==
  ASSUME NEW s \in Seq(Digit), NEW t \in Seq(Digit), Len(s) = Len(t),
         \A i \in 1 .. Len(s) : s[i] = t[i]
  PROVE  s = t
  OBVIOUS

LEMMA ZeroesAre ==
  ASSUME NEW n \in Nat
  PROVE  /\ Zeroes(n) \in Seq(Digit) /\ Len(Zeroes(n)) = n
         /\ \A i \in 1 .. n : Zeroes(n)[i] = 0
  BY DEF Zeroes, Digit

LEMMA Joined ==
  ASSUME NEW s \in Seq(Digit), NEW t \in Seq(Digit)
  PROVE  /\ s \o t \in Seq(Digit) /\ Len(s \o t) = Len(s) + Len(t)
         /\ \A i \in 1 .. Len(s) : (s \o t)[i] = s[i]
         /\ \A i \in 1 .. Len(t) : (s \o t)[Len(s) + i] = t[i]
  OBVIOUS

\* f has the partial results of the first n digits.
Sums(d, n, f) ==
  /\ f \in [0 .. n -> Nat] /\ f[0] = 0
  /\ \A i \in 1 .. n : f[i] = 10 * f[i - 1] + d[i]

LEMMA SumsExist ==
  ASSUME NEW d \in Seq(Digit)
  PROVE  \E f : Sums(d, Len(d), f)
  <1> DEFINE S == {n \in Nat : n <= Len(d) => \E f : Sums(d, n, f)}
  <1>1. 0 \in S
    <2> DEFINE e == [i \in 0 .. 0 |-> 0]
    <2>1. Sums(d, 0, e)
      BY DEF Sums
    <2> QED
      BY <2>1
  <1>2. ASSUME NEW n \in Nat, n \in S PROVE n + 1 \in S
    <2> SUFFICES ASSUME n + 1 <= Len(d) PROVE \E f : Sums(d, n + 1, f)
      OBVIOUS
    <2>1. PICK f : Sums(d, n, f)
      BY <1>2
    <2>2. f[n] \in Nat /\ d[n + 1] \in Nat
      <3>1. n \in 0 .. n /\ n + 1 \in 1 .. Len(d)
        OBVIOUS
      <3>2. d[n + 1] \in Nat
        BY <3>1 DEF Digit
      <3> QED
        BY <2>1, <3>1, <3>2 DEF Sums
    <2> DEFINE x == 10 * f[n] + d[n + 1]
    <2>3. x \in Nat
      BY <2>2
    <2> HIDE DEF x
    <2> DEFINE g == [i \in 0 .. n + 1 |-> IF i = n + 1 THEN x ELSE f[i]]
    <2>4. g \in [0 .. n + 1 -> Nat] /\ g[n + 1] = x /\ \A i \in 0 .. n : g[i] = f[i]
      BY <2>1, <2>3 DEF Sums
    <2> HIDE DEF g
    <2>5. ASSUME NEW i \in 1 .. n + 1 PROVE g[i] = 10 * g[i - 1] + d[i]
      <3>1. CASE i = n + 1
        BY <2>4, <3>1 DEF x
      <3>2. CASE i # n + 1
        <4>1. i \in 1 .. n /\ g[i] = f[i] /\ g[i - 1] = f[i - 1]
          BY <2>4, <3>2
        <4> QED
          BY <2>1, <4>1 DEF Sums
      <3> QED
        BY <3>1, <3>2
    <2>6. Sums(d, n + 1, g)
      BY <2>1, <2>4, <2>5 DEF Sums
    <2> QED
      BY <2>6
  <1>3. Len(d) \in Nat
    OBVIOUS
  <1>4. Len(d) \in S
    <2> HIDE DEF S
    <2> QED
      BY <1>1, <1>2, <1>3, SetInduction
  <1> QED
    BY <1>3, <1>4

LEMMA SpelledIs ==
  ASSUME NEW d \in Seq(Digit), NEW f, Sums(d, Len(d), f)
  PROVE  Spelled(d) = f[Len(d)]
  <1> DEFINE L == Len(d)
             Fill(g, i) == IF i = 0 THEN 0 ELSE 10 * g[i - 1] + d[i]
             sum == CHOOSE g : g = [i \in 0 .. L |-> Fill(g, i)]
  <1>1. L \in Nat
    OBVIOUS
  <1>2. f = [i \in 0 .. L |-> Fill(f, i)]
    <2>1. f = [i \in 0 .. L |-> f[i]]
      BY DEF Sums
    <2>2. \A i \in 0 .. L : f[i] = Fill(f, i)
      <3> TAKE i \in 0 .. L
      <3>1. CASE i = 0
        BY <3>1 DEF Sums
      <3>2. CASE i # 0
        <4>1. i \in 1 .. L
          BY <1>1, <3>2
        <4> QED
          BY <3>2, <4>1 DEF Sums
      <3> QED
        BY <3>1, <3>2
    <2> HIDE DEF Fill
    <2> QED
      BY <2>1, <2>2
  <1>3. sum = [i \in 0 .. L |-> Fill(sum, i)]
    BY <1>2, Zenon
  <1>4. Spelled(d) = sum[L]
    BY Zenon DEF Spelled
  <1> HIDE DEF sum
  <1>5. sum[0] = 0 /\ \A i \in 1 .. L : sum[i] = 10 * sum[i - 1] + d[i]
    <2>1. \A i \in 0 .. L : sum[i] = Fill(sum, i)
      <3> HIDE DEF Fill
      <3> QED
        BY <1>3, Zenon
    <2>2. 0 \in 0 .. L /\ \A i \in 1 .. L : i \in 0 .. L /\ i # 0
      BY <1>1
    <2> QED
      BY <2>1, <2>2
  <1> HIDE DEF Fill
  <1> DEFINE S == {n \in Nat : n <= L => sum[n] = f[n]}
  <1>6. 0 \in S
    BY <1>5 DEF Sums
  <1>7. ASSUME NEW n \in Nat, n \in S PROVE n + 1 \in S
    <2> SUFFICES ASSUME n + 1 <= L PROVE sum[n + 1] = f[n + 1]
      OBVIOUS
    <2>1. sum[n] = f[n] /\ n + 1 \in 1 .. L /\ (n + 1) - 1 = n
      BY <1>1, <1>7
    <2>2. sum[n + 1] = 10 * sum[n] + d[n + 1]
      BY <1>5, <2>1
    <2>3. f[n + 1] = 10 * f[n] + d[n + 1]
      BY <2>1 DEF Sums
    <2> QED
      BY <2>1, <2>2, <2>3
  <1>8. L \in S
    <2> HIDE DEF S
    <2> QED
      BY <1>1, <1>6, <1>7, SetInduction
  <1> QED
    BY <1>1, <1>4, <1>8

LEMMA SpelledNatural ==
  ASSUME NEW d \in Seq(Digit)
  PROVE  Spelled(d) \in Nat
  <1>1. PICK f : Sums(d, Len(d), f)
    BY SumsExist
  <1> QED
    BY <1>1, SpelledIs DEF Sums

\* Two numbers with equally many digits are equal only if their digits are.
LEMMA SpelledOnce ==
  ASSUME NEW d \in Seq(Digit), NEW e \in Seq(Digit), Len(d) = Len(e), Spelled(d) = Spelled(e)
  PROVE  d = e
  <1>1. PICK f : Sums(d, Len(d), f)
    BY SumsExist
  <1>2. PICK g : Sums(e, Len(e), g)
    BY SumsExist
  <1> DEFINE L == Len(d)
             S == {n \in Nat : n <= L => f[L - n] = g[L - n]}
  <1>0. L \in Nat
    OBVIOUS
  <1>3. f[L] = g[L]
    BY <1>1, <1>2, SpelledIs
  <1>4. ASSUME NEW i \in 1 .. L, f[i] = g[i] PROVE f[i - 1] = g[i - 1] /\ d[i] = e[i]
    <2>1. PICK x \in 0 .. 9, y \in 0 .. 9 : d[i] = x /\ e[i] = y
      BY DEF Digit
    <2>2. i - 1 \in 0 .. L
      BY <1>0
    <2>3. PICK a \in Nat, b \in Nat : f[i - 1] = a /\ g[i - 1] = b
      BY <1>1, <1>2, <2>2 DEF Sums
    <2>4. 10 * a + x = 10 * b + y
      BY <1>1, <1>2, <1>4, <2>1, <2>3 DEF Sums
    <2>5. a = b /\ x = y
      BY <2>4
    <2> QED
      BY <2>1, <2>3, <2>5
  <1>5. 0 \in S
    BY <1>0, <1>3
  <1>6. ASSUME NEW n \in Nat, n \in S PROVE n + 1 \in S
    <2> SUFFICES ASSUME n + 1 <= L PROVE f[L - (n + 1)] = g[L - (n + 1)]
      OBVIOUS
    <2>1. L - n \in 1 .. L /\ f[L - n] = g[L - n] /\ (L - n) - 1 = L - (n + 1)
      BY <1>0, <1>6
    <2> QED
      BY <1>4, <2>1
  <1>7. \A n \in Nat : n \in S
    <2> HIDE DEF S
    <2> QED
      BY <1>5, <1>6, SetInduction
  <1>8. \A i \in 1 .. L : f[i] = g[i]
    <2> TAKE i \in 1 .. L
    <2>1. L - i \in Nat /\ L - i <= L /\ L - (L - i) = i
      BY <1>0
    <2> QED
      BY <1>7, <2>1
  <1>9. \A i \in 1 .. L : d[i] = e[i]
    BY <1>4, <1>8
  <1> QED
    BY <1>9, SameDigits

\* Zeroes in front do not count.
LEMMA SpelledPadded ==
  ASSUME NEW d \in Seq(Digit), NEW k \in Nat
  PROVE  Spelled(Zeroes(k) \o d) = Spelled(d)
  <1> DEFINE p == Zeroes(k) \o d
             L == Len(d)
  <1>1. PICK f : Sums(d, L, f)
    BY SumsExist
  <1>2. /\ p \in Seq(Digit) /\ Len(p) = k + L /\ L \in Nat
        /\ \A i \in 1 .. k : p[i] = 0
        /\ \A i \in 1 .. L : p[k + i] = d[i]
    <2>1. /\ Zeroes(k) \in Seq(Digit) /\ Len(Zeroes(k)) = k
          /\ \A i \in 1 .. k : Zeroes(k)[i] = 0
      BY ZeroesAre
    <2>2. PICK z \in Seq(Digit) : z = Zeroes(k)
      BY <2>1
    <2>3. p = z \o d
      BY <2>2
    <2> HIDE DEF p
    <2>4. /\ p \in Seq(Digit) /\ Len(p) = Len(z) + L
          /\ \A i \in 1 .. Len(z) : p[i] = z[i]
          /\ \A i \in 1 .. L : p[Len(z) + i] = d[i]
      BY <2>3, Joined
    <2>5. Len(z) = k /\ \A i \in 1 .. k : z[i] = 0
      BY <2>1, <2>2
    <2>6. L \in Nat
      OBVIOUS
    <2> QED
      BY <2>4, <2>5, <2>6
  <1> HIDE DEF p
  <1> DEFINE g == [i \in 0 .. k + L |-> IF i <= k THEN 0 ELSE f[i - k]]
  <1>3. /\ g \in [0 .. k + L -> Nat]
        /\ \A i \in 0 .. k : g[i] = 0
        /\ \A i \in 0 .. L : g[k + i] = f[i]
    <2>1. f[0] = 0 /\ \A i \in 0 .. L : f[i] \in Nat
      BY <1>1 DEF Sums
    <2>2. \A i \in 0 .. k + L : i > k => i - k \in 0 .. L
      BY <1>2
    <2>3. \A i \in 0 .. L : k + i \in 0 .. k + L /\ (k + i <= k => i = 0) /\ (k + i) - k = i
      BY <1>2
    <2>4. \A i \in 0 .. k : i \in 0 .. k + L /\ i <= k
      BY <1>2
    <2>5. g \in [0 .. k + L -> Nat]
      BY <2>1, <2>2
    <2>6. \A i \in 0 .. k : g[i] = 0
      BY <2>4
    <2>7. \A i \in 0 .. L : g[k + i] = f[i]
      BY <2>1, <2>3
    <2> QED
      BY <2>5, <2>6, <2>7
  <1> HIDE DEF g
  <1>4. ASSUME NEW i \in 1 .. k + L PROVE g[i] = 10 * g[i - 1] + p[i]
    <2>1. CASE i <= k
      <3>1. i \in 1 .. k /\ i \in 0 .. k /\ i - 1 \in 0 .. k
        BY <2>1
      <3> QED
        BY <1>2, <1>3, <3>1
    <2>2. CASE i > k
      <3>1. PICK j \in 1 .. L : i = k + j
        <4>1. i - k \in 1 .. L /\ i = k + (i - k)
          BY <1>2, <2>2
        <4> QED
          BY <4>1
      <3>2. j \in 0 .. L /\ j - 1 \in 0 .. L /\ i - 1 = k + (j - 1)
        BY <3>1
      <3>3. g[i] = f[j] /\ g[i - 1] = f[j - 1] /\ p[i] = d[j]
        BY <1>2, <1>3, <3>1, <3>2
      <3>4. f[j] = 10 * f[j - 1] + d[j]
        BY <1>1, <3>1 DEF Sums
      <3> QED
        BY <3>3, <3>4
    <2> QED
      BY <2>1, <2>2
  <1>5. g[0] = 0
    BY <1>3
  <1>6. Sums(p, Len(p), g)
    BY <1>2, <1>3, <1>4, <1>5 DEF Sums
  <1>7. Spelled(p) = g[k + L] /\ Spelled(d) = f[L]
    BY <1>1, <1>2, <1>6, SpelledIs
  <1>8. g[k + L] = f[L]
    BY <1>2, <1>3
  <1> QED
    BY <1>7, <1>8 DEF p

LEMMA SpelledZeroes ==
  ASSUME NEW k \in Nat
  PROVE  Spelled(Zeroes(k)) = 0
  <1> DEFINE g == [i \in 0 .. k |-> 0]
  <1>1. Sums(Zeroes(k), k, g)
    BY ZeroesAre DEF Sums
  <1> HIDE DEF g
  <1>2. Spelled(Zeroes(k)) = g[k]
    BY <1>1, ZeroesAre, SpelledIs
  <1> QED
    BY <1>2 DEF g

\* Only zeroes spell zero.
LEMMA SpelledZero ==
  ASSUME NEW d \in Seq(Digit), Spelled(d) = 0, NEW i \in 1 .. Len(d)
  PROVE  d[i] = 0
  <1>1. Len(d) \in Nat
    OBVIOUS
  <1>2. d = Zeroes(Len(d))
    BY <1>1, SpelledOnce, SpelledZeroes, ZeroesAre
  <1> QED
    BY <1>1, <1>2, ZeroesAre
-----------------------------------------------------------------------------
(* Cutting and joining digits. *)

LEMMA Part ==
  ASSUME NEW d \in Seq(Digit), NEW a \in Nat, NEW b \in Nat, 1 <= a, a <= b + 1, b <= Len(d)
  PROVE  /\ SubSeq(d, a, b) \in Seq(Digit) /\ Len(SubSeq(d, a, b)) = b - a + 1
         /\ \A i \in 1 .. b - a + 1 : SubSeq(d, a, b)[i] = d[a + i - 1]
  <1>1. \A i \in a .. b : d[i] \in Digit
    BY ElementOfSeq
  <1>2. /\ SubSeq(d, a, b) \in Seq(Digit)
        /\ Len(SubSeq(d, a, b)) = IF a <= b THEN b - a + 1 ELSE 0
        /\ \A i \in 1 .. b - a + 1 : SubSeq(d, a, b)[i] = d[a + i - 1]
    BY <1>1, SubSeqProperties
  <1> QED
    BY <1>2

\* A sequence is its first k digits and the others.
LEMMA Halves ==
  ASSUME NEW d \in Seq(Digit), NEW k \in 0 .. Len(d)
  PROVE  d = SubSeq(d, 1, k) \o SubSeq(d, k + 1, Len(d))
  <1>1. Len(d) \in Nat
    OBVIOUS
  <1>2. SubSeq(d, 1, k) \o SubSeq(d, k + 1, Len(d)) = SubSeq(d, 1, Len(d))
    <2>1. 1 \in 1 .. Len(d) + 1 /\ k \in 1 - 1 .. Len(d) /\ Len(d) \in k .. Len(d)
      BY <1>1
    <2> QED
      BY <2>1, ConcatAdjacentSubSeq
  <1> QED
    BY <1>2, SubSeqFull

LEMMA AllZeroes ==
  ASSUME NEW d \in Seq(Digit), \A i \in 1 .. Len(d) : d[i] = 0
  PROVE  d = Zeroes(Len(d))
  <1>1. Len(d) \in Nat
    OBVIOUS
  <1>2. PICK z \in Seq(Digit) : z = Zeroes(Len(d))
    BY <1>1, ZeroesAre
  <1>3. Len(z) = Len(d) /\ \A i \in 1 .. Len(d) : z[i] = 0
    BY <1>1, <1>2, ZeroesAre
  <1>4. d = z
    BY <1>3, SameDigits
  <1> QED
    BY <1>2, <1>4

LEMMA ZeroesJoin ==
  ASSUME NEW a \in Nat, NEW b \in Nat
  PROVE  Zeroes(a) \o Zeroes(b) = Zeroes(a + b)
  <1>1. PICK s \in Seq(Digit) : s = Zeroes(a)
    BY ZeroesAre
  <1>2. PICK t \in Seq(Digit) : t = Zeroes(b)
    BY ZeroesAre
  <1>3. Len(s) = a /\ Len(t) = b /\ (\A i \in 1 .. a : s[i] = 0) /\ \A i \in 1 .. b : t[i] = 0
    BY <1>1, <1>2, ZeroesAre
  <1>4. PICK p \in Seq(Digit) : p = s \o t
    BY Joined
  <1>5. /\ Len(p) = Len(s) + Len(t)
        /\ \A i \in 1 .. Len(s) : p[i] = s[i]
        /\ \A i \in 1 .. Len(t) : p[Len(s) + i] = t[i]
    BY <1>4, Joined
  <1>6. Len(p) = a + b
    BY <1>3, <1>5
  <1>7. ASSUME NEW i \in 1 .. a + b PROVE p[i] = 0
    <2>1. CASE i <= a
      BY <1>3, <1>5, <2>1
    <2>2. CASE i > a
      <3>1. i - a \in 1 .. b /\ i = a + (i - a)
        BY <2>2
      <3> QED
        BY <1>3, <1>5, <3>1
    <2> QED
      BY <2>1, <2>2
  <1>8. p = Zeroes(a + b)
    BY <1>6, <1>7, AllZeroes
  <1> QED
    BY <1>1, <1>2, <1>4, <1>8

LEMMA NoZeroes == Zeroes(0) = <<>>
  <1>1. Zeroes(0) \in Seq(Digit) /\ Len(Zeroes(0)) = 0
    BY ZeroesAre
  <1> QED
    BY <1>1, EmptySeq

LEMMA OneZero == Zeroes(1) = <<0>>
  <1>1. PICK z \in Seq(Digit) : z = Zeroes(1)
    BY ZeroesAre
  <1>2. Len(z) = 1 /\ z[1] = 0
    <2>1. Len(Zeroes(1)) = 1 /\ \A i \in 1 .. 1 : Zeroes(1)[i] = 0
      BY ZeroesAre
    <2> QED
      BY <1>1, <2>1
  <1>3. <<0>> \in Seq(Digit) /\ Len(<<0>>) = 1 /\ <<0>>[1] = 0
    BY DEF Digit
  <1>4. z = <<0>>
    BY <1>2, <1>3
  <1> QED
    BY <1>1, <1>4

\* TrimLeft cuts the zeroes in front, all of them and nothing else.
LEMMA Trimmed ==
  ASSUME NEW d \in Seq(Digit)
  PROVE  \E z \in 0 .. Len(d) :
           /\ TrimLeft(d) = SubSeq(d, z + 1, Len(d))
           /\ \A i \in 1 .. z : d[i] = 0
           /\ z < Len(d) => d[z + 1] # 0
  <1> DEFINE kept == {i \in DOMAIN d : \E j \in 1 .. i : d[j] # 0}
             nonzero == {i \in 1 .. Len(d) : d[i] # 0}
  <1>1. Len(d) \in Nat /\ DOMAIN d = 1 .. Len(d)
    OBVIOUS
  <1>2. TrimLeft(d) = SubSeq(d, Len(d) - Cardinality(kept) + 1, Len(d))
    BY DEF TrimLeft
  <1>3. CASE nonzero = {}
    <2>1. \A i \in 1 .. Len(d) : d[i] = 0
      BY <1>3
    <2>2. kept = {}
      BY <1>1, <2>1
    <2>3. Cardinality(kept) = 0
      BY <2>2, FS_EmptySet
    <2>4. TrimLeft(d) = SubSeq(d, Len(d) + 1, Len(d))
      <3>1. Len(d) - Cardinality(kept) + 1 = Len(d) + 1
        BY <1>1, <2>3
      <3> QED
        BY <1>2, <3>1
    <2> QED
      BY <1>1, <2>1, <2>4
  <1>4. CASE nonzero # {}
    <2>1. PICK x \in nonzero : \A y \in nonzero : x <= y
      <3>1. nonzero \subseteq Nat
        OBVIOUS
      <3> QED
        BY <1>4, <3>1, LeastNatural
    <2>2. x \in 1 .. Len(d) /\ d[x] # 0 /\ \A i \in 1 .. Len(d) : i < x => d[i] = 0
      BY <2>1
    <2>3. kept = x .. Len(d)
      BY <1>1, <2>2
    <2>4. Cardinality(kept) = Len(d) - x + 1
      <3>1. Cardinality(x .. Len(d)) = Len(d) - x + 1
        BY <1>1, <2>2, FS_Interval
      <3> QED
        BY <2>3, <3>1
    <2>5. TrimLeft(d) = SubSeq(d, x, Len(d))
      <3>1. Len(d) - Cardinality(kept) + 1 = x
        BY <1>1, <2>2, <2>4
      <3> QED
        BY <1>2, <3>1
    <2>6. x - 1 \in 0 .. Len(d) /\ (x - 1) + 1 = x
      BY <1>1, <2>2
    <2>7. \A i \in 1 .. x - 1 : d[i] = 0
      BY <1>1, <2>2
    <2> QED
      BY <2>2, <2>5, <2>6, <2>7
  <1> QED
    BY <1>3, <1>4

\* Trailing counts the zeroes at the end.
LEMMA TrailingIs ==
  ASSUME NEW d \in Seq(Digit)
  PROVE  /\ Trailing(d) \in 0 .. Len(d)
         /\ \A i \in Len(d) - Trailing(d) + 1 .. Len(d) : d[i] = 0
         /\ Trailing(d) < Len(d) => d[Len(d) - Trailing(d)] # 0
  <1> DEFINE L == Len(d)
             tail == {i \in DOMAIN d : \A j \in i .. L : d[j] = 0}
             gaps == {n \in 0 .. L - 1 : d[L - n] # 0}
  <1>1. L \in Nat /\ DOMAIN d = 1 .. L
    OBVIOUS
  <1>2. Trailing(d) = Cardinality(tail)
    BY DEF Trailing
  <1>3. CASE gaps = {}
    <2>1. ASSUME NEW i \in 1 .. L PROVE d[i] = 0
      <3>1. L - i \in 0 .. L - 1 /\ L - (L - i) = i
        BY <1>1
      <3> QED
        BY <1>3, <3>1
    <2>2. tail = 1 .. L
      BY <1>1, <2>1
    <2>3. Cardinality(1 .. L) = L
      BY <1>1, FS_Interval
    <2>4. Trailing(d) = L
      BY <1>2, <2>2, <2>3
    <2> QED
      BY <1>1, <2>1, <2>4
  <1>4. CASE gaps # {}
    <2>1. PICK n \in gaps : \A m \in gaps : n <= m
      <3>1. gaps \subseteq Nat
        OBVIOUS
      <3> QED
        BY <1>4, <3>1, LeastNatural
    <2>2. n \in 0 .. L - 1 /\ d[L - n] # 0 /\ n \in Nat
      BY <1>1, <2>1
    <2>3. ASSUME NEW i \in L - n + 1 .. L PROVE d[i] = 0
      <3>1. PICK m \in 0 .. L - 1 : L - m = i /\ ~(n <= m)
        <4>1. L - i \in 0 .. L - 1 /\ L - (L - i) = i /\ ~(n <= L - i)
          BY <1>1, <2>2
        <4> QED
          BY <4>1
      <3>2. m \notin gaps
        BY <2>1, <3>1
      <3> QED
        BY <3>1, <3>2
    <2>4. tail = L - n + 1 .. L
      <3>1. ASSUME NEW i \in tail PROVE i \in L - n + 1 .. L
        <4>1. i \in 1 .. L /\ \A j \in i .. L : d[j] = 0
          BY <1>1
        <4>2. ~ (L - n \in i .. L)
          BY <2>2, <4>1
        <4> QED
          BY <1>1, <2>2, <4>1, <4>2
      <3>2. ASSUME NEW i \in L - n + 1 .. L PROVE i \in tail
        <4>1. i \in 1 .. L /\ \A j \in i .. L : j \in L - n + 1 .. L
          BY <1>1, <2>2
        <4> QED
          BY <1>1, <2>3, <4>1
      <3> QED
        BY <3>1, <3>2
    <2>5. Cardinality(L - n + 1 .. L) = n
      <3>1. L - n + 1 \in Int /\ L \in Int /\ L - (L - n + 1) + 1 = n /\ (L - n + 1 > L => n = 0)
        BY <1>1, <2>2
      <3> QED
        BY <3>1, FS_Interval
    <2>6. Trailing(d) = n
      BY <1>2, <2>4, <2>5
    <2> QED
      BY <1>1, <2>2, <2>3, <2>6
  <1> QED
    BY <1>3, <1>4
-----------------------------------------------------------------------------
(* The canonical texts of numbers. *)

LEMMA PrecisionNatural == Precision \in Nat
  BY CanonicalAssumption DEF Precision

\* The digits before and behind the point of a canonical text.
NormalForm(whole, fraction) ==
  /\ whole \in Seq(Digit) /\ Len(whole) >= 1 /\ (Len(whole) > 1 => whole[1] # 0)
  /\ fraction \in Seq(Digit) /\ Len(fraction) <= Precision
  /\ Len(fraction) > 0 => fraction[Len(fraction)] # 0

\* Its digits down to the last place that a literal can have.
Scaled(whole, fraction) == (whole \o fraction) \o Zeroes(Precision - Len(fraction))

LEMMA Regrouped ==
  ASSUME NEW s \in Seq(Digit), NEW t \in Seq(Digit), NEW u \in Seq(Digit)
  PROVE  (s \o t) \o u = s \o (t \o u)
  <1>1. \A S : \A a, b, c \in Seq(S) : (a \o b) \o c = a \o (b \o c)
    BY ConcatAssociative
  <1> QED
    BY <1>1

LEMMA ScaledIs ==
  ASSUME NEW w, NEW f, NormalForm(w, f)
  PROVE  /\ Scaled(w, f) \in Seq(Digit) /\ Len(Scaled(w, f)) = Len(w) + Precision
         /\ \A i \in 1 .. Len(w) : Scaled(w, f)[i] = w[i]
         /\ \A i \in 1 .. Len(f) : Scaled(w, f)[Len(w) + i] = f[i]
         /\ \A i \in Len(f) + 1 .. Precision : Scaled(w, f)[Len(w) + i] = 0
  <1>1. w \in Seq(Digit) /\ f \in Seq(Digit) /\ Len(f) <= Precision
    BY DEF NormalForm
  <1>2. Len(w) \in Nat /\ Len(f) \in Nat /\ Precision \in Nat /\ Precision - Len(f) \in Nat
    BY <1>1, PrecisionNatural
  <1>3. PICK z \in Seq(Digit) : z = Zeroes(Precision - Len(f))
    BY <1>2, ZeroesAre
  <1>4. Len(z) = Precision - Len(f) /\ \A i \in 1 .. Precision - Len(f) : z[i] = 0
    BY <1>2, <1>3, ZeroesAre
  <1>5. PICK p \in Seq(Digit) : p = w \o f
    BY <1>1, Joined
  <1>6. /\ Len(p) = Len(w) + Len(f)
        /\ \A i \in 1 .. Len(w) : p[i] = w[i]
        /\ \A i \in 1 .. Len(f) : p[Len(w) + i] = f[i]
    BY <1>1, <1>5, Joined
  <1>7. PICK q \in Seq(Digit) : q = p \o z
    BY Joined
  <1>8. /\ Len(q) = Len(p) + Len(z)
        /\ \A i \in 1 .. Len(p) : q[i] = p[i]
        /\ \A i \in 1 .. Len(z) : q[Len(p) + i] = z[i]
    BY <1>7, Joined
  <1>9. q = Scaled(w, f)
    BY <1>3, <1>5, <1>7 DEF Scaled
  <1>10. Len(q) = Len(w) + Precision
    BY <1>2, <1>4, <1>6, <1>8
  <1>11. \A i \in 1 .. Len(w) : q[i] = w[i]
    BY <1>2, <1>6, <1>8
  <1>12. ASSUME NEW i \in 1 .. Len(f) PROVE q[Len(w) + i] = f[i]
    <2>1. Len(w) + i \in 1 .. Len(p)
      BY <1>2, <1>6
    <2> QED
      BY <1>6, <1>8, <2>1
  <1>13. ASSUME NEW i \in Len(f) + 1 .. Precision PROVE q[Len(w) + i] = 0
    <2>1. PICK j \in 1 .. Len(z) : Len(w) + i = Len(p) + j
      <3>1. i - Len(f) \in 1 .. Len(z) /\ Len(w) + i = Len(p) + (i - Len(f))
        BY <1>2, <1>4, <1>6
      <3> QED
        BY <3>1
    <2>2. q[Len(p) + j] = z[j] /\ z[j] = 0
      BY <1>4, <1>8
    <2> QED
      BY <2>1, <2>2
  <1> QED
    BY <1>9, <1>10, <1>11, <1>12, <1>13

\* A text with more digits before the point spells another number.
LEMMA LongerWhole ==
  ASSUME NEW w, NEW f, NormalForm(w, f), NEW v, NEW g, NormalForm(v, g),
         Spelled(Scaled(w, f)) = Spelled(Scaled(v, g))
  PROVE  ~(Len(w) > Len(v))
  <1> SUFFICES ASSUME Len(w) > Len(v) PROVE FALSE
    OBVIOUS
  <1>1. w \in Seq(Digit) /\ Len(w) \in Nat /\ v \in Seq(Digit) /\ Len(v) \in Nat /\ Len(v) >= 1
    BY DEF NormalForm
  <1>2. PICK k \in Nat : k = Len(w) - Len(v) /\ k > 0
    BY <1>1
  <1>3. PICK p \in Seq(Digit) : p = Scaled(w, f)
    BY ScaledIs
  <1>4. PICK q \in Seq(Digit) : q = Scaled(v, g)
    BY ScaledIs
  <1>5. Len(p) = Len(w) + Precision /\ Len(q) = Len(v) + Precision /\ p[1] = w[1]
    <2>1. Len(p) = Len(w) + Precision /\ \A i \in 1 .. Len(w) : p[i] = w[i]
      BY <1>3, ScaledIs
    <2>2. Len(q) = Len(v) + Precision
      BY <1>4, ScaledIs
    <2> QED
      BY <1>1, <2>1, <2>2
  <1>6. PICK z \in Seq(Digit) : z = Zeroes(k)
    BY ZeroesAre
  <1>7. Len(z) = k /\ z[1] = 0
    <2>1. Len(z) = k /\ \A i \in 1 .. k : z[i] = 0
      BY <1>6, ZeroesAre
    <2> QED
      BY <1>2, <2>1
  <1>8. PICK r \in Seq(Digit) : r = z \o q
    BY Joined
  <1>9. Len(r) = Len(p) /\ r[1] = 0
    <2>1. Len(r) = Len(z) + Len(q) /\ \A i \in 1 .. Len(z) : r[i] = z[i]
      BY <1>8, Joined
    <2>2. Len(r) = Len(p)
      BY <1>1, <1>2, <1>5, <1>7, <2>1, PrecisionNatural
    <2>3. 1 \in 1 .. Len(z)
      BY <1>2, <1>7
    <2> QED
      BY <1>7, <2>1, <2>2, <2>3
  <1>10. Spelled(r) = Spelled(p)
    <2>1. Spelled(r) = Spelled(q)
      BY <1>6, <1>8, SpelledPadded
    <2> QED
      BY <1>3, <1>4, <2>1
  <1>11. r = p
    BY <1>9, <1>10, SpelledOnce
  <1>12. w[1] # 0
    BY <1>1 DEF NormalForm
  <1> QED
    BY <1>5, <1>9, <1>11, <1>12

\* With equally many digits before it, not more behind it.
LEMMA LongerFraction ==
  ASSUME NEW w, NEW f, NormalForm(w, f), NEW v, NEW g, NormalForm(v, g),
         Scaled(w, f) = Scaled(v, g), Len(w) = Len(v)
  PROVE  ~(Len(f) > Len(g))
  <1>0. \A i \in 1 .. Len(f) : Scaled(w, f)[Len(w) + i] = f[i]
    <2>1. PICK p \in Seq(Digit) : p = Scaled(w, f)
      BY ScaledIs
    <2>2. \A i \in 1 .. Len(f) : p[Len(w) + i] = f[i]
      BY <2>1, ScaledIs
    <2> QED
      BY <2>1, <2>2
  <1> SUFFICES ASSUME Len(f) > Len(g) PROVE FALSE
    OBVIOUS
  <1>1. PICK W \in Nat, F \in Nat, G \in Nat : W = Len(w) /\ F = Len(f) /\ G = Len(g)
    BY DEF NormalForm
  <1>2. F \in 1 .. F /\ F \in G + 1 .. Precision
    BY <1>1, PrecisionNatural DEF NormalForm
  <1>3. Scaled(w, f)[W + F] = f[F]
    BY <1>0, <1>1, <1>2
  <1>4. Scaled(v, g)[W + F] = 0
    <2>1. \A i \in Len(g) + 1 .. Precision : Scaled(v, g)[Len(v) + i] = 0
      BY ScaledIs
    <2> QED
      BY <1>1, <1>2, <2>1
  <1>5. f[F] # 0
    BY <1>1, <1>2 DEF NormalForm
  <1> QED
    BY <1>3, <1>4, <1>5

\* A number has one normal form.
LEMMA NormalOnce ==
  ASSUME NEW w, NEW f, NormalForm(w, f), NEW v, NEW g, NormalForm(v, g),
         Spelled(Scaled(w, f)) = Spelled(Scaled(v, g))
  PROVE  w = v /\ f = g
  <1>1. /\ w \in Seq(Digit) /\ v \in Seq(Digit) /\ f \in Seq(Digit) /\ g \in Seq(Digit)
        /\ Len(w) \in Nat /\ Len(v) \in Nat /\ Len(f) \in Nat /\ Len(g) \in Nat
    BY DEF NormalForm
  <1>2. Len(w) = Len(v)
    <2>1. ~(Len(w) > Len(v)) /\ ~(Len(v) > Len(w))
      BY LongerWhole
    <2> QED
      BY <1>1, <2>1
  <1>3. PICK p \in Seq(Digit) : p = Scaled(w, f)
    BY ScaledIs
  <1>4. PICK q \in Seq(Digit) : q = Scaled(v, g)
    BY ScaledIs
  <1>5. p = q
    <2>1. Len(p) = Len(q)
      BY <1>2, <1>3, <1>4, ScaledIs
    <2> QED
      BY <1>3, <1>4, <2>1, SpelledOnce
  <1>6. Len(f) = Len(g)
    <2>1. ~(Len(f) > Len(g)) /\ ~(Len(g) > Len(f))
      BY <1>2, <1>3, <1>4, <1>5, LongerFraction
    <2> QED
      BY <1>1, <2>1
  <1>7. w = v
    <2>1. (\A i \in 1 .. Len(w) : p[i] = w[i]) /\ \A i \in 1 .. Len(v) : q[i] = v[i]
      BY <1>3, <1>4, ScaledIs
    <2>2. \A i \in 1 .. Len(w) : w[i] = v[i]
      BY <1>2, <1>5, <2>1
    <2> QED
      BY <1>1, <1>2, <2>2, SameDigits
  <1>8. f = g
    <2>1. /\ \A i \in 1 .. Len(f) : p[Len(w) + i] = f[i]
          /\ \A i \in 1 .. Len(g) : q[Len(v) + i] = g[i]
      BY <1>3, <1>4, ScaledIs
    <2>2. \A i \in 1 .. Len(f) : f[i] = g[i]
      BY <1>2, <1>5, <1>6, <2>1
    <2> QED
      BY <1>1, <1>6, <2>2, SameDigits
  <1> QED
    BY <1>7, <1>8

\* How NormalizeNumber places the point.
WholeOf(digits, scale) ==
  CASE scale <= 0 -> digits \o Zeroes(-scale)
    [] scale > 0 /\ scale < Len(digits) -> SubSeq(digits, 1, Len(digits) - scale)
    [] OTHER -> <<0>>
FractionOf(digits, scale) ==
  CASE scale <= 0 -> <<>>
    [] scale > 0 /\ scale < Len(digits) -> SubSeq(digits, Len(digits) - scale + 1, Len(digits))
    [] OTHER -> Zeroes(scale - Len(digits)) \o digits

LEMMA Pointed ==
  ASSUME NEW d \in Seq(Digit), Len(d) >= 1, d[1] # 0,
         NEW s \in Int, s <= Precision, s > 0 => d[Len(d)] # 0
  PROVE  /\ NormalForm(WholeOf(d, s), FractionOf(d, s))
         /\ Spelled(Scaled(WholeOf(d, s), FractionOf(d, s))) = Spelled(d \o Zeroes(Precision - s))
  <1>1. PICK L \in Nat : L = Len(d) /\ L >= 1
    OBVIOUS
  <1>2. PICK P \in Nat : P = Precision
    BY PrecisionNatural
  <1>3. CASE s <= 0
    <2>1. PICK k \in Nat : k = -s
      BY <1>3
    <2>2. PICK z \in Seq(Digit) : z = Zeroes(k)
      BY ZeroesAre
    <2>3. PICK y \in Seq(Digit) : y = Zeroes(P)
      BY ZeroesAre
    <2>4. PICK w \in Seq(Digit) : w = d \o z
      BY Joined
    <2>5. WholeOf(d, s) = w /\ FractionOf(d, s) = <<>>
      BY <1>3, <2>1, <2>2, <2>4 DEF WholeOf, FractionOf
    <2>6. Len(w) = L + k /\ w[1] = d[1]
      <3>1. Len(w) = Len(d) + Len(z) /\ \A i \in 1 .. Len(d) : w[i] = d[i]
        BY <2>4, Joined
      <3>2. Len(z) = k /\ 1 \in 1 .. Len(d)
        BY <1>1, <2>2, ZeroesAre
      <3> QED
        BY <1>1, <3>1, <3>2
    <2>7. <<>> \in Seq(Digit) /\ Len(<<>>) = 0
      BY EmptySeq
    <2>8. NormalForm(w, <<>>)
      BY <1>1, <1>2, <2>6, <2>7 DEF NormalForm
    <2>9. Scaled(w, <<>>) = w \o y
      <3>1. w \o <<>> = w
        BY ConcatEmptySeq
      <3>2. Precision - Len(<<>>) = P
        BY <1>2, <2>7
      <3> QED
        BY <2>3, <3>1, <3>2 DEF Scaled
    <2>10. w \o y = d \o (z \o y)
      BY <2>4, Regrouped
    <2>11. z \o y = Zeroes(Precision - s)
      <3>1. Precision - s = k + P
        BY <1>2, <2>1
      <3> QED
        BY <2>2, <2>3, <3>1, ZeroesJoin
    <2> QED
      BY <2>5, <2>8, <2>9, <2>10, <2>11
  <1>4. CASE s > 0 /\ s < L
    <2>1. PICK w \in Seq(Digit) : w = SubSeq(d, 1, L - s)
      <3>1. L - s \in Nat /\ 1 \in Nat /\ 1 <= (L - s) + 1 /\ L - s <= Len(d)
        BY <1>1, <1>4
      <3>2. SubSeq(d, 1, L - s) \in Seq(Digit)
        BY <3>1, Part
      <3> QED
        BY <3>2
    <2>2. Len(w) = L - s /\ w[1] = d[1]
      <3>1. L - s \in Nat /\ 1 \in Nat /\ 1 <= (L - s) + 1 /\ L - s <= Len(d)
        BY <1>1, <1>4
      <3>2. Len(w) = (L - s) - 1 + 1 /\ \A i \in 1 .. (L - s) - 1 + 1 : w[i] = d[1 + i - 1]
        BY <2>1, <3>1, Part
      <3> QED
        BY <1>1, <1>4, <3>2
    <2>3. PICK f \in Seq(Digit) : f = SubSeq(d, L - s + 1, L)
      <3>1. L - s + 1 \in Nat /\ 1 <= L - s + 1 /\ L - s + 1 <= L + 1 /\ L <= Len(d)
        BY <1>1, <1>4
      <3>2. SubSeq(d, L - s + 1, L) \in Seq(Digit)
        BY <3>1, Part
      <3> QED
        BY <3>2
    <2>4. Len(f) = s /\ f[s] = d[L]
      <3>1. L - s + 1 \in Nat /\ L \in Nat /\ 1 <= L - s + 1 /\ L - s + 1 <= L + 1 /\ L <= Len(d)
        BY <1>1, <1>4
      <3>2. /\ Len(f) = L - (L - s + 1) + 1
            /\ \A i \in 1 .. L - (L - s + 1) + 1 : f[i] = d[(L - s + 1) + i - 1]
        BY <2>3, <3>1, Part
      <3>3. L - (L - s + 1) + 1 = s /\ s \in 1 .. s /\ (L - s + 1) + s - 1 = L
        BY <1>1, <1>4
      <3>4. f[s] = d[(L - s + 1) + s - 1]
        BY <3>2, <3>3
      <3> QED
        BY <3>2, <3>3, <3>4
    <2>5. WholeOf(d, s) = w /\ FractionOf(d, s) = f
      <3>1. ~(s <= 0) /\ s > 0 /\ s < Len(d)
        BY <1>1, <1>4
      <3>2. WholeOf(d, s) = SubSeq(d, 1, Len(d) - s)
        BY <3>1 DEF WholeOf
      <3>3. FractionOf(d, s) = SubSeq(d, Len(d) - s + 1, Len(d))
        BY <3>1 DEF FractionOf
      <3> QED
        BY <1>1, <2>1, <2>3, <3>2, <3>3
    <2>6. NormalForm(w, f)
      BY <1>1, <1>2, <1>4, <2>2, <2>4 DEF NormalForm
    <2>7. w \o f = d
      <3>1. L - s \in 0 .. Len(d)
        BY <1>1, <1>4
      <3> QED
        BY <1>1, <2>1, <2>3, <3>1, Halves
    <2>8. Scaled(w, f) = d \o Zeroes(Precision - s)
      BY <2>4, <2>7 DEF Scaled
    <2> QED
      BY <2>5, <2>6, <2>8
  <1>5. CASE s > 0 /\ s >= L
    <2>1. PICK k \in Nat : k = s - L
      BY <1>1, <1>5
    <2>2. PICK z \in Seq(Digit) : z = Zeroes(k)
      BY ZeroesAre
    <2>3. PICK y \in Seq(Digit) : y = Zeroes(Precision - s)
      <3>1. Precision - s \in Nat
        BY <1>2
      <3> QED
        BY <3>1, ZeroesAre
    <2>4. PICK f \in Seq(Digit) : f = z \o d
      BY Joined
    <2>5. PICK w \in Seq(Digit) : w = <<0>>
      BY OneZero, ZeroesAre
    <2>6. Len(w) = 1 /\ w = Zeroes(1)
      BY <2>5, OneZero
    <2>7. WholeOf(d, s) = w /\ FractionOf(d, s) = f
      BY <1>1, <1>5, <2>1, <2>2, <2>4, <2>5 DEF WholeOf, FractionOf
    <2>8. Len(f) = s /\ f[s] = d[L]
      <3>1. /\ Len(f) = Len(z) + Len(d)
            /\ \A i \in 1 .. Len(d) : f[Len(z) + i] = d[i]
        BY <2>4, Joined
      <3>2. Len(z) = k
        BY <2>2, ZeroesAre
      <3>3. k + L = s /\ L \in 1 .. L
        BY <1>1, <2>1
      <3>4. f[k + L] = d[L]
        BY <1>1, <3>1, <3>2, <3>3
      <3> QED
        BY <1>1, <3>1, <3>2, <3>3, <3>4
    <2>9. NormalForm(w, f)
      BY <1>1, <1>2, <1>5, <2>6, <2>8 DEF NormalForm
    <2>10. PICK x \in Seq(Digit) : x = d \o y
      BY Joined
    <2>11. Scaled(w, f) = (w \o f) \o y
      BY <2>3, <2>8 DEF Scaled
    <2>12. (w \o f) \o y = w \o (f \o y)
      BY Regrouped
    <2>13. f \o y = z \o x
      <3>1. (z \o d) \o y = z \o (d \o y)
        BY Regrouped
      <3> QED
        BY <2>4, <2>10, <3>1
    <2>14. w \o (z \o x) = (w \o z) \o x
      BY Regrouped
    <2>15. w \o z = Zeroes(1 + k)
      BY <2>2, <2>6, ZeroesJoin
    <2>16. Scaled(w, f) = Zeroes(1 + k) \o x
      BY <2>11, <2>12, <2>13, <2>14, <2>15
    <2>17. Spelled(Zeroes(1 + k) \o x) = Spelled(x)
      BY SpelledPadded
    <2> QED
      BY <2>3, <2>7, <2>9, <2>10, <2>16, <2>17
  <1> QED
    BY <1>1, <1>3, <1>4, <1>5
-----------------------------------------------------------------------------
(* What NormalizeNumber computes. *)

LEMMA LiteralDigits ==
  ASSUME NEW n \in Literals
  PROVE  /\ n.negative \in BOOLEAN /\ n.digits \in Seq(Digit) /\ Len(n.digits) >= 1
         /\ n.fraction \in Nat /\ n.exponent \in Int
         /\ n.fraction - n.exponent <= Precision
  <1>1. /\ n.negative \in BOOLEAN /\ n.fraction \in 0 .. MaxDigits - 1
        /\ n.exponent \in -MaxExponent .. MaxExponent
    BY DEF Literals
  <1>2. PICK k \in 1 .. MaxDigits : n.digits \in [1 .. k -> Digits]
    BY DEF Literals
  <1>3. MaxDigits \in Nat /\ MaxExponent \in Nat /\ Digits \subseteq Digit
    BY CanonicalAssumption DEF Digit
  <1>4. n.digits \in Seq(Digit) /\ Len(n.digits) >= 1
    <2>1. k \in Nat /\ n.digits \in [1 .. k -> Digit]
      BY <1>2, <1>3
    <2>2. n.digits \in Seq(Digit)
      BY <2>1
    <2>3. Len(n.digits) = k
      BY <2>1, <2>2
    <2> QED
      BY <1>2, <2>2, <2>3
  <1>5. n.fraction - n.exponent <= Precision
    BY <1>1, <1>3 DEF Precision
  <1> QED
    BY <1>1, <1>3, <1>4, <1>5

\* The zeroes that the loop removes are some at the end, all of them if digits remain behind
\* the point.
LEMMA Trimming ==
  ASSUME NEW d \in Seq(Digit), Len(d) >= 1, d[1] # 0, NEW s \in Int
  PROVE  /\ Trimmable(d, s) \in 0 .. Len(d) - 1
         /\ \A i \in Len(d) - Trimmable(d, s) + 1 .. Len(d) : d[i] = 0
         /\ s - Trimmable(d, s) > 0 => d[Len(d) - Trimmable(d, s)] # 0
  <1>1. PICK L \in Nat : L = Len(d) /\ L >= 1
    OBVIOUS
  <1>2. PICK r \in 0 .. L : /\ r = Trailing(d)
                            /\ \A i \in L - r + 1 .. L : d[i] = 0
                            /\ r < L => d[L - r] # 0
    BY <1>1, TrailingIs
  <1>3. r < L
    <2> SUFFICES ASSUME r = L PROVE FALSE
      BY <1>1, <1>2
    <2>1. 1 \in L - r + 1 .. L
      BY <1>1
    <2> QED
      BY <1>2, <2>1
  <1>4. PICK c \in 0 .. r : c = Trimmable(d, s) /\ (s - c > 0 => c = 0 \/ c = r) /\ (s - c > 0 /\ s > 0 => c = r)
    <2>1. CASE s <= 0
      BY <1>2, <2>1 DEF Trimmable
    <2>2. CASE s > 0 /\ r < s
      BY <1>2, <2>2 DEF Trimmable
    <2>3. CASE s > 0 /\ ~(r < s)
      BY <1>2, <2>3 DEF Trimmable
    <2> QED
      BY <2>1, <2>2, <2>3
  <1>5. c \in 0 .. L - 1
    BY <1>1, <1>3, <1>4
  <1>6. ASSUME NEW i \in L - c + 1 .. L PROVE d[i] = 0
    <2>1. i \in L - r + 1 .. L
      BY <1>1, <1>4
    <2> QED
      BY <1>2, <2>1
  <1>7. s - c > 0 => d[L - c] # 0
    BY <1>2, <1>3, <1>4
  <1> QED
    BY <1>1, <1>4, <1>5, <1>6, <1>7

ZeroText == [negative |-> FALSE, whole |-> <<0>>, fraction |-> <<>>]

\* A literal of zeroes only.
LEMMA NormalizedZero ==
  ASSUME NEW n \in Literals, TrimLeft(n.digits) = <<>>
  PROVE  NormalizeNumber(n) = ZeroText /\ Magnitude(n) = 0
  <1>1. NormalizeNumber(n) = ZeroText
    BY Zenon DEF NormalizeNumber, ZeroText
  <1>2. PICK d \in Seq(Digit) : d = n.digits
    BY LiteralDigits
  <1>3. PICK z \in 0 .. Len(d) :
          /\ TrimLeft(d) = SubSeq(d, z + 1, Len(d))
          /\ \A i \in 1 .. z : d[i] = 0
          /\ z < Len(d) => d[z + 1] # 0
    BY Trimmed
  <1>4. z = Len(d)
    <2>1. z + 1 \in Nat /\ Len(d) \in Nat /\ 1 <= z + 1 /\ z + 1 <= Len(d) + 1
      BY <1>3
    <2>2. Len(SubSeq(d, z + 1, Len(d))) = Len(d) - (z + 1) + 1
      BY <2>1, Part
    <2>3. Len(d) - (z + 1) + 1 = 0
      BY <1>2, <1>3, <2>2
    <2> QED
      BY <1>3, <2>1, <2>3
  <1>5. d = Zeroes(Len(d))
    BY <1>3, <1>4, AllZeroes
  <1>6. PICK k \in Nat : k = Precision + n.exponent - n.fraction
    <2>1. n.fraction \in Nat /\ n.exponent \in Int /\ n.fraction - n.exponent <= Precision
      BY LiteralDigits
    <2> QED
      BY <2>1, PrecisionNatural
  <1>7. d \o Zeroes(k) = Zeroes(Len(d) + k)
    <2>1. Len(d) \in Nat
      OBVIOUS
    <2> QED
      BY <1>5, <2>1, ZeroesJoin
  <1>8. Magnitude(n) = Spelled(Zeroes(Len(d) + k))
    BY <1>2, <1>6, <1>7 DEF Magnitude
  <1>9. Len(d) + k \in Nat
    OBVIOUS
  <1> QED
    BY <1>1, <1>8, <1>9, SpelledZeroes

\* Any other literal: its text is in normal form and spells its value.
LEMMA NormalizedOther ==
  ASSUME NEW n \in Literals, TrimLeft(n.digits) # <<>>
  PROVE  \E w, f :
           /\ NormalizeNumber(n) = [negative |-> n.negative, whole |-> w, fraction |-> f]
           /\ NormalForm(w, f) /\ Spelled(Scaled(w, f)) = Magnitude(n) /\ Magnitude(n) # 0
  <1>1. PICK d \in Seq(Digit) : d = n.digits
    BY LiteralDigits
  <1>2. PICK L \in Nat : L = Len(d)
    OBVIOUS
  <1>3. PICK z \in 0 .. L :
          /\ TrimLeft(d) = SubSeq(d, z + 1, L)
          /\ \A i \in 1 .. z : d[i] = 0
          /\ z < L => d[z + 1] # 0
    BY <1>2, Trimmed
  <1>4. z < L
    <2> SUFFICES ASSUME z = L PROVE FALSE
      BY <1>2, <1>3
    <2>1. SubSeq(d, L + 1, L) = <<>>
      BY SubSeqEmpty
    <2> QED
      BY <1>1, <1>3, <2>1
  <1>5. PICK t \in Seq(Digit) : t = TrimLeft(d) /\ Len(t) = L - z /\ t[1] = d[z + 1]
    <2>1. z + 1 \in Nat /\ 1 <= z + 1 /\ z + 1 <= L + 1 /\ L <= Len(d) /\ L - (z + 1) + 1 = L - z
      BY <1>2, <1>3
    <2>2. /\ SubSeq(d, z + 1, L) \in Seq(Digit) /\ Len(SubSeq(d, z + 1, L)) = L - z
          /\ \A i \in 1 .. L - z : SubSeq(d, z + 1, L)[i] = d[(z + 1) + i - 1]
      BY <2>1, Part
    <2>3. 1 \in 1 .. L - z /\ (z + 1) + 1 - 1 = z + 1
      BY <1>2, <1>3, <1>4
    <2>4. SubSeq(d, z + 1, L)[1] = d[z + 1]
      BY <2>2, <2>3
    <2> QED
      BY <1>3, <2>2, <2>4
  <1>6. PICK M \in Nat : M = Len(t) /\ M >= 1 /\ M = L - z
    <2>1. L - z \in Nat /\ L - z >= 1
      BY <1>3, <1>4
    <2> QED
      BY <1>5, <2>1
  <1>7. PICK s \in Int : s = n.fraction - n.exponent /\ s <= Precision
    <2>1. n.fraction \in Nat /\ n.exponent \in Int /\ n.fraction - n.exponent <= Precision
      BY LiteralDigits
    <2> QED
      BY <2>1
  <1>8. PICK c \in 0 .. M - 1 :
          /\ c = Trimmable(t, s)
          /\ \A i \in M - c + 1 .. M : t[i] = 0
          /\ s - c > 0 => t[M - c] # 0
    <2>1. t[1] # 0 /\ Len(t) >= 1
      BY <1>3, <1>4, <1>5, <1>6
    <2> QED
      BY <1>6, <2>1, Trimming
  <1>9. PICK g \in Seq(Digit) : g = SubSeq(t, 1, M - c) /\ Len(g) = M - c /\ g[1] = t[1] /\ g[M - c] = t[M - c]
    <2>1. M - c \in Nat /\ 1 \in Nat /\ 1 <= (M - c) + 1 /\ M - c <= Len(t) /\ (M - c) - 1 + 1 = M - c
      BY <1>6, <1>8
    <2>2. /\ SubSeq(t, 1, M - c) \in Seq(Digit) /\ Len(SubSeq(t, 1, M - c)) = M - c
          /\ \A i \in 1 .. M - c : SubSeq(t, 1, M - c)[i] = t[1 + i - 1]
      BY <2>1, Part
    <2>3. 1 \in 1 .. M - c /\ M - c \in 1 .. M - c /\ 1 + (M - c) - 1 = M - c
      BY <1>6, <1>8
    <2>4. PICK x \in Seq(Digit) : x = SubSeq(t, 1, M - c) /\ \A i \in 1 .. M - c : x[i] = t[1 + i - 1]
      BY <2>2
    <2>5. x[1] = t[1] /\ x[M - c] = t[M - c]
      <3>1. x[1] = t[1 + 1 - 1] /\ x[M - c] = t[1 + (M - c) - 1]
        BY <2>3, <2>4
      <3> QED
        BY <2>3, <3>1
    <2> QED
      BY <2>2, <2>4, <2>5
  <1>10. PICK q \in Int : q = s - c /\ q = n.fraction - n.exponent - c /\ q <= Precision /\ Precision - s \in Nat
                          /\ Precision - q = c + (Precision - s)
    BY <1>7, <1>8, PrecisionNatural
  <1>11. NormalizeNumber(n) =
           [negative |-> n.negative, whole |-> WholeOf(g, q), fraction |-> FractionOf(g, q)]
    <2>1. TrimLeft(n.digits) = t /\ t # <<>>
      BY <1>1, <1>5
    <2>2. Trimmable(t, n.fraction - n.exponent) = c
      BY <1>7, <1>8
    <2>3. SubSeq(t, 1, Len(t) - c) = g
      BY <1>6, <1>9
    <2>4. n.fraction - n.exponent - c = q
      BY <1>10
    <2> QED
      BY <2>1, <2>2, <2>3, <2>4, Zenon DEF NormalizeNumber, WholeOf, FractionOf
  <1>12. /\ NormalForm(WholeOf(g, q), FractionOf(g, q))
         /\ Spelled(Scaled(WholeOf(g, q), FractionOf(g, q))) = Spelled(g \o Zeroes(Precision - q))
    <2>1. Len(g) >= 1 /\ g[1] # 0
      BY <1>3, <1>4, <1>5, <1>6, <1>8, <1>9
    <2>2. q > 0 => g[Len(g)] # 0
      BY <1>8, <1>9, <1>10
    <2> QED
      BY <1>10, <2>1, <2>2, Pointed
  <1>13. PICK y \in Seq(Digit) : y = Zeroes(Precision - s)
    BY <1>10, ZeroesAre
  <1>14. t \o y = g \o Zeroes(Precision - q)
    <2>1. PICK x \in Seq(Digit) : x = Zeroes(c)
      BY <1>8, ZeroesAre
    <2>2. t = g \o x
      <3>1. PICK u \in Seq(Digit) : u = SubSeq(t, (M - c) + 1, M) /\ Len(u) = c
                                    /\ \A i \in 1 .. c : u[i] = t[((M - c) + 1) + i - 1]
        <4>1. /\ (M - c) + 1 \in Nat /\ 1 <= (M - c) + 1 /\ (M - c) + 1 <= M + 1 /\ M <= Len(t)
              /\ M - ((M - c) + 1) + 1 = c
          BY <1>6, <1>8
        <4>2. /\ SubSeq(t, (M - c) + 1, M) \in Seq(Digit) /\ Len(SubSeq(t, (M - c) + 1, M)) = c
              /\ \A i \in 1 .. c : SubSeq(t, (M - c) + 1, M)[i] = t[((M - c) + 1) + i - 1]
          BY <4>1, Part
        <4> QED
          BY <4>2
      <3>2. t = g \o u
        <4>1. M - c \in 0 .. Len(t)
          BY <1>6, <1>8
        <4> QED
          BY <1>6, <1>9, <3>1, <4>1, Halves
      <3>3. ASSUME NEW i \in 1 .. c PROVE u[i] = 0
        <4>1. PICK j \in M - c + 1 .. M : j = ((M - c) + 1) + i - 1
          <5>1. ((M - c) + 1) + i - 1 \in M - c + 1 .. M
            BY <1>6, <1>8
          <5> QED
            BY <5>1
        <4> QED
          BY <1>8, <3>1, <4>1
      <3>4. u = Zeroes(c)
        BY <3>1, <3>3, AllZeroes
      <3> QED
        BY <2>1, <3>2, <3>4
    <2>3. (g \o x) \o y = g \o (x \o y)
      BY Regrouped
    <2>4. x \o y = Zeroes(Precision - q)
      <3>1. c \in Nat /\ Precision - s \in Nat
        BY <1>8, <1>10
      <3>2. Zeroes(c) \o Zeroes(Precision - s) = Zeroes(c + (Precision - s))
        BY <3>1, ZeroesJoin
      <3> QED
        BY <1>10, <1>13, <2>1, <3>2
    <2> QED
      BY <2>2, <2>3, <2>4
  <1>15. d \o y = Zeroes(z) \o (t \o y)
    <2>1. PICK x \in Seq(Digit) : x = Zeroes(z) /\ Len(x) = z
      BY <1>3, ZeroesAre
    <2>2. d = x \o t
      <3>1. PICK u \in Seq(Digit) : u = SubSeq(d, 1, z) /\ Len(u) = z /\ \A i \in 1 .. z : u[i] = d[1 + i - 1]
        <4>1. /\ z \in Nat /\ 1 \in Nat /\ 1 <= z + 1 /\ z <= Len(d) /\ z - 1 + 1 = z
          BY <1>2, <1>3
        <4>2. /\ SubSeq(d, 1, z) \in Seq(Digit) /\ Len(SubSeq(d, 1, z)) = z
              /\ \A i \in 1 .. z : SubSeq(d, 1, z)[i] = d[1 + i - 1]
          BY <4>1, Part
        <4> QED
          BY <4>2
      <3>2. d = u \o t
        BY <1>2, <1>3, <1>5, <3>1, Halves
      <3>3. ASSUME NEW i \in 1 .. z PROVE u[i] = 0
        BY <1>3, <3>1
      <3>4. u = Zeroes(z)
        BY <3>1, <3>3, AllZeroes
      <3> QED
        BY <2>1, <3>2, <3>4
    <2>3. (x \o t) \o y = x \o (t \o y)
      BY Regrouped
    <2> QED
      BY <2>1, <2>2, <2>3
  <1>16. Magnitude(n) = Spelled(d \o y)
    <2>1. Precision + n.exponent - n.fraction = Precision - s
      <3>1. n.fraction \in Nat /\ n.exponent \in Int
        BY LiteralDigits
      <3> QED
        BY <1>7, <3>1, PrecisionNatural
    <2> QED
      BY <1>1, <1>13, <2>1 DEF Magnitude
  <1>17. Magnitude(n) = Spelled(g \o Zeroes(Precision - q))
    <2>1. PICK x \in Seq(Digit) : x = t \o y
      BY Joined
    <2>2. Spelled(Zeroes(z) \o x) = Spelled(x)
      BY <1>3, SpelledPadded
    <2> QED
      BY <1>14, <1>15, <1>16, <2>1, <2>2
  <1>18. Magnitude(n) # 0
    <2> SUFFICES ASSUME Magnitude(n) = 0 PROVE FALSE
      OBVIOUS
    <2>1. PICK x \in Seq(Digit) : x = d \o y
      BY Joined
    <2>2. z + 1 \in 1 .. Len(d)
      BY <1>2, <1>3, <1>4
    <2>3. x[z + 1] = d[z + 1] /\ z + 1 \in 1 .. Len(x)
      <3>1. Len(x) = Len(d) + Len(y) /\ \A i \in 1 .. Len(d) : x[i] = d[i]
        BY <2>1, Joined
      <3> QED
        BY <2>2, <3>1
    <2>4. x[z + 1] = 0
      BY <1>16, <2>1, <2>3, SpelledZero
    <2> QED
      BY <1>3, <1>4, <2>3, <2>4
  <1> QED
    BY <1>11, <1>12, <1>17, <1>18
LEMMA MagnitudeNatural ==
  ASSUME NEW n \in Literals
  PROVE  Magnitude(n) \in Nat
  <1>1. PICK d \in Seq(Digit) : d = n.digits
    BY LiteralDigits
  <1>2. PICK k \in Nat : k = Precision + n.exponent - n.fraction
    <2>1. n.fraction \in Nat /\ n.exponent \in Int /\ n.fraction - n.exponent <= Precision
      BY LiteralDigits
    <2> QED
      BY <2>1, PrecisionNatural
  <1>3. PICK x \in Seq(Digit) : x = d \o Zeroes(k)
    BY ZeroesAre, Joined
  <1> QED
    BY <1>1, <1>2, <1>3, SpelledNatural DEF Magnitude

LEMMA TextFields ==
  ASSUME NEW x, NEW w, NEW f
  PROVE  /\ [negative |-> x, whole |-> w, fraction |-> f].negative = x
         /\ [negative |-> x, whole |-> w, fraction |-> f].whole = w
         /\ [negative |-> x, whole |-> w, fraction |-> f].fraction = f
  OBVIOUS

\* One text, one magnitude; one magnitude, one text but for the sign.
LEMMA TextsOfMagnitude ==
  ASSUME NEW m \in Literals, NEW n \in Literals, Magnitude(m) # 0, Magnitude(n) # 0
  PROVE  NormalizeNumber(m) = NormalizeNumber(n)
           <=> m.negative = n.negative /\ Magnitude(m) = Magnitude(n)
  <1>1. PICK w, f : /\ NormalizeNumber(m) = [negative |-> m.negative, whole |-> w, fraction |-> f]
                    /\ NormalForm(w, f) /\ Spelled(Scaled(w, f)) = Magnitude(m)
    BY NormalizedZero, NormalizedOther
  <1>2. PICK v, g : /\ NormalizeNumber(n) = [negative |-> n.negative, whole |-> v, fraction |-> g]
                    /\ NormalForm(v, g) /\ Spelled(Scaled(v, g)) = Magnitude(n)
    BY NormalizedZero, NormalizedOther
  <1>3. ASSUME m.negative = n.negative, Magnitude(m) = Magnitude(n)
        PROVE  NormalizeNumber(m) = NormalizeNumber(n)
    <2>1. w = v /\ f = g
      BY <1>1, <1>2, <1>3, NormalOnce
    <2> QED
      BY <1>1, <1>2, <1>3, <2>1, Zenon
  <1>4. ASSUME NormalizeNumber(m) = NormalizeNumber(n)
        PROVE  m.negative = n.negative /\ Magnitude(m) = Magnitude(n)
    <2>1. /\ NormalizeNumber(m).negative = m.negative
          /\ NormalizeNumber(m).whole = w /\ NormalizeNumber(m).fraction = f
      BY <1>1, TextFields
    <2>2. /\ NormalizeNumber(n).negative = n.negative
          /\ NormalizeNumber(n).whole = v /\ NormalizeNumber(n).fraction = g
      BY <1>2, TextFields
    <2>3. w = v /\ f = g /\ m.negative = n.negative
      BY <1>4, <2>1, <2>2, Zenon
    <2> QED
      BY <1>1, <1>2, <2>3, Zenon
  <1> QED
    BY <1>3, <1>4, Zenon

\* Zero has one text, that no other number has.
LEMMA TextsOfZero ==
  ASSUME NEW m \in Literals, NEW n \in Literals, Magnitude(m) = 0
  PROVE  NormalizeNumber(m) = NormalizeNumber(n) <=> Magnitude(n) = 0
  <1>1. NormalizeNumber(m) = ZeroText
    BY NormalizedZero, NormalizedOther
  <1>2. CASE Magnitude(n) = 0
    <2>1. NormalizeNumber(n) = ZeroText
      BY <1>2, NormalizedZero, NormalizedOther
    <2> QED
      BY <1>1, <1>2, <2>1
  <1>3. CASE Magnitude(n) # 0
    <2>1. PICK w, f : /\ NormalizeNumber(n) = [negative |-> n.negative, whole |-> w, fraction |-> f]
                      /\ NormalForm(w, f) /\ Spelled(Scaled(w, f)) = Magnitude(n)
      BY <1>3, NormalizedZero, NormalizedOther
    <2> SUFFICES ASSUME NormalizeNumber(n) = ZeroText PROVE FALSE
      BY <1>1, <1>3
    <2>2. w = <<0>> /\ f = <<>>
      <3>1. NormalizeNumber(n).whole = w /\ NormalizeNumber(n).fraction = f
        BY <2>1, TextFields
      <3>2. ZeroText.whole = <<0>> /\ ZeroText.fraction = <<>>
        BY Zenon DEF ZeroText
      <3> QED
        BY <3>1, <3>2
    <2>3. Scaled(w, f) = Zeroes(1 + Precision)
      <3>1. Len(<<>>) = 0 /\ <<0>> \in Seq(Digit) /\ <<0>> = Zeroes(1)
        BY EmptySeq, OneZero, ZeroesAre
      <3>2. <<0>> \o <<>> = <<0>>
        BY <3>1, ConcatEmptySeq
      <3>3. Precision - Len(<<>>) = Precision
        BY <3>1, PrecisionNatural
      <3>4. Scaled(w, f) = Zeroes(1) \o Zeroes(Precision)
        BY <2>2, <3>1, <3>2, <3>3 DEF Scaled
      <3> QED
        BY <3>4, PrecisionNatural, ZeroesJoin
    <2>4. 1 + Precision \in Nat
      BY PrecisionNatural
    <2> QED
      BY <1>3, <2>1, <2>3, <2>4, SpelledZeroes
  <1> QED
    BY <1>2, <1>3

\* normalizeJSONNumber: two literals have one canonical text exactly when they are one number,
\* however many digits they have and however large their exponents are.
THEOREM CanonicalNumbers == NumbersAreFaithful
  <1> SUFFICES ASSUME NEW m \in Literals, NEW n \in Literals
               PROVE  NormalizeNumber(m) = NormalizeNumber(n) <=> Value(m) = Value(n)
    BY Zenon DEF NumbersAreFaithful
  <1>1. PICK a \in Nat, b \in Nat : a = Magnitude(m) /\ b = Magnitude(n)
    BY MagnitudeNatural
  <1>2. /\ Value(m) = IF m.negative THEN -a ELSE a
        /\ Value(n) = IF n.negative THEN -b ELSE b
    BY <1>1 DEF Value
  <1>3. CASE a = 0
    <2>1. Value(m) = 0 /\ (Value(n) = 0 <=> b = 0)
      <3>1. -a = 0 /\ (-b = 0 <=> b = 0)
        <4>1. \A k \in Nat : -k = 0 <=> k = 0
          OBVIOUS
        <4> QED
          BY <1>3, <4>1, Zenon
      <3>2. Value(m) = 0
        BY <1>2, <1>3, <3>1, Zenon
      <3>3. CASE n.negative
        BY <1>2, <3>1, <3>2, <3>3, Zenon
      <3>4. CASE ~n.negative
        BY <1>2, <3>1, <3>2, <3>4, Zenon
      <3> QED
        BY <3>3, <3>4, Zenon
    <2>2. NormalizeNumber(m) = NormalizeNumber(n) <=> b = 0
      BY <1>1, <1>3, TextsOfZero
    <2> QED
      BY <2>1, <2>2
  <1>4. CASE b = 0
    <2>1. Value(n) = 0 /\ (Value(m) = 0 <=> a = 0)
      <3>1. -b = 0 /\ (-a = 0 <=> a = 0)
        <4>1. \A k \in Nat : -k = 0 <=> k = 0
          OBVIOUS
        <4> QED
          BY <1>4, <4>1, Zenon
      <3>2. Value(n) = 0
        BY <1>2, <1>4, <3>1, Zenon
      <3>3. CASE m.negative
        BY <1>2, <3>1, <3>2, <3>3, Zenon
      <3>4. CASE ~m.negative
        BY <1>2, <3>1, <3>2, <3>4, Zenon
      <3> QED
        BY <3>3, <3>4, Zenon
    <2>2. NormalizeNumber(n) = NormalizeNumber(m) <=> a = 0
      BY <1>1, <1>4, TextsOfZero
    <2> QED
      BY <2>1, <2>2
  <1>5. CASE a # 0 /\ b # 0
    <2>1. NormalizeNumber(m) = NormalizeNumber(n) <=> m.negative = n.negative /\ a = b
      BY <1>1, <1>5, TextsOfMagnitude
    <2>2. m.negative \in BOOLEAN /\ n.negative \in BOOLEAN
      BY LiteralDigits
    <2>3. CASE m.negative /\ n.negative
      <3>1. Value(m) = Value(n) <=> a = b
        BY <1>2, <2>3
      <3> QED
        BY <2>1, <2>2, <2>3, <3>1
    <2>4. CASE ~m.negative /\ ~n.negative
      <3>1. Value(m) = Value(n) <=> a = b
        BY <1>2, <2>4
      <3> QED
        BY <2>1, <2>2, <2>4, <3>1
    <2>5. CASE m.negative /\ ~n.negative
      <3>1. Value(m) # Value(n)
        BY <1>2, <1>5, <2>5
      <3> QED
        BY <2>1, <2>2, <2>5, <3>1
    <2>6. CASE ~m.negative /\ n.negative
      <3>1. Value(m) # Value(n)
        BY <1>2, <1>5, <2>6
      <3> QED
        BY <2>1, <2>2, <2>6, <3>1
    <2> QED
      BY <2>2, <2>3, <2>4, <2>5, <2>6, Zenon
  <1> QED
    BY <1>3, <1>4, <1>5
-----------------------------------------------------------------------------
(* Documents. *)

LEMMA DocumentIs ==
  ASSUME NEW d \in Documents
  PROVE  /\ \E k \in Nat : DOMAIN d = 1 .. k
         /\ d = [i \in DOMAIN d |-> d[i]]
         /\ \A i \in DOMAIN d : d[i].key \in Nat /\ d[i].number \in Literals
         /\ \A i, j \in DOMAIN d : d[i].key = d[j].key => i = j
  <1> DEFINE members == [key : DocKeys, number : DocNumbers]
  <1>1. PICK k \in 0 .. MaxMembers : d \in [1 .. k -> members]
    BY DEF Documents
  <1>2. k \in Nat /\ DOMAIN d = 1 .. k
    BY <1>1, CanonicalAssumption
  <1>3. d = [i \in DOMAIN d |-> d[i]]
    BY <1>1
  <1>4. \A i \in DOMAIN d : d[i].key \in Nat /\ d[i].number \in Literals
    BY <1>1, CanonicalAssumption, DocumentAssumption
  <1>5. Decodes(d)
    BY DEF Documents
  <1> QED
    BY <1>2, <1>3, <1>4, <1>5 DEF Decodes

LEMMA NoMoreMembers ==
  ASSUME NEW S, IsFiniteSet(S), NEW T, IsFiniteSet(T), NEW f \in [S -> T],
         \A x, y \in S : f[x] = f[y] => x = y
  PROVE  Cardinality(S) <= Cardinality(T)
  <1>1. Cardinality(S) \in Nat /\ Cardinality(T) \in Nat
    BY FS_CardinalityType
  <1>2. ~(Cardinality(T) < Cardinality(S))
    BY FS_PigeonHole
  <1> QED
    BY <1>1, <1>2

\* The place of a key: how many members of the document have this key or one before it.
Below(d, x) == {j \in DOMAIN d : d[j].key <= x}
Rank(d, x) == Cardinality(Below(d, x))

LEMMA BelowFinite ==
  ASSUME NEW d \in Documents, NEW x
  PROVE  IsFiniteSet(DOMAIN d) /\ IsFiniteSet(Below(d, x)) /\ Rank(d, x) \in Nat
         /\ Rank(d, x) <= Cardinality(DOMAIN d)
  <1>1. PICK k \in Nat : DOMAIN d = 1 .. k
    BY DocumentIs
  <1>2. IsFiniteSet(DOMAIN d)
    BY <1>1, FS_Interval
  <1>3. Below(d, x) \in SUBSET DOMAIN d
    BY DEF Below
  <1>4. IsFiniteSet(Below(d, x)) /\ Cardinality(Below(d, x)) <= Cardinality(DOMAIN d)
    BY <1>2, <1>3, FS_Subset
  <1> QED
    BY <1>2, <1>4, FS_CardinalityType DEF Rank

\* A member's place is one of the document's, and no other member has it.
LEMMA RanksDiffer ==
  ASSUME NEW d \in Documents, NEW i \in DOMAIN d, NEW j \in DOMAIN d,
         Rank(d, d[i].key) = Rank(d, d[j].key)
  PROVE  i = j
  <1>1. PICK x \in Nat, y \in Nat : x = d[i].key /\ y = d[j].key
    BY DocumentIs
  <1>2. ASSUME NEW a \in Nat, NEW b \in DOMAIN d, NEW c \in Nat, d[b].key = c, a < c
        PROVE  Rank(d, a) # Rank(d, c)
    <2>1. \A n \in DOMAIN d : d[n].key \in Nat
      BY DocumentIs
    <2>2. Below(d, a) \in SUBSET Below(d, c)
      BY <1>2, <2>1 DEF Below
    <2>3. b \in Below(d, c) /\ b \notin Below(d, a)
      BY <1>2 DEF Below
    <2>4. IsFiniteSet(Below(d, c))
      BY BelowFinite
    <2> QED
      BY <2>2, <2>3, <2>4, FS_Subset DEF Rank
  <1>3. ~(x < y) /\ ~(y < x)
    BY <1>1, <1>2
  <1>4. d[i].key = d[j].key
    BY <1>1, <1>3
  <1> QED
    BY <1>4, DocumentIs

LEMMA RankIsPlace ==
  ASSUME NEW d \in Documents, NEW j \in DOMAIN d
  PROVE  Rank(d, d[j].key) \in DOMAIN d
  <1>1. PICK k \in Nat : DOMAIN d = 1 .. k
    BY DocumentIs
  <1>2. Cardinality(DOMAIN d) = k
    BY <1>1, FS_Interval
  <1>3. PICK r \in Nat : r = Rank(d, d[j].key) /\ r <= k
    BY <1>2, BelowFinite
  <1>4. j \in Below(d, d[j].key)
    <2>1. d[j].key \in Nat
      BY DocumentIs
    <2> QED
      BY <2>1 DEF Below
  <1>5. r # 0
    <2>1. IsFiniteSet(Below(d, d[j].key)) /\ Below(d, d[j].key) # {}
      BY <1>4, BelowFinite
    <2> QED
      BY <1>3, <2>1, FS_EmptySet DEF Rank
  <1> QED
    BY <1>1, <1>3, <1>5

\* Every place is taken.
LEMMA PlaceIsRank ==
  ASSUME NEW d \in Documents, NEW i \in DOMAIN d
  PROVE  \E j \in DOMAIN d : Rank(d, d[j].key) = i
  <1> SUFFICES ASSUME \A j \in DOMAIN d : Rank(d, d[j].key) # i PROVE FALSE
    OBVIOUS
  <1> DEFINE S == DOMAIN d
             T == S \ {i}
             f == [j \in S |-> Rank(d, d[j].key)]
  <1>1. IsFiniteSet(S)
    BY BelowFinite
  <1>2. IsFiniteSet(T) /\ Cardinality(T) = Cardinality(S) - 1 /\ Cardinality(S) \in Nat
    BY <1>1, FS_RemoveElement, FS_CardinalityType
  <1>3. f \in [S -> T]
    BY RankIsPlace
  <1>4. \A x, y \in S : f[x] = f[y] => x = y
    BY RanksDiffer
  <1>5. Cardinality(S) <= Cardinality(T)
    <2> HIDE DEF S, T, f
    <2> QED
      BY <1>1, <1>2, <1>3, <1>4, NoMoreMembers
  <1> QED
    BY <1>2, <1>5

\* writeCanonicalValue puts each member at its place.
LEMMA CanonicalMember ==
  ASSUME NEW d \in Documents, NEW j \in DOMAIN d
  PROVE  Canonical(d)[Rank(d, d[j].key)] = <<d[j].key, NormalizeNumber(d[j].number)>>
  <1> DEFINE i == Rank(d, d[j].key)
             members == {d[n] : n \in DOMAIN d}
             Placed(m) == Cardinality({n \in DOMAIN d : d[n].key <= m.key}) = i
             member == CHOOSE m \in members : Placed(m)
  <1>1. i \in DOMAIN d
    BY RankIsPlace
  <1>2. Canonical(d)[i] = <<member.key, NormalizeNumber(member.number)>>
    BY <1>1, Zenon DEF Canonical
  <1>3. \A m \in members : Placed(m) <=> Rank(d, m.key) = i
    BY Zenon DEF Rank, Below
  <1>4. d[j] \in members /\ Placed(d[j])
    BY <1>3, Zenon
  <1>5. member \in members /\ Placed(member)
    <2> HIDE DEF members, Placed
    <2> QED
      BY <1>4, Zenon
  <1>6. PICK n \in DOMAIN d : member = d[n]
    BY <1>5, Zenon
  <1>7. Rank(d, d[n].key) = i
    <2> HIDE DEF member, Placed
    <2> QED
      BY <1>3, <1>5, <1>6, Zenon
  <1>8. n = j
    BY <1>7, RanksDiffer
  <1> QED
    BY <1>2, <1>6, <1>8, Zenon

\* The text of a document is as long as the document.
LEMMA CanonicalDomain ==
  ASSUME NEW d
  PROVE  /\ DOMAIN Canonical(d) = DOMAIN d
         /\ Canonical(d) = [i \in DOMAIN d |-> Canonical(d)[i]]
  <1> DEFINE Placed(i) == LET member == CHOOSE m \in {d[j] : j \in DOMAIN d} :
                            Cardinality({j \in DOMAIN d : d[j].key <= m.key}) = i
                      IN  <<member.key, NormalizeNumber(member.number)>>
  <1>1. Canonical(d) = [i \in DOMAIN d |-> Placed(i)]
    BY Zenon DEF Canonical
  <1> HIDE DEF Placed
  <1> QED
    BY <1>1

\* Documents with the same text have the same members.
LEMMA SameText ==
  ASSUME NEW d \in Documents, NEW e \in Documents, Canonical(d) = Canonical(e),
         NEW j \in DOMAIN d
  PROVE  \E l \in DOMAIN e : e[l].key = d[j].key /\ Value(e[l].number) = Value(d[j].number)
  <1>1. DOMAIN d = DOMAIN e
    BY CanonicalDomain
  <1>2. PICK i \in DOMAIN d : i = Rank(d, d[j].key)
    BY RankIsPlace
  <1>3. PICK l \in DOMAIN e : Rank(e, e[l].key) = i
    BY <1>1, <1>2, PlaceIsRank
  <1>4. Canonical(d)[i] = <<d[j].key, NormalizeNumber(d[j].number)>>
    BY <1>2, CanonicalMember
  <1>5. Canonical(e)[i] = <<e[l].key, NormalizeNumber(e[l].number)>>
    BY <1>3, CanonicalMember
  <1>6. e[l].key = d[j].key /\ NormalizeNumber(e[l].number) = NormalizeNumber(d[j].number)
    BY <1>4, <1>5
  <1>7. e[l].number \in Literals /\ d[j].number \in Literals
    BY DocumentIs
  <1>8. Value(e[l].number) = Value(d[j].number)
    BY <1>6, <1>7, CanonicalNumbers DEF NumbersAreFaithful
  <1> QED
    BY <1>6, <1>8

LEMMA MeaningOf ==
  ASSUME NEW d \in Documents, NEW e \in Documents, Meaning(d) \subseteq Meaning(e),
         NEW j \in DOMAIN d
  PROVE  \E l \in DOMAIN e : e[l].key = d[j].key /\ Value(e[l].number) = Value(d[j].number)
  <1>1. <<d[j].key, Value(d[j].number)>> \in Meaning(e)
    BY DEF Meaning
  <1>2. PICK l \in DOMAIN e : <<d[j].key, Value(d[j].number)>> = <<e[l].key, Value(e[l].number)>>
    BY <1>1 DEF Meaning
  <1> QED
    BY <1>2

\* A document with more keys has as many before each.
LEMMA MoreKeys ==
  ASSUME NEW d \in Documents, NEW e \in Documents,
         \A j \in DOMAIN d : \E l \in DOMAIN e : e[l].key = d[j].key
  PROVE  /\ Cardinality(DOMAIN d) <= Cardinality(DOMAIN e)
         /\ \A x \in Nat : Rank(d, x) <= Rank(e, x)
  <1> DEFINE to(j) == CHOOSE l \in DOMAIN e : e[l].key = d[j].key
  <1>1. ASSUME NEW j \in DOMAIN d PROVE to(j) \in DOMAIN e /\ e[to(j)].key = d[j].key
    BY <1>1, Zenon
  <1>2. ASSUME NEW i \in DOMAIN d, NEW j \in DOMAIN d, to(i) = to(j) PROVE i = j
    <2>1. d[i].key = d[j].key
      BY <1>1, <1>2, Zenon
    <2> QED
      BY <2>1, DocumentIs
  <1> HIDE DEF to
  <1>3. Cardinality(DOMAIN d) <= Cardinality(DOMAIN e)
    <2> DEFINE f == [j \in DOMAIN d |-> to(j)]
    <2>1. f \in [DOMAIN d -> DOMAIN e] /\ \A x, y \in DOMAIN d : f[x] = f[y] => x = y
      BY <1>1, <1>2
    <2>2. IsFiniteSet(DOMAIN d) /\ IsFiniteSet(DOMAIN e)
      BY BelowFinite
    <2> HIDE DEF f
    <2> QED
      BY <2>1, <2>2, NoMoreMembers
  <1>4. ASSUME NEW x \in Nat PROVE Rank(d, x) <= Rank(e, x)
    <2> DEFINE S == Below(d, x)
               T == Below(e, x)
               f == [j \in S |-> to(j)]
    <2>1. S \subseteq DOMAIN d /\ \A j \in S : to(j) \in T
      BY <1>1 DEF Below
    <2>2. IsFiniteSet(S) /\ IsFiniteSet(T)
      BY BelowFinite
    <2> HIDE DEF S, T
    <2>3. f \in [S -> T] /\ \A i, j \in S : f[i] = f[j] => i = j
      BY <1>2, <2>1
    <2> HIDE DEF f
    <2>4. Cardinality(S) <= Cardinality(T)
      BY <2>2, <2>3, NoMoreMembers
    <2> QED
      BY <2>4 DEF Rank, S, T
  <1> QED
    BY <1>3, <1>4

\* CanonicalizeJSON: two documents have one canonical text exactly when they have the same
\* members, whatever the order they were written in and however many they are.
THEOREM CanonicalDocuments == DocumentsAreFaithful
  <1> SUFFICES ASSUME NEW d \in Documents, NEW e \in Documents
               PROVE  Canonical(d) = Canonical(e) <=> Meaning(d) = Meaning(e)
    BY Zenon DEF DocumentsAreFaithful
  <1>1. ASSUME Canonical(d) = Canonical(e) PROVE Meaning(d) = Meaning(e)
    <2>1. \A j \in DOMAIN d : \E l \in DOMAIN e :
             e[l].key = d[j].key /\ Value(e[l].number) = Value(d[j].number)
      BY <1>1, SameText
    <2>2. \A j \in DOMAIN e : \E l \in DOMAIN d :
             d[l].key = e[j].key /\ Value(d[l].number) = Value(e[j].number)
      BY <1>1, SameText
    <2> QED
      BY <2>1, <2>2, Zenon DEF Meaning
  <1>2. ASSUME Meaning(d) = Meaning(e) PROVE Canonical(d) = Canonical(e)
    <2>1. \A j \in DOMAIN d : \E l \in DOMAIN e :
             e[l].key = d[j].key /\ Value(e[l].number) = Value(d[j].number)
      BY <1>2, MeaningOf
    <2>2. \A j \in DOMAIN e : \E l \in DOMAIN d :
             d[l].key = e[j].key /\ Value(d[l].number) = Value(e[j].number)
      BY <1>2, MeaningOf
    <2>3. /\ Cardinality(DOMAIN d) <= Cardinality(DOMAIN e)
          /\ \A x \in Nat : Rank(d, x) <= Rank(e, x)
      BY <2>1, MoreKeys
    <2>4. /\ Cardinality(DOMAIN e) <= Cardinality(DOMAIN d)
          /\ \A x \in Nat : Rank(e, x) <= Rank(d, x)
      BY <2>2, MoreKeys
    <2>5. DOMAIN d = DOMAIN e
      <3>1. PICK k \in Nat : DOMAIN d = 1 .. k /\ Cardinality(DOMAIN d) = k
        <4>1. PICK m \in Nat : DOMAIN d = 1 .. m
          BY DocumentIs
        <4>2. Cardinality(1 .. m) = m
          BY <4>1, FS_Interval
        <4> QED
          BY <4>1, <4>2
      <3>2. PICK n \in Nat : DOMAIN e = 1 .. n /\ Cardinality(DOMAIN e) = n
        <4>1. PICK m \in Nat : DOMAIN e = 1 .. m
          BY DocumentIs
        <4>2. Cardinality(1 .. m) = m
          BY <4>1, FS_Interval
        <4> QED
          BY <4>1, <4>2
      <3>3. k = n
        BY <2>3, <2>4, <3>1, <3>2
      <3> QED
        BY <3>1, <3>2, <3>3
    <2>6. ASSUME NEW x \in Nat PROVE Rank(d, x) = Rank(e, x)
      <3>1. Rank(d, x) \in Nat /\ Rank(e, x) \in Nat
        BY BelowFinite
      <3> QED
        BY <2>3, <2>4, <3>1
    <2>7. ASSUME NEW i \in DOMAIN d PROVE Canonical(d)[i] = Canonical(e)[i]
      <3>1. PICK j \in DOMAIN d : Rank(d, d[j].key) = i
        BY PlaceIsRank
      <3>2. PICK l \in DOMAIN e : e[l].key = d[j].key /\ Value(e[l].number) = Value(d[j].number)
        BY <2>1
      <3>3. Rank(e, e[l].key) = i
        <4>1. d[j].key \in Nat
          BY DocumentIs
        <4> QED
          BY <2>6, <3>1, <3>2, <4>1
      <3>4. NormalizeNumber(e[l].number) = NormalizeNumber(d[j].number)
        <4>1. e[l].number \in Literals /\ d[j].number \in Literals
          BY DocumentIs
        <4> QED
          BY <3>2, <4>1, CanonicalNumbers DEF NumbersAreFaithful
      <3>5. Canonical(d)[i] = <<d[j].key, NormalizeNumber(d[j].number)>>
        BY <3>1, CanonicalMember
      <3>6. Canonical(e)[i] = <<e[l].key, NormalizeNumber(e[l].number)>>
        BY <3>3, CanonicalMember
      <3> QED
        BY <3>2, <3>4, <3>5, <3>6
    <2>8. /\ Canonical(d) = [i \in DOMAIN d |-> Canonical(d)[i]]
          /\ Canonical(e) = [i \in DOMAIN e |-> Canonical(e)[i]]
      BY CanonicalDomain, Zenon
    <2> QED
      BY <2>5, <2>7, <2>8
  <1> QED
    BY <1>1, <1>2, Zenon

-----------------------------------------------------------------------------
(* Theorems. *)

\* Service and MigrationService, every mutation with its receipt in one transaction: under
\* repetition, lost answers and races a key takes effect once per operation, a version has
\* as many receipts as revisions and a plan as many cancellations as versions beyond 1.
THEOREM OneReceiptPerChange == RegistrySpec => []EachChangeHasOneReceipt
  <1>1. RegistryInv => EachChangeHasOneReceipt
    BY DEF RegistryInv, ReceiptsCount
  <1> QED
    BY <1>1, RegistryInvariant, PTL

\* MigrationService.Create reads two versions outside the transaction that stores the plan:
\* there is still one plan per pair and report, in whatever order the report came, and a
\* plan between published versions reports what comparing them now may report.
THEOREM PlansStayTrue == RegistrySpec => []PlansMatchPublished
  <1>1. RegistryInv => PlansMatchPublished
    BY DEF RegistryInv, PlansSound, PlansMatchPublished, Judged, SourceOf, TargetOf
  <1> QED
    BY <1>1, RegistryInvariant, PTL

\* Service.Publish hashes the content it read before the transaction: the hash of a
\* published version is nevertheless of the content that version has.
THEOREM PublishedHashes == RegistrySpec => []HashesMatch
  <1>1. RegistryInv => HashesMatch
    BY DEF RegistryInv
  <1> QED
    BY <1>1, RegistryInvariant, PTL

\* And the canonical form that it digests is faithful: a content hash identifies the content
\* of its version, whatever the stale read, the literals and the order of the members.
THEOREM HashesIdentify == RegistrySpec => []HashIdentifiesContent
  <1>1. RegistryInv => HashIdentifiesContent
    BY CanonicalNumbers, CanonicalDocuments DEF RegistryInv, HashesMatch, HashIdentifiesContent
  <1> QED
    BY <1>1, RegistryInvariant, PTL
=============================================================================
