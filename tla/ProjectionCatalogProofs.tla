----------------------- MODULE ProjectionCatalogProofs -----------------------
(***************************************************************************)
(* Proofs about ProjectionCatalog, for every set of callers, keys, inputs, *)
(* schemas and events and any number of requests, faults, restarts and     *)
(* rebuilds.                                                               *)
(***************************************************************************)
EXTENDS ProjectionCatalog, FiniteSetTheorems, TLAPS

SourceOps == {"source.create", "source.published"}
MappingOps == {"mapping.create", "mapping.published", "mapping.revoked"}

-----------------------------------------------------------------------------
(* Types. *)

SourceRegs(k) ==
  [status : {"DRAFT", "PUBLISHED"}, revision : Nat \ {0},
   input : {i \in SourceInputs : SourceKey(i) = k}]
MappingRegs(k) ==
  [status : {"DRAFT", "PUBLISHED", "REVOKED"}, revision : Nat \ {0},
   input : {i \in MappingInputs : MappingKey(i) = k}]
StoreTypes ==
  /\ sources = [k \in SourceKeys |-> sources[k]]
  /\ \A k \in SourceKeys : sources[k] = Unregistered \/ sources[k] \in SourceRegs(k)
  /\ mappings = [k \in MappingKeys |-> mappings[k]]
  /\ \A k \in MappingKeys : mappings[k] = Unregistered \/ mappings[k] \in MappingRegs(k)

Readings ==
  {Unregistered} \cup [status : {"DRAFT", "PUBLISHED", "REVOKED"}, revision : Nat,
                       input : SourceInputs \cup MappingInputs]
RequestSet == [op : SourceOps \cup MappingOps, key : Keys, input : SourceInputs \cup MappingInputs,
               expected : Nat]
CallSet == [step : {"find", "lookup", "check", "commit"}, request : RequestSet, read : Readings]
CallTypes ==
  call = [c \in Callers |-> call[c]] /\ \A c \in Callers : call[c] \in CallSet \cup {Idle}

-----------------------------------------------------------------------------
(* What the registrations, the callers and the nodes rely on. *)

\* The source of a mapping is registered with the mapping's event contract.
Contracted(i) == sources[SourceKey(i)] # Unregistered /\ sources[SourceKey(i)].input.type = i.type

Sound(i) ==
  /\ sources[SourceKey(i)].status = "PUBLISHED" /\ sources[SourceKey(i)].input.type = i.type
  /\ i.schema \in schemas /\ TargetFieldsAllowed(i)
  /\ Fixture(i) \in fixtures /\ FixtureFits(i, sources[SourceKey(i)])

MappingsSound ==
  \A m \in MappingKeys : mappings[m] # Unregistered =>
    /\ Contracted(mappings[m].input)
    /\ mappings[m].status \in {"PUBLISHED", "REVOKED"} => Sound(mappings[m].input)

\* The registration that a transition is about is there, under the input it names; a new
\* mapping has seen its source; a publication has passed its checks.
Knows(c) ==
  /\ c.request.op \in SourceOps => c.request.input \in SourceInputs
  /\ c.request.op \in MappingOps => c.request.input \in MappingInputs
  /\ c.request.op = "source.published" =>
       /\ sources[SourceKey(c.request.input)] # Unregistered
       /\ sources[SourceKey(c.request.input)].input = c.request.input
  /\ c.request.op = "mapping.create" /\ c.step # "find" =>
       Contracted(c.request.input)
  /\ c.request.op \in {"mapping.published", "mapping.revoked"} =>
       /\ mappings[MappingKey(c.request.input)] # Unregistered
       /\ mappings[MappingKey(c.request.input)].input = c.request.input
  /\ c.request.op = "mapping.published" /\ c.step = "commit" =>
       MappingPublishable(c.request.input)
CallersKnow == \A c \in Callers : call[c] # Idle => Knows(call[c])

\* A mapping that has been published, and is still registered as it was.
Standing(i) ==
  /\ i \in MappingInputs /\ Sound(i)
  /\ mappings[MappingKey(i)].status \in {"PUBLISHED", "REVOKED"}
  /\ mappings[MappingKey(i)].input = i
GoodEntry(x) ==
  /\ Standing(x.mapping) /\ x.source = sources[SourceKey(x.mapping)]
  /\ <<x.mapping.source, x.mapping.type>> \notin BuiltIn
GoodGeneration(g) ==
  /\ \A x \in g : GoodEntry(x)
  /\ \A a, b \in g : RuntimeKey(a) = RuntimeKey(b) => a = b
NodeInv ==
  /\ GoodGeneration(active)
  /\ refresh \in {NothingBuilt, Stopped} \/ GoodGeneration(refresh)
  /\ rebuild = NothingBuilt \/ GoodGeneration(rebuild)

\* An event is rejected by a mapping that does not map it, or whose target paths overlap.
RejectedByMapping ==
  \A e \in Events : landed[e].outcome = "rejected" =>
    \E i \in MappingInputs :
      /\ landed[e].mapping = MappingKey(i) /\ Standing(i)
      /\ ~MapsEvent(i, e) \/ Overlaps(i.fields)
StoredBySource ==
  \A e \in Events : landed[e].outcome = "stored" =>
    \/ landed[e].workspace = e.workspace
    \/ \E k \in SourceKeys :
         /\ k = <<e.tenant, landed[e].workspace, e.source>>
         /\ sources[k].status = "PUBLISHED" /\ sources[k].input.mode = "allowlist"
         /\ <<e.tenant, landed[e].workspace>> \in sources[k].input.allow
LandedInv ==
  /\ landed = [e \in Events |-> landed[e]]
  /\ StoredBySource /\ AmbiguousOnlyByAllowlist /\ BuiltInsKeepTheirHandler
  /\ RejectedByMapping

RecordsInv == IsFiniteSet(receipts) /\ IsFiniteSet(audit) /\ EachRevisionIsRecorded

CatalogInv ==
  StoreTypes /\ CallTypes /\ MappingsSound /\ CallersKnow /\ NodeInv /\ LandedInv /\ RecordsInv
-----------------------------------------------------------------------------
(* The store only moves forward. *)

StoreMoves ==
  /\ \A k \in SourceKeys : sources[k] # Unregistered =>
       sources'[k] # Unregistered /\ sources'[k].input = sources[k].input
  /\ \A k \in SourceKeys : sources[k].status = "PUBLISHED" => sources'[k] = sources[k]
  /\ \A k \in MappingKeys : mappings[k] # Unregistered =>
       mappings'[k] # Unregistered /\ mappings'[k].input = mappings[k].input
  /\ \A k \in MappingKeys : mappings[k].status \in {"PUBLISHED", "REVOKED"} =>
       mappings'[k].status \in {"PUBLISHED", "REVOKED"}
  /\ fixtures \subseteq fixtures' /\ schemas \subseteq schemas'

LEMMA NoMove ==
  ASSUME UNCHANGED <<sources, mappings, fixtures, schemas>>
  PROVE  StoreMoves
  BY DEF StoreMoves

LEMMA InputKeys ==
  /\ \A i \in SourceInputs : SourceKey(i) \in SourceKeys
  /\ \A i \in MappingInputs : SourceKey(i) \in SourceKeys /\ MappingKey(i) \in MappingKeys
  BY DEF SourceKeys, MappingKeys

\* What is true of a mapping stays true of it.
LEMMA MappingLasts ==
  ASSUME StoreMoves, NEW i \in MappingInputs
  PROVE  /\ Contracted(i) => Contracted(i)'
         /\ Sound(i) => Sound(i)'
         /\ MappingPublishable(i) => MappingPublishable(i)'
         /\ Sound(i) => sources'[SourceKey(i)] = sources[SourceKey(i)]
  <1>1. SourceKey(i) \in SourceKeys
    BY InputKeys
  <1>2. Contracted(i) => Contracted(i)'
    BY <1>1 DEF Contracted, StoreMoves
  <1>3. sources[SourceKey(i)].status = "PUBLISHED" =>
          sources'[SourceKey(i)] = sources[SourceKey(i)]
    BY <1>1 DEF StoreMoves
  <1>4. /\ i.schema \in schemas => i.schema \in schemas'
        /\ Fixture(i) \in fixtures => Fixture(i) \in fixtures'
    BY DEF StoreMoves
  <1>5. ASSUME Sound(i) PROVE Sound(i)'
    BY <1>3, <1>4, <1>5 DEF Sound
  <1>6. ASSUME MappingPublishable(i) PROVE MappingPublishable(i)'
    BY <1>3, <1>4, <1>6 DEF MappingPublishable
  <1> QED
    BY <1>2, <1>3, <1>5, <1>6 DEF Sound

LEMMA StandingLasts ==
  ASSUME StoreTypes, StoreMoves, NEW i, Standing(i)
  PROVE  Standing(i)'
  <1>1. i \in MappingInputs /\ MappingKey(i) \in MappingKeys
    BY InputKeys DEF Standing
  <1>2. Sound(i)'
    BY <1>1, MappingLasts DEF Standing
  <1>3. mappings[MappingKey(i)] # Unregistered
    BY DEF Standing, Unregistered
  <1> QED
    BY <1>1, <1>2, <1>3 DEF Standing, StoreMoves

LEMMA EntryLasts ==
  ASSUME StoreTypes, StoreMoves, NEW x, GoodEntry(x)
  PROVE  GoodEntry(x)'
  <1>1. Standing(x.mapping)'
    BY StandingLasts DEF GoodEntry
  <1>2. sources'[SourceKey(x.mapping)] = sources[SourceKey(x.mapping)]
    BY MappingLasts DEF GoodEntry, Standing
  <1> QED
    BY <1>1, <1>2 DEF GoodEntry

LEMMA GenerationLasts ==
  ASSUME StoreTypes, StoreMoves, NEW g, GoodGeneration(g)
  PROVE  GoodGeneration(g)'
  BY EntryLasts DEF GoodGeneration

LEMMA KnowledgeLasts ==
  ASSUME StoreTypes, StoreMoves, NEW c, Knows(c), c.request.op \in SourceOps \cup MappingOps
  PROVE  Knows(c)'
  <1> DEFINE i == c.request.input
  <1>1. CASE c.request.op \in SourceOps
    <2>1. i \in SourceInputs /\ SourceKey(i) \in SourceKeys
      BY <1>1, InputKeys DEF Knows
    <2>2. c.request.op \notin MappingOps
      BY <1>1 DEF SourceOps, MappingOps
    <2>3. c.request.op = "source.published" =>
            sources'[SourceKey(i)] # Unregistered /\ sources'[SourceKey(i)].input = i
      BY <2>1 DEF Knows, StoreMoves
    <2> QED
      BY <2>1, <2>2, <2>3 DEF Knows, MappingOps
  <1>2. CASE c.request.op \in MappingOps
    <2>1. i \in MappingInputs /\ MappingKey(i) \in MappingKeys
      BY <1>2, InputKeys DEF Knows
    <2>2. c.request.op \notin SourceOps
      BY <1>2 DEF SourceOps, MappingOps
    <2>3. c.request.op \in {"mapping.published", "mapping.revoked"} =>
            mappings'[MappingKey(i)] # Unregistered /\ mappings'[MappingKey(i)].input = i
      BY <2>1 DEF Knows, StoreMoves
    <2>4. /\ Contracted(i) => Contracted(i)'
          /\ MappingPublishable(i) => MappingPublishable(i)'
      BY <2>1, MappingLasts
    <2> QED
      BY <2>1, <2>2, <2>3, <2>4 DEF Knows, SourceOps
  <1> QED
    BY <1>1, <1>2
-----------------------------------------------------------------------------
(* Each part of the invariant, when the store moves. *)

\* At most the mapping k has changed.
LEMMA MappingsStep ==
  ASSUME StoreTypes, StoreTypes', StoreMoves, MappingsSound, NEW k,
         \A m \in MappingKeys \ {k} : mappings'[m] = mappings[m],
         \A i \in MappingInputs :
           k \in MappingKeys /\ mappings'[k] # Unregistered /\ mappings'[k].input = i =>
             /\ Contracted(i)'
             /\ mappings'[k].status \in {"PUBLISHED", "REVOKED"} => Sound(i)'
  PROVE  MappingsSound'
  <1> SUFFICES ASSUME NEW m \in MappingKeys, mappings'[m] # Unregistered
               PROVE  /\ Contracted(mappings[m].input)'
                      /\ mappings'[m].status \in {"PUBLISHED", "REVOKED"} =>
                           Sound(mappings[m].input)'
    BY DEF MappingsSound
  <1>1. PICK i : i = mappings'[m].input
    OBVIOUS
  <1>2. i \in MappingInputs
    BY <1>1 DEF StoreTypes, MappingRegs
  <1>3. Contracted(i)' /\ (mappings'[m].status \in {"PUBLISHED", "REVOKED"} => Sound(i)')
    <2>1. CASE m = k
      BY <1>1, <1>2, <2>1
    <2>2. CASE m # k
      <3>1. mappings'[m] = mappings[m]
        BY <2>2
      <3>2. /\ Contracted(i) /\ i = mappings[m].input
            /\ mappings[m].status \in {"PUBLISHED", "REVOKED"} => Sound(i)
        BY <1>1, <3>1 DEF MappingsSound
      <3> QED
        BY <1>2, <3>1, <3>2, MappingLasts
    <2> QED
      BY <2>1, <2>2
  <1> QED
    BY <1>1, <1>3

LEMMA NodeStays ==
  ASSUME StoreTypes, StoreMoves, NodeInv, UNCHANGED nodeVars
  PROVE  NodeInv'
  <1>1. active' = active /\ refresh' = refresh /\ rebuild' = rebuild
    BY DEF nodeVars
  <1>2. PICK g, h, r : g = active /\ h = refresh /\ r = rebuild
    OBVIOUS
  <1>3. /\ GoodGeneration(g)
        /\ h \in {NothingBuilt, Stopped} \/ GoodGeneration(h)
        /\ r = NothingBuilt \/ GoodGeneration(r)
    BY <1>2 DEF NodeInv
  <1>4. /\ GoodGeneration(g)'
        /\ h \in {NothingBuilt, Stopped} \/ GoodGeneration(h)'
        /\ r = NothingBuilt \/ GoodGeneration(r)'
    BY <1>3, GenerationLasts
  <1>5. active' = g /\ refresh' = h /\ rebuild' = r
    BY <1>1, <1>2
  <1> QED
    BY <1>4, <1>5 DEF NodeInv

LEMMA LandedStays ==
  ASSUME StoreTypes, StoreTypes', StoreMoves, MappingsSound, LandedInv, UNCHANGED landed
  PROVE  LandedInv'
  <1>1. landed' = landed
    OBVIOUS
  <1>2. \A k \in SourceKeys : sources[k].status = "PUBLISHED" => sources'[k] = sources[k]
    BY DEF StoreMoves
  <1>3. StoredBySource'
    <2> SUFFICES ASSUME NEW e \in Events, landed[e].outcome = "stored"
                 PROVE  \/ landed[e].workspace = e.workspace
                        \/ \E k \in SourceKeys :
                             /\ k = <<e.tenant, landed[e].workspace, e.source>>
                             /\ sources'[k].status = "PUBLISHED"
                             /\ sources'[k].input.mode = "allowlist"
                             /\ <<e.tenant, landed[e].workspace>> \in sources'[k].input.allow
      BY <1>1 DEF StoredBySource
    <2> QED
      BY <1>2 DEF LandedInv, StoredBySource
  <1>4. AmbiguousOnlyByAllowlist'
    <2> SUFFICES ASSUME NEW e \in Events, landed[e].outcome = "ambiguous"
                 PROVE  \E m \in MappingKeys :
                          /\ mappings'[m].status \in {"PUBLISHED", "REVOKED"}
                          /\ mappings'[m].input.tenant = e.tenant
                          /\ mappings'[m].input.source = e.source
                          /\ sources'[SourceKey(mappings'[m].input)].input.mode = "allowlist"
      BY <1>1 DEF AmbiguousOnlyByAllowlist
    <2>1. PICK m \in MappingKeys :
            /\ mappings[m].status \in {"PUBLISHED", "REVOKED"}
            /\ mappings[m].input.tenant = e.tenant /\ mappings[m].input.source = e.source
            /\ sources[SourceKey(mappings[m].input)].input.mode = "allowlist"
      BY DEF LandedInv, AmbiguousOnlyByAllowlist
    <2>2. mappings[m] # Unregistered
      BY <2>1 DEF Unregistered
    <2>3. PICK i : i = mappings[m].input
      OBVIOUS
    <2>4. i \in MappingInputs /\ Sound(i)
      BY <2>1, <2>2, <2>3 DEF MappingsSound, StoreTypes, MappingRegs
    <2>5. sources'[SourceKey(i)] = sources[SourceKey(i)]
      BY <2>4, MappingLasts
    <2>6. mappings'[m].status \in {"PUBLISHED", "REVOKED"} /\ mappings'[m].input = i
      BY <2>1, <2>2, <2>3 DEF StoreMoves
    <2> QED
      BY <2>1, <2>3, <2>5, <2>6
  <1>5. BuiltInsKeepTheirHandler'
    BY <1>1 DEF LandedInv, BuiltInsKeepTheirHandler
  <1>6. RejectedByMapping'
    BY <1>1, StandingLasts DEF LandedInv, RejectedByMapping
  <1> QED
    BY <1>1, <1>3, <1>4, <1>5, <1>6 DEF LandedInv

LEMMA IdleCall == Idle \notin CallSet /\ \A r \in CallSet : r.step # "idle"
  BY DEF Idle, CallSet

\* A step that moves one caller, who answers or knows what it needs.
LEMMA CallersStep ==
  ASSUME StoreTypes, StoreMoves, CallTypes, CallTypes', CallersKnow,
         NEW w \in Callers, \A u \in Callers \ {w} : call'[u] = call[u],
         call'[w] = Idle \/ Knows(call[w])'
  PROVE  CallersKnow'
  <1> SUFFICES ASSUME NEW u \in Callers, call'[u] # Idle PROVE Knows(call[u])'
    BY DEF CallersKnow
  <1>1. CASE u = w
    BY <1>1
  <1>2. CASE u # w
    <2>1. PICK c : c = call[u]
      OBVIOUS
    <2>2. call'[u] = c
      BY <1>2, <2>1
    <2>3. c \in CallSet /\ Knows(c)
      BY <2>1, <2>2 DEF CallTypes, CallersKnow
    <2>4. c.request.op \in SourceOps \cup MappingOps
      BY <2>3 DEF CallSet, RequestSet
    <2>5. Knows(c)'
      BY <2>3, <2>4, KnowledgeLasts
    <2> QED
      BY <2>2, <2>5
  <1> QED
    BY <1>1, <1>2

LEMMA CallersStay ==
  ASSUME StoreTypes, StoreMoves, CallTypes, CallersKnow, UNCHANGED call
  PROVE  CallTypes' /\ CallersKnow'
  <1>1. CallTypes'
    BY DEF CallTypes
  <1>2. ASSUME NEW w \in Callers PROVE CallersKnow'
    <2>1. CASE call[w] = Idle
      BY <1>1, <2>1, CallersStep
    <2>2. CASE call[w] # Idle
      <3>1. PICK c : c = call[w]
        OBVIOUS
      <3>2. c \in CallSet /\ Knows(c)
        BY <2>2, <3>1 DEF CallTypes, CallersKnow
      <3>3. c.request.op \in SourceOps \cup MappingOps
        BY <3>2 DEF CallSet, RequestSet
      <3>4. Knows(c)'
        BY <3>2, <3>3, KnowledgeLasts
      <3>5. call'[w] = c
        BY <3>1
      <3>6. Knows(call[w])'
        BY <3>4, <3>5
      <3> QED
        BY <1>1, <3>6, CallersStep
    <2> QED
      BY <2>1, <2>2
  <1> QED
    BY <1>1, <1>2 DEF CallersKnow
-----------------------------------------------------------------------------
(* A request, up to its transaction. *)

LEMMA RecordsStay ==
  ASSUME RecordsInv, UNCHANGED storeVars
  PROVE  RecordsInv'
  <1>1. /\ sources' = sources /\ mappings' = mappings /\ receipts' = receipts
        /\ audit' = audit /\ audited' = audited
    BY DEF storeVars
  <1> QED
    BY <1>1 DEF RecordsInv, EachRevisionIsRecorded

\* A step that leaves the store as it is.
LEMMA StoreStays ==
  ASSUME CatalogInv, UNCHANGED storeVars, schemas \subseteq schemas'
  PROVE  StoreTypes' /\ StoreMoves /\ MappingsSound' /\ RecordsInv'
  <1> USE DEF CatalogInv
  <1>1. sources' = sources /\ mappings' = mappings /\ fixtures' = fixtures
    BY DEF storeVars
  <1>2. StoreTypes'
    BY <1>1 DEF StoreTypes
  <1>3. StoreMoves
    BY <1>1 DEF StoreMoves
  <1>4. \A i \in MappingInputs, m \in MappingKeys :
          mappings'[m] # Unregistered /\ mappings'[m].input = i =>
            /\ Contracted(i)'
            /\ mappings'[m].status \in {"PUBLISHED", "REVOKED"} => Sound(i)'
    BY <1>1, <1>3, MappingLasts DEF MappingsSound
  <1>5. MappingsSound'
    <2>1. PICK k : k = MappingKeys
      OBVIOUS
    <2> QED
      BY <1>1, <1>2, <1>3, <1>4, MappingsStep
  <1> QED
    BY <1>2, <1>3, <1>5, RecordsStay

\* Steps that only move a caller.
LEMMA CallersOnly ==
  ASSUME CatalogInv, UNCHANGED <<storeVars, schemas, nodeVars, landed>>, CallTypes',
         NEW w \in Callers, \A u \in Callers \ {w} : call'[u] = call[u],
         call'[w] = Idle \/ Knows(call[w])'
  PROVE  CatalogInv'
  <1> USE DEF CatalogInv
  <1>1. StoreTypes' /\ StoreMoves /\ MappingsSound' /\ RecordsInv'
    BY StoreStays
  <1>2. CallersKnow'
    BY <1>1, CallersStep
  <1>3. NodeInv' /\ LandedInv'
    BY <1>1, NodeStays, LandedStays
  <1> QED
    BY <1>1, <1>2, <1>3

LEMMA Answered ==
  ASSUME CallTypes, NEW w \in Callers, Answer(w)
  PROVE  CallTypes' /\ (\A u \in Callers \ {w} : call'[u] = call[u]) /\ call'[w] = Idle
  BY DEF Answer, CallTypes

LEMMA AnswerStep ==
  ASSUME CatalogInv, UNCHANGED <<storeVars, schemas, nodeVars, landed>>, NEW w \in Callers,
         Answer(w)
  PROVE  CatalogInv'
  BY Answered, CallersOnly DEF CatalogInv

\* A caller goes on with its request and what it has read.
LEMMA GoesOn ==
  ASSUME CatalogInv, UNCHANGED <<storeVars, schemas, nodeVars, landed>>, NEW w \in Callers,
         call[w] \in CallSet,
         NEW step \in {"lookup", "check", "commit"}, NEW read \in Readings,
         call' = [call EXCEPT ![w].step = step, ![w].read = read],
         call[w].request.op = "mapping.create" => Contracted(call[w].request.input),
         call[w].request.op = "mapping.published" /\ step = "commit" =>
           MappingPublishable(call[w].request.input)
  PROVE  CatalogInv'
  <1> USE DEF CatalogInv
  <1>1. call[w] \in CallSet /\ call[w] # Idle /\ Knows(call[w])
    BY IdleCall DEF CallTypes, CallersKnow
  <1>2. /\ call'[w].step = step /\ call'[w].request = call[w].request
        /\ call'[w] \in CallSet /\ \A u \in Callers \ {w} : call'[u] = call[u]
        /\ call' = [c \in Callers |-> call'[c]]
    BY <1>1 DEF CallTypes, CallSet
  <1>3. CallTypes'
    BY <1>2 DEF CallTypes
  <1>4. sources' = sources /\ mappings' = mappings /\ schemas' = schemas /\ fixtures' = fixtures
    BY DEF storeVars
  <1>5. Knows(call[w])'
    BY <1>1, <1>2, <1>4 DEF Knows, Contracted, MappingPublishable
  <1> QED
    BY <1>2, <1>3, <1>5, CallersOnly

\* What a caller may send: a new registration, or a transition of one that is there.
LEMMA SentRequests ==
  ASSUME StoreTypes, NEW q \in CreateRequests \cup TransitionRequests
  PROVE  /\ q \in RequestSet
         /\ \A c : c.request = q /\ (c.step = "find" \/ q.op = "source.create") => Knows(c)
  <1>1. CASE q \in CreateRequests
    <2>1. \/ q.op = "source.create" /\ q.input \in SourceInputs
          \/ q.op = "mapping.create" /\ q.input \in MappingInputs
      BY <1>1 DEF CreateRequests
    <2>2. q \in RequestSet
      BY <1>1 DEF CreateRequests, RequestSet, SourceOps, MappingOps
    <2> QED
      BY <2>1, <2>2 DEF Knows, SourceOps, MappingOps
  <1>2. CASE q \in UNION {Transitions({"source.published"}, sources[s]) :
                            s \in {s \in SourceKeys : sources[s] # Unregistered}}
    <2>1. PICK s \in SourceKeys : /\ sources[s] # Unregistered
                                  /\ q \in Transitions({"source.published"}, sources[s])
      BY <1>2
    <2>2. sources[s] \in SourceRegs(s)
      BY <2>1 DEF StoreTypes
    <2>3. /\ sources[s].input \in SourceInputs /\ SourceKey(sources[s].input) = s
          /\ sources[s].revision \in Nat
      BY <2>2 DEF SourceRegs
    <2>4. q.op = "source.published" /\ q.input = sources[s].input
      BY <2>1 DEF Transitions
    <2>5. q \in RequestSet
      BY <2>1, <2>3 DEF Transitions, RequestSet, SourceOps
    <2> QED
      BY <2>1, <2>3, <2>4, <2>5 DEF Knows, SourceOps, MappingOps
  <1>3. CASE q \in UNION {Transitions({"mapping.published", "mapping.revoked"}, mappings[m]) :
                            m \in {m \in MappingKeys : mappings[m] # Unregistered}}
    <2>1. PICK m \in MappingKeys :
            /\ mappings[m] # Unregistered
            /\ q \in Transitions({"mapping.published", "mapping.revoked"}, mappings[m])
      BY <1>3
    <2>2. mappings[m] \in MappingRegs(m)
      BY <2>1 DEF StoreTypes
    <2>3. /\ mappings[m].input \in MappingInputs /\ MappingKey(mappings[m].input) = m
          /\ mappings[m].revision \in Nat
      BY <2>2 DEF MappingRegs
    <2>4. q.op \in {"mapping.published", "mapping.revoked"} /\ q.input = mappings[m].input
      BY <2>1 DEF Transitions
    <2>5. q \in RequestSet
      BY <2>1, <2>3 DEF Transitions, RequestSet, MappingOps
    <2> QED
      BY <2>1, <2>3, <2>4, <2>5 DEF Knows, SourceOps, MappingOps
  <1> QED
    BY <1>1, <1>2, <1>3 DEF TransitionRequests

LEMMA BeginStep ==
  ASSUME CatalogInv, NEW w \in Callers, Begin(w)
  PROVE  CatalogInv'
  <1> USE DEF CatalogInv
  <1>1. PICK q \in CreateRequests \cup TransitionRequests :
          call' = [call EXCEPT ![w] =
                     [step |-> IF q.op = "source.create" THEN "lookup" ELSE "find",
                      request |-> q, read |-> Unregistered]]
    BY DEF Begin
  <1>2. q \in RequestSet
    BY SentRequests
  <1> DEFINE c == [step |-> IF q.op = "source.create" THEN "lookup" ELSE "find",
                   request |-> q, read |-> Unregistered]
  <1>3. c \in CallSet
    BY <1>2 DEF CallSet, Readings
  <1>4. call'[w] = c /\ \A u \in Callers \ {w} : call'[u] = call[u]
    BY <1>1 DEF CallTypes
  <1>5. CallTypes'
    BY <1>1, <1>3 DEF CallTypes
  <1>6. UNCHANGED <<storeVars, schemas, nodeVars, landed>>
    BY DEF Begin
  <1>7. (\A d : d.request = q /\ (d.step = "find" \/ q.op = "source.create") => Knows(d))'
    <2>1. \A d : d.request = q /\ (d.step = "find" \/ q.op = "source.create") => Knows(d)
      BY SentRequests
    <2> QED
      BY <1>6, <2>1 DEF Knows, Contracted, MappingPublishable, storeVars
  <1>8. Knows(call[w])'
    BY <1>4, <1>7
  <1> QED
    BY <1>4, <1>5, <1>6, <1>8, CallersOnly

\* The registration that a caller reads.
LEMMA Read ==
  ASSUME StoreTypes, NEW c \in CallSet, Knows(c)
  PROVE  LET q == c.request IN
         /\ q.op \in SourceOps \cup MappingOps
         /\ SourceKey(q.input) \in SourceKeys
         /\ AboutSource(q) <=> q.op \in SourceOps
         /\ Key(q) \in (IF q.op \in SourceOps THEN SourceKeys ELSE MappingKeys)
         /\ Current(q) \in Readings /\ sources[SourceKey(q.input)] \in Readings
  <1> DEFINE q == c.request
  <1>1. q.op \in SourceOps \cup MappingOps
    BY DEF CallSet, RequestSet
  <1>2. AboutSource(q) <=> q.op \in SourceOps
    BY DEF AboutSource, SourceOps
  <1>3. SourceKey(q.input) \in SourceKeys
    BY <1>1, InputKeys DEF Knows
  <1>4. Key(q) \in (IF q.op \in SourceOps THEN SourceKeys ELSE MappingKeys)
    BY <1>1, <1>2, <1>3, InputKeys DEF Key, Knows
  <1>5. \A k \in SourceKeys : sources[k] \in Readings
    BY DEF StoreTypes, Readings, SourceRegs
  <1>6. \A k \in MappingKeys : mappings[k] \in Readings
    BY DEF StoreTypes, Readings, MappingRegs
  <1>7. Current(q) \in Readings
    BY <1>2, <1>4, <1>5, <1>6 DEF Current
  <1> QED
    BY <1>1, <1>2, <1>3, <1>4, <1>5, <1>7

LEMMA FindStep ==
  ASSUME CatalogInv, NEW w \in Callers, Find(w)
  PROVE  CatalogInv'
  <1> USE DEF CatalogInv
  <1> DEFINE q == call[w].request
             read == IF Creates(q) THEN sources[SourceKey(q.input)] ELSE Current(q)
  <1>1. UNCHANGED <<storeVars, schemas, nodeVars, landed>>
    BY DEF Find
  <1>2. call[w] \in CallSet /\ Knows(call[w])
    BY IdleCall DEF Find, At, CallTypes, CallersKnow, Idle
  <1>3. read \in Readings
    BY <1>2, Read
  <1>4. CASE Answer(w)
    BY <1>1, <1>4, AnswerStep
  <1>5. CASE /\ ~(read = Unregistered \/ (Creates(q) /\ read.input.type # q.input.type))
             /\ call' = [call EXCEPT ![w].step = "lookup", ![w].read = read]
    <2>1. q.op = "mapping.create" => Contracted(q.input)
      BY <1>5 DEF Creates, Contracted
    <2> QED
      BY <1>1, <1>2, <1>3, <1>5, <2>1, GoesOn
  <1> QED
    BY <1>4, <1>5 DEF Find

LEMMA LookupStep ==
  ASSUME CatalogInv, NEW w \in Callers, Lookup(w)
  PROVE  CatalogInv'
  <1> USE DEF CatalogInv
  <1> DEFINE q == call[w].request
             step == IF Creates(q) THEN "commit" ELSE "check"
  <1>1. UNCHANGED <<storeVars, schemas, nodeVars, landed>>
    BY DEF Lookup
  <1>2. call[w] \in CallSet /\ Knows(call[w])
    BY IdleCall DEF Lookup, At, CallTypes, CallersKnow, Idle
  <1>3. CASE Answer(w)
    BY <1>1, <1>3, AnswerStep
  <1>4. CASE Go(w, step)
    <2>1. call[w].read \in Readings
      BY <1>2 DEF CallSet
    <2>2. call' = [call EXCEPT ![w].step = step, ![w].read = call[w].read]
      BY <1>2, <1>4 DEF Go, CallTypes, CallSet
    <2>3. q.op = "mapping.create" => Contracted(q.input)
      BY <1>2 DEF Knows, Lookup, At
    <2>4. q.op = "mapping.published" => step = "check"
      BY DEF Creates
    <2> QED
      BY <1>1, <1>2, <2>1, <2>2, <2>3, <2>4, GoesOn
  <1> QED
    BY <1>3, <1>4 DEF Lookup

LEMMA CheckStep ==
  ASSUME CatalogInv, NEW w \in Callers, Check(w)
  PROVE  CatalogInv'
  <1> USE DEF CatalogInv
  <1> DEFINE q == call[w].request
             good == /\ call[w].read.status = Allowed(q)
                     /\ q.op = "mapping.published" => MappingPublishable(q.input)
  <1>1. UNCHANGED <<storeVars, schemas, nodeVars, landed>>
    BY DEF Check
  <1>2. call[w] \in CallSet /\ Knows(call[w])
    BY IdleCall DEF Check, At, CallTypes, CallersKnow, Idle
  <1>3. CASE Answer(w)
    BY <1>1, <1>3, AnswerStep
  <1>4. CASE good /\ Go(w, "commit")
    <2>1. call[w].read \in Readings
      BY <1>2 DEF CallSet
    <2>2. call' = [call EXCEPT ![w].step = "commit", ![w].read = call[w].read]
      BY <1>2, <1>4 DEF Go, CallTypes, CallSet
    <2>3. q.op = "mapping.create" => Contracted(q.input)
      BY <1>2 DEF Knows, Check, At
    <2> QED
      BY <1>1, <1>2, <1>4, <2>1, <2>2, <2>3, GoesOn
  <1> QED
    BY <1>3, <1>4 DEF Check
-----------------------------------------------------------------------------
(* The transaction. *)

Revisions(ops, id) == {a.revision : a \in {a \in audit : a.id = id /\ a.op \in ops}}

LEMMA RevisionAdded ==
  ASSUME NEW e, audit' = audit \cup {e}, NEW ops, NEW id
  PROVE  /\ e.id = id /\ e.op \in ops =>
              Revisions(ops, id)' = Revisions(ops, id) \cup {e.revision}
         /\ ~(e.id = id /\ e.op \in ops) => Revisions(ops, id)' = Revisions(ops, id)
  <1>1. ASSUME e.id = id, e.op \in ops
        PROVE  Revisions(ops, id)' = Revisions(ops, id) \cup {e.revision}
    BY <1>1 DEF Revisions
  <1>2. ASSUME ~(e.id = id /\ e.op \in ops)
        PROVE  Revisions(ops, id)' = Revisions(ops, id)
    BY <1>2 DEF Revisions
  <1> QED
    BY <1>1, <1>2

LEMMA RecordsMeaning ==
  EachRevisionIsRecorded <=>
    /\ audited = Cardinality(audit) /\ audited = Cardinality(receipts)
    /\ \A a, b \in receipts : a.slot = b.slot => a = b
    /\ \A s \in SourceKeys : Revisions(SourceOps, s) = 1 .. sources[s].revision
    /\ \A m \in MappingKeys : Revisions(MappingOps, m) = 1 .. mappings[m].revision
  BY DEF EachRevisionIsRecorded, Revisions, SourceOps, MappingOps

LEMMA RevisionTypes ==
  ASSUME StoreTypes
  PROVE  /\ \A k \in SourceKeys : sources[k].revision \in Nat
         /\ \A k \in MappingKeys : mappings[k].revision \in Nat
  BY DEF StoreTypes, SourceRegs, MappingRegs, Unregistered

\* The key of a registration that is written is free, and its revision the next one.
LEMMA Recorded ==
  ASSUME StoreTypes, StoreTypes', RecordsInv, NEW q, NEW k, k = Key(q), ~Held(q), NEW revision,
         Record(q, revision), q.op \in SourceOps \cup MappingOps,
         q.op \in SourceOps =>
           /\ k \in SourceKeys /\ mappings' = mappings
           /\ revision = sources[k].revision + 1 /\ sources'[k].revision = revision
           /\ \A s \in SourceKeys \ {k} : sources'[s] = sources[s],
         q.op \in MappingOps =>
           /\ k \in MappingKeys /\ sources' = sources
           /\ revision = mappings[k].revision + 1 /\ mappings'[k].revision = revision
           /\ \A m \in MappingKeys \ {k} : mappings'[m] = mappings[m]
  PROVE  RecordsInv'
  <1> DEFINE e == AuditEntry(q, revision)
             r == Receipt(q)
  <1>1. e.op = q.op /\ e.id = k /\ e.revision = revision /\ r.slot = Slot(q)
    BY DEF AuditEntry, Receipt
  <1>2. receipts' = receipts \cup {r} /\ audit' = audit \cup {e} /\ audited' = audited + 1
    BY DEF Record
  <1>3. /\ IsFiniteSet(receipts) /\ IsFiniteSet(audit)
        /\ audited = Cardinality(audit) /\ audited = Cardinality(receipts)
        /\ \A a, b \in receipts : a.slot = b.slot => a = b
        /\ \A s \in SourceKeys : Revisions(SourceOps, s) = 1 .. sources[s].revision
        /\ \A m \in MappingKeys : Revisions(MappingOps, m) = 1 .. mappings[m].revision
    BY RecordsMeaning DEF RecordsInv
  <1>4. \A a \in receipts : a.slot # r.slot
    BY <1>1 DEF Held
  <1>5. /\ \A s \in SourceKeys : sources[s].revision \in Nat
        /\ \A m \in MappingKeys : mappings[m].revision \in Nat
    BY RevisionTypes
  <1>6. q.op \notin SourceOps \/ q.op \notin MappingOps
    BY DEF SourceOps, MappingOps
  <1> HIDE DEF e, r
  <1>7. e \notin audit
    <2>1. CASE q.op \in SourceOps
      <3>1. revision \notin Revisions(SourceOps, k)
        BY <1>3, <1>5, <2>1
      <3> QED
        BY <1>1, <2>1, <3>1 DEF Revisions
    <2>2. CASE q.op \in MappingOps
      <3>1. revision \notin Revisions(MappingOps, k)
        BY <1>3, <1>5, <2>2
      <3> QED
        BY <1>1, <2>2, <3>1 DEF Revisions
    <2> QED
      BY <2>1, <2>2
  <1>8. r \notin receipts
    BY <1>4
  <1>9. /\ IsFiniteSet(receipts') /\ Cardinality(receipts') = Cardinality(receipts) + 1
        /\ IsFiniteSet(audit') /\ Cardinality(audit') = Cardinality(audit) + 1
    BY <1>2, <1>3, <1>7, <1>8, FS_AddElement
  <1>10. \A a, b \in receipts' : a.slot = b.slot => a = b
    BY <1>2, <1>3, <1>4
  <1>11. \A s \in SourceKeys : Revisions(SourceOps, s)' = 1 .. sources'[s].revision
    <2> SUFFICES ASSUME NEW s \in SourceKeys
                 PROVE  Revisions(SourceOps, s)' = 1 .. sources'[s].revision
      OBVIOUS
    <2>1. CASE q.op \in SourceOps /\ s = k
      <3>1. Revisions(SourceOps, s)' = Revisions(SourceOps, s) \cup {revision}
        BY <1>1, <1>2, <2>1, RevisionAdded
      <3>2. Revisions(SourceOps, s) = 1 .. sources[s].revision /\ sources[s].revision \in Nat
        BY <1>3, <1>5
      <3> QED
        BY <2>1, <3>1, <3>2
    <2>2. CASE ~(q.op \in SourceOps /\ s = k)
      <3>1. Revisions(SourceOps, s)' = Revisions(SourceOps, s)
        BY <1>1, <1>2, <2>2, RevisionAdded
      <3>2. sources'[s] = sources[s]
        BY <2>2
      <3> QED
        BY <1>3, <3>1, <3>2
    <2> QED
      BY <2>1, <2>2
  <1>12. \A m \in MappingKeys : Revisions(MappingOps, m)' = 1 .. mappings'[m].revision
    <2> SUFFICES ASSUME NEW m \in MappingKeys
                 PROVE  Revisions(MappingOps, m)' = 1 .. mappings'[m].revision
      OBVIOUS
    <2>1. CASE q.op \in MappingOps /\ m = k
      <3>1. Revisions(MappingOps, m)' = Revisions(MappingOps, m) \cup {revision}
        BY <1>1, <1>2, <2>1, RevisionAdded
      <3>2. Revisions(MappingOps, m) = 1 .. mappings[m].revision /\ mappings[m].revision \in Nat
        BY <1>3, <1>5
      <3> QED
        BY <2>1, <3>1, <3>2
    <2>2. CASE ~(q.op \in MappingOps /\ m = k)
      <3>1. Revisions(MappingOps, m)' = Revisions(MappingOps, m)
        BY <1>1, <1>2, <2>2, RevisionAdded
      <3>2. mappings'[m] = mappings[m]
        BY <2>2
      <3> QED
        BY <1>3, <3>1, <3>2
    <2> QED
      BY <2>1, <2>2
  <1>13. audited' = Cardinality(audit') /\ audited' = Cardinality(receipts')
    BY <1>2, <1>3, <1>9
  <1>14. EachRevisionIsRecorded'
    BY <1>10, <1>11, <1>12, <1>13
    DEF EachRevisionIsRecorded, Revisions, SourceOps, MappingOps
  <1> QED
    BY <1>9, <1>14 DEF RecordsInv

LEMMA SourceWritten ==
  ASSUME StoreTypes, NEW k \in SourceKeys, NEW r \in SourceRegs(k),
         sources' = [sources EXCEPT ![k] = r], UNCHANGED <<mappings, fixtures, schemas>>,
         sources[k].status # "PUBLISHED",
         sources[k] = Unregistered \/ r.input = sources[k].input
  PROVE  /\ StoreTypes' /\ StoreMoves /\ sources'[k] = r
         /\ \A s \in SourceKeys \ {k} : sources'[s] = sources[s]
  <1>1. /\ sources'[k] = r /\ \A s \in SourceKeys \ {k} : sources'[s] = sources[s]
        /\ sources' = [s \in SourceKeys |-> sources'[s]]
    BY DEF StoreTypes
  <1>2. r # Unregistered
    BY DEF SourceRegs, Unregistered
  <1>3. StoreTypes'
    BY <1>1 DEF StoreTypes
  <1>4. StoreMoves
    BY <1>1, <1>2 DEF StoreMoves
  <1> QED
    BY <1>1, <1>3, <1>4

LEMMA MappingWritten ==
  ASSUME StoreTypes, NEW k \in MappingKeys, NEW r \in MappingRegs(k),
         mappings' = [mappings EXCEPT ![k] = r], UNCHANGED <<sources, schemas>>,
         fixtures \subseteq fixtures',
         mappings[k].status \in {"PUBLISHED", "REVOKED"} => r.status \in {"PUBLISHED", "REVOKED"},
         mappings[k] = Unregistered \/ r.input = mappings[k].input
  PROVE  /\ StoreTypes' /\ StoreMoves /\ mappings'[k] = r
         /\ \A m \in MappingKeys \ {k} : mappings'[m] = mappings[m]
  <1>1. /\ mappings'[k] = r /\ \A m \in MappingKeys \ {k} : mappings'[m] = mappings[m]
        /\ mappings' = [m \in MappingKeys |-> mappings'[m]]
    BY DEF StoreTypes
  <1>2. r # Unregistered
    BY DEF MappingRegs, Unregistered
  <1>3. StoreTypes'
    BY <1>1 DEF StoreTypes
  <1>4. StoreMoves
    BY <1>1, <1>2 DEF StoreMoves
  <1> QED
    BY <1>1, <1>3, <1>4
\* A creation: the key was free.  A new mapping has seen its source, which has the
\* contract it names and cannot have lost it.
LEMMA CreateStep ==
  ASSUME StoreTypes, MappingsSound, RecordsInv, NEW c \in CallSet, Knows(c), c.step = "commit",
         Creates(c.request), Create(c.request), UNCHANGED schemas
  PROVE  StoreTypes' /\ StoreMoves /\ MappingsSound' /\ RecordsInv'
  <1> DEFINE q == c.request
             i == q.input
             r == Registered(i)
  <1>1. CASE Nothing
    <2>1. UNCHANGED <<sources, mappings, fixtures, schemas>> /\ UNCHANGED storeVars
      BY <1>1 DEF Nothing, storeVars
    <2>2. StoreTypes' /\ StoreMoves
      BY <2>1 DEF StoreTypes, StoreMoves
    <2>3. MappingsSound'
      BY <2>1 DEF MappingsSound, Contracted, Sound
    <2> QED
      BY <2>1, <2>2, <2>3, RecordsStay
  <1>2. CASE /\ Current(q) = Unregistered /\ ~Held(q) /\ Record(q, 1) /\ AboutSource(q)
             /\ sources' = [sources EXCEPT ![Key(q)] = r] /\ UNCHANGED <<mappings, fixtures>>
    <2>1. PICK k : k = Key(q)
      OBVIOUS
    <2>2. /\ q.op \in SourceOps /\ q.op \notin MappingOps /\ i \in SourceInputs
          /\ k = SourceKey(i) /\ k \in SourceKeys /\ sources[k] = Unregistered
      BY <1>2, <2>1, Read, InputKeys DEF AboutSource, SourceOps, MappingOps, Knows, Key, Current
    <2>3. r \in SourceRegs(k) /\ r.revision = 1 /\ r.status = "DRAFT"
      BY <2>2 DEF Registered, SourceRegs
    <2>4. sources[k].status # "PUBLISHED" /\ sources[k].revision = 0
      BY <2>2 DEF Unregistered
    <2>5. /\ StoreTypes' /\ StoreMoves /\ sources'[k] = r
          /\ \A s \in SourceKeys \ {k} : sources'[s] = sources[s]
      BY <1>2, <2>1, <2>2, <2>3, <2>4, SourceWritten
    <2>6. MappingsSound'
      <3>1. \A m \in MappingKeys : mappings'[m] = mappings[m]
        BY <1>2
      <3>2. \A j \in MappingInputs, m \in MappingKeys :
              mappings'[m] # Unregistered /\ mappings'[m].input = j =>
                /\ Contracted(j)'
                /\ mappings'[m].status \in {"PUBLISHED", "REVOKED"} => Sound(j)'
        BY <2>5, <3>1, MappingLasts DEF MappingsSound
      <3> QED
        BY <2>5, <3>1, <3>2, MappingsStep
    <2>7. 1 = sources[k].revision + 1 /\ sources'[k].revision = 1
      BY <2>3, <2>4, <2>5
    <2>8. RecordsInv'
      BY <1>2, <2>1, <2>2, <2>5, <2>7, Recorded
    <2> QED
      BY <2>5, <2>6, <2>8
  <1>3. CASE /\ Current(q) = Unregistered /\ ~Held(q) /\ Record(q, 1) /\ ~AboutSource(q)
             /\ mappings' = [mappings EXCEPT ![Key(q)] = r] /\ PutFixture(i)
             /\ UNCHANGED sources
    <2>1. PICK k : k = Key(q)
      OBVIOUS
    <2>2. /\ q.op = "mapping.create" /\ q.op \in MappingOps /\ q.op \notin SourceOps
          /\ i \in MappingInputs
          /\ k = MappingKey(i) /\ k \in MappingKeys /\ mappings[k] = Unregistered
      BY <1>3, <2>1, InputKeys
      DEF AboutSource, Creates, SourceOps, MappingOps, Knows, Key, Current
    <2>3. r \in MappingRegs(k) /\ r.revision = 1 /\ r.status = "DRAFT" /\ r.input = i
      BY <2>2 DEF Registered, MappingRegs
    <2>4. mappings[k].status = "NONE" /\ mappings[k].revision = 0
      BY <2>2 DEF Unregistered
    <2>5. fixtures \subseteq fixtures'
      BY <1>3 DEF PutFixture
    <2>6. /\ StoreTypes' /\ StoreMoves /\ mappings'[k] = r
          /\ \A m \in MappingKeys \ {k} : mappings'[m] = mappings[m]
      BY <1>3, <2>1, <2>2, <2>3, <2>4, <2>5, MappingWritten
    <2>7. Contracted(i)
      BY <2>2 DEF Knows
    <2>8. Contracted(i)'
      BY <2>2, <2>6, <2>7, MappingLasts
    <2>9. MappingsSound'
      BY <2>3, <2>6, <2>8, MappingsStep
    <2>10. 1 = mappings[k].revision + 1 /\ mappings'[k].revision = 1
      BY <2>3, <2>4, <2>6
    <2>11. RecordsInv'
      BY <1>3, <2>1, <2>2, <2>6, <2>10, Recorded
    <2> QED
      BY <2>6, <2>9, <2>11
  <1> QED
    BY <1>1, <1>2, <1>3 DEF Create

\* A transition: what publishing a mapping verified still holds, and the registration
\* that is read last has the contract.
LEMMA TransitionStep ==
  ASSUME StoreTypes, MappingsSound, RecordsInv, NEW c \in CallSet, Knows(c), c.step = "commit",
         ~Creates(c.request), Transition(c.request), UNCHANGED schemas
  PROVE  StoreTypes' /\ StoreMoves /\ MappingsSound' /\ RecordsInv'
  <1> DEFINE q == c.request
             i == q.input
  <1>1. CASE Nothing
    <2>1. UNCHANGED <<sources, mappings, fixtures, schemas>> /\ UNCHANGED storeVars
      BY <1>1 DEF Nothing, storeVars
    <2>2. StoreTypes' /\ StoreMoves
      BY <2>1 DEF StoreTypes, StoreMoves
    <2>3. MappingsSound'
      BY <2>1 DEF MappingsSound, Contracted, Sound
    <2> QED
      BY <2>1, <2>2, <2>3, RecordsStay
  <1>2. CASE /\ Matches(q) /\ ~Held(q) /\ Record(q, Current(q).revision + 1) /\ AboutSource(q)
             /\ sources' = [sources EXCEPT ![Key(q)] = Moved(@, Target(q))]
             /\ UNCHANGED <<mappings, fixtures>>
    <2>1. PICK k : k = Key(q)
      OBVIOUS
    <2>2. /\ q.op = "source.published" /\ q.op \in SourceOps /\ q.op \notin MappingOps
          /\ i \in SourceInputs /\ k = SourceKey(i) /\ k \in SourceKeys
          /\ Current(q) = sources[k] /\ sources[k] # Unregistered /\ sources[k].input = i
          /\ sources[k].status = "DRAFT" /\ Target(q) = "PUBLISHED"
      BY <1>2, <2>1, InputKeys
      DEF AboutSource, Creates, SourceOps, MappingOps, Knows, Key, Current, Matches, Allowed, Target
    <2>3. PICK r : r = Moved(sources[k], "PUBLISHED")
      OBVIOUS
    <2>4. sources[k] \in SourceRegs(k)
      BY <2>2 DEF StoreTypes
    <2>5. /\ r \in SourceRegs(k) /\ r.revision = sources[k].revision + 1
          /\ r.input = sources[k].input
      BY <2>3, <2>4 DEF Moved, SourceRegs
    <2>6. sources' = [sources EXCEPT ![k] = r]
      BY <1>2, <2>1, <2>2, <2>3
    <2>7. /\ StoreTypes' /\ StoreMoves /\ sources'[k] = r
          /\ \A s \in SourceKeys \ {k} : sources'[s] = sources[s]
      BY <1>2, <2>2, <2>5, <2>6, SourceWritten
    <2>8. MappingsSound'
      <3>1. \A m \in MappingKeys : mappings'[m] = mappings[m]
        BY <1>2
      <3>2. \A j \in MappingInputs, m \in MappingKeys :
              mappings'[m] # Unregistered /\ mappings'[m].input = j =>
                /\ Contracted(j)'
                /\ mappings'[m].status \in {"PUBLISHED", "REVOKED"} => Sound(j)'
        BY <2>7, <3>1, MappingLasts DEF MappingsSound
      <3> QED
        BY <2>7, <3>1, <3>2, MappingsStep
    <2>9. PICK n : n = sources[k].revision + 1
      OBVIOUS
    <2>10. Record(q, n)
      BY <1>2, <2>2, <2>9
    <2>11. RecordsInv'
      BY <1>2, <2>1, <2>2, <2>5, <2>7, <2>9, <2>10, Recorded
    <2> QED
      BY <2>7, <2>8, <2>11
  <1>3. CASE /\ Matches(q) /\ ~Held(q) /\ Record(q, Current(q).revision + 1) /\ ~AboutSource(q)
             /\ mappings' = [mappings EXCEPT ![Key(q)] = Moved(@, Target(q))]
             /\ UNCHANGED <<sources, fixtures>>
    <2>1. PICK k : k = Key(q)
      OBVIOUS
    <2>2. /\ q.op \in {"mapping.published", "mapping.revoked"}
          /\ q.op \in MappingOps /\ q.op \notin SourceOps
      BY <1>3, Read DEF AboutSource, Creates, SourceOps, MappingOps
    <2>3. /\ i \in MappingInputs /\ k = MappingKey(i) /\ k \in MappingKeys
          /\ Current(q) = mappings[k] /\ mappings[k] # Unregistered /\ mappings[k].input = i
      BY <1>3, <2>1, <2>2, InputKeys DEF Knows, Key, Current
    <2>4. /\ q.op = "mapping.published" => Target(q) = "PUBLISHED"
          /\ q.op = "mapping.revoked" =>
               mappings[k].status = "PUBLISHED" /\ Target(q) = "REVOKED"
      BY <1>3, <2>3 DEF Matches, Allowed, Target
    <2>5. PICK r : r = Moved(mappings[k], Target(q))
      OBVIOUS
    <2>6. mappings[k] \in MappingRegs(k)
      BY <2>3 DEF StoreTypes
    <2>7. Target(q) \in {"PUBLISHED", "REVOKED"}
      BY <2>2, <2>4
    <2>8. /\ r \in MappingRegs(k) /\ r.revision = mappings[k].revision + 1
          /\ r.input = i /\ r.status \in {"PUBLISHED", "REVOKED"}
      BY <2>3, <2>5, <2>6, <2>7 DEF Moved, MappingRegs
    <2>9. mappings' = [mappings EXCEPT ![k] = r]
      BY <1>3, <2>1, <2>3, <2>5
    <2>10. /\ StoreTypes' /\ StoreMoves /\ mappings'[k] = r
           /\ \A m \in MappingKeys \ {k} : mappings'[m] = mappings[m]
      BY <1>3, <2>3, <2>8, <2>9, MappingWritten
    <2>11. Contracted(i) /\ Sound(i)
      <3>1. Contracted(i)
        BY <2>3 DEF MappingsSound
      <3>2. CASE q.op = "mapping.revoked"
        BY <2>3, <2>4, <3>1, <3>2 DEF MappingsSound
      <3>3. CASE q.op = "mapping.published"
        <4>1. MappingPublishable(i)
          BY <3>3 DEF Knows
        <4> QED
          BY <3>1, <4>1 DEF MappingPublishable, Contracted, Sound
      <3> QED
        BY <2>2, <3>1, <3>2, <3>3
    <2>12. MappingsSound'
      <3>1. Contracted(i)' /\ Sound(i)'
        BY <2>3, <2>10, <2>11, MappingLasts
      <3> QED
        BY <2>8, <2>10, <3>1, MappingsStep
    <2>13. PICK n : n = mappings[k].revision + 1
      OBVIOUS
    <2>14. Record(q, n)
      BY <1>3, <2>3, <2>13
    <2>15. RecordsInv'
      BY <1>3, <2>1, <2>2, <2>3, <2>8, <2>10, <2>13, <2>14, Recorded
    <2> QED
      BY <2>10, <2>12, <2>15
  <1> QED
    BY <1>1, <1>2, <1>3 DEF Transition

LEMMA CommitStep ==
  ASSUME CatalogInv, NEW w \in Callers, Commit(w)
  PROVE  CatalogInv'
  <1> USE DEF CatalogInv
  <1>1. PICK c : c = call[w]
    OBVIOUS
  <1>2. c \in CallSet /\ Knows(c) /\ c.step = "commit"
    BY <1>1, IdleCall DEF Commit, At, CallTypes, CallersKnow, Idle
  <1>3. /\ IF Creates(c.request) THEN Create(c.request) ELSE Transition(c.request)
        /\ Answer(w) /\ UNCHANGED <<schemas, nodeVars, landed>>
    BY <1>1 DEF Commit
  <1>4. StoreTypes' /\ StoreMoves /\ MappingsSound' /\ RecordsInv'
    BY <1>2, <1>3, CreateStep, TransitionStep
  <1>5. CallTypes' /\ CallersKnow'
    BY <1>3, <1>4, Answered, CallersStep
  <1>6. NodeInv' /\ LandedInv'
    BY <1>3, <1>4, NodeStays, LandedStays
  <1> QED
    BY <1>4, <1>5, <1>6
-----------------------------------------------------------------------------
(* Generations. *)

LEMMA BuiltGenerations ==
  ASSUME StoreTypes, MappingsSound, Buildable
  PROVE  GoodGeneration(Generation)
  <1>1. ASSUME NEW m \in PublishedMappings
        PROVE  GoodEntry(Entry(m))
    <2>1. m \in MappingKeys /\ mappings[m].status = "PUBLISHED" /\ mappings[m] # Unregistered
      BY DEF PublishedMappings, Unregistered
    <2>2. PICK i : i = mappings[m].input
      OBVIOUS
    <2>3. i \in MappingInputs /\ MappingKey(i) = m /\ Sound(i)
      BY <2>1, <2>2 DEF StoreTypes, MappingRegs, MappingsSound
    <2>4. Standing(i)
      BY <2>1, <2>2, <2>3 DEF Standing
    <2>5. <<i.source, i.type>> \notin BuiltIn
      BY <2>2 DEF Buildable, Compiles
    <2>6. Entry(m).mapping = i /\ Entry(m).source = sources[SourceKey(i)]
      BY <2>2 DEF Entry
    <2> QED
      BY <2>4, <2>5, <2>6 DEF GoodEntry
  <1>2. \A x \in Generation : GoodEntry(x)
    BY <1>1 DEF Generation
  <1> QED
    BY <1>2 DEF GoodGeneration, Buildable

LEMMA NodeStep ==
  ASSUME CatalogInv, UNCHANGED <<storeVars, schemas, call, landed>>, NodeInv'
  PROVE  CatalogInv'
  <1> USE DEF CatalogInv
  <1>1. StoreTypes' /\ StoreMoves /\ MappingsSound' /\ RecordsInv'
    BY StoreStays
  <1>2. CallTypes' /\ CallersKnow'
    BY <1>1, CallersStay
  <1>3. LandedInv'
    BY <1>1, LandedStays
  <1> QED
    BY <1>1, <1>2, <1>3

LEMMA RuntimeSteps ==
  ASSUME CatalogInv, Refresh \/ RefreshActivate \/ RebuildBuild \/ RebuildActivate \/ Restart
  PROVE  CatalogInv'
  <1> USE DEF CatalogInv
  <1>1. UNCHANGED <<storeVars, schemas, call, landed>>
    BY DEF Refresh, RefreshActivate, RebuildBuild, RebuildActivate, Restart
  <1>2. StoreMoves
    BY <1>1, StoreStays
  <1>3. PICK g, h, r, b : g = active /\ h = refresh /\ r = rebuild /\ b = Generation
    OBVIOUS
  <1>4. /\ GoodGeneration(g)
        /\ h \in {NothingBuilt, Stopped} \/ GoodGeneration(h)
        /\ r = NothingBuilt \/ GoodGeneration(r)
        /\ Buildable => GoodGeneration(b)
    BY <1>3, BuiltGenerations DEF NodeInv
  <1>5. /\ GoodGeneration(g)'
        /\ h \in {NothingBuilt, Stopped} \/ GoodGeneration(h)'
        /\ r = NothingBuilt \/ GoodGeneration(r)'
        /\ Buildable => GoodGeneration(b)'
    BY <1>2, <1>4, GenerationLasts
  <1>6. CASE Refresh
    <2>1. active' = g /\ rebuild' = r /\ refresh' = IF Buildable THEN b ELSE NothingBuilt
      BY <1>3, <1>6 DEF Refresh
    <2> QED
      BY <1>1, <1>5, <2>1, NodeStep DEF NodeInv
  <1>7. CASE RefreshActivate
    <2>1. /\ active' = h /\ h \notin {NothingBuilt, Stopped}
          /\ rebuild' = r /\ refresh' = NothingBuilt
      BY <1>3, <1>7 DEF RefreshActivate
    <2> QED
      BY <1>1, <1>5, <2>1, NodeStep DEF NodeInv
  <1>8. CASE RebuildBuild
    <2>1. active' = g /\ refresh' = h /\ rebuild' = IF Buildable THEN b ELSE NothingBuilt
      BY <1>3, <1>8 DEF RebuildBuild
    <2> QED
      BY <1>1, <1>5, <2>1, NodeStep DEF NodeInv
  <1>9. CASE RebuildActivate
    <2>1. active' = r /\ r # NothingBuilt /\ refresh' = h /\ rebuild' = NothingBuilt
      BY <1>3, <1>9 DEF RebuildActivate
    <2> QED
      BY <1>1, <1>5, <2>1, NodeStep DEF NodeInv
  <1>10. CASE Restart
    <2>1. active' = {} /\ refresh' = NothingBuilt /\ rebuild' = NothingBuilt
      BY <1>10 DEF Restart
    <2>2. NodeInv'
      BY <2>1 DEF NodeInv, GoodGeneration
    <2> QED
      BY <1>1, <2>2, NodeStep
  <1> QED
    BY <1>6, <1>7, <1>8, <1>9, <1>10

-----------------------------------------------------------------------------
(* Events. *)

\* What a candidate of an event says of the catalog.
LEMMA CandidateEntry ==
  ASSUME StoreTypes, NodeInv, NEW e, NEW x \in Candidates(e)
  PROVE  /\ Standing(x.mapping) /\ x \in active
         /\ x.mapping.tenant = e.tenant /\ x.mapping.source = e.source
         /\ x.mapping.type = e.type
         /\ <<e.source, e.type>> \notin BuiltIn
         /\ LET s == sources[SourceKey(x.mapping)].input IN
            /\ s.tenant = e.tenant /\ s.workspace = x.mapping.workspace
            /\ s.mode \in {"metadata", "allowlist"}
            /\ s.mode = "metadata" => e.workspace = s.workspace
            /\ s.mode = "allowlist" => <<e.tenant, s.workspace>> \in s.allow
  <1> DEFINE i == x.mapping
             k == SourceKey(i)
             s == sources[k].input
  <1>1. /\ x \in active /\ i.tenant = e.tenant /\ i.source = e.source /\ i.type = e.type
        /\ ResolvesWorkspace(x.source.input, e.tenant, e.workspace)
    BY DEF Candidates
  <1>2. Standing(i) /\ x.source = sources[k] /\ <<i.source, i.type>> \notin BuiltIn
    BY <1>1 DEF NodeInv, GoodGeneration, GoodEntry
  <1>3. i \in MappingInputs /\ sources[k].status = "PUBLISHED"
    BY <1>2 DEF Standing, Sound
  <1>4. k \in SourceKeys /\ sources[k] # Unregistered
    BY <1>3, InputKeys DEF Unregistered
  <1>5. s \in SourceInputs /\ SourceKey(s) = k
    BY <1>4 DEF StoreTypes, SourceRegs
  <1>6. s.workspace = i.workspace /\ s.tenant = i.tenant
    BY <1>5 DEF SourceKey
  <1>7. s.mode \in {"metadata", "allowlist"}
    BY <1>5, CatalogAssumption
  <1>8. ResolvesWorkspace(s, e.tenant, e.workspace)
    BY <1>1, <1>2
  <1>9. /\ s.mode = "metadata" => e.workspace = s.workspace
        /\ s.mode = "allowlist" => <<e.tenant, s.workspace>> \in s.allow
    BY <1>8 DEF ResolvesWorkspace
  <1> QED
    BY <1>1, <1>2, <1>6, <1>7, <1>9

\* Two entries of one generation resolve one event only by an allowlist.
LEMMA TwoCandidates ==
  ASSUME StoreTypes, NodeInv, NEW e, NEW x \in Candidates(e), NEW y \in Candidates(e), x # y
  PROVE  \E z \in {x, y} : sources[SourceKey(z.mapping)].input.mode = "allowlist"
  <1> SUFFICES ASSUME sources[SourceKey(x.mapping)].input.mode # "allowlist",
                      sources[SourceKey(y.mapping)].input.mode # "allowlist"
               PROVE  FALSE
    OBVIOUS
  <1>1. \A z \in {x, y} : /\ z \in active /\ z.mapping.tenant = e.tenant
                          /\ z.mapping.source = e.source /\ z.mapping.type = e.type
    BY DEF Candidates
  <1>2. \A z \in {x, y} :
          LET s == sources[SourceKey(z.mapping)].input IN
          /\ s.workspace = z.mapping.workspace /\ s.mode \in {"metadata", "allowlist"}
          /\ s.mode = "metadata" => e.workspace = s.workspace
    BY CandidateEntry
  <1>3. x.mapping.workspace = e.workspace /\ y.mapping.workspace = e.workspace
    BY <1>2
  <1>4. RuntimeKey(x) = RuntimeKey(y)
    BY <1>1, <1>2, <1>3 DEF RuntimeKey, SourceKey
  <1> QED
    BY <1>1, <1>4 DEF NodeInv, GoodGeneration

\* What the result of routing says of the catalog.
LEMMA RoutedEvents ==
  ASSUME StoreTypes, NodeInv, NEW e \in Events, NEW result \in Route(e)
  PROVE  /\ result.outcome = "stored" =>
              \/ result.workspace = e.workspace
              \/ \E k \in SourceKeys :
                   /\ k = <<e.tenant, result.workspace, e.source>>
                   /\ sources[k].status = "PUBLISHED" /\ sources[k].input.mode = "allowlist"
                   /\ <<e.tenant, result.workspace>> \in sources[k].input.allow
         /\ result.outcome = "ambiguous" =>
              \E m \in MappingKeys :
                /\ mappings[m].status \in {"PUBLISHED", "REVOKED"}
                /\ mappings[m].input.tenant = e.tenant /\ mappings[m].input.source = e.source
                /\ sources[SourceKey(mappings[m].input)].input.mode = "allowlist"
         /\ <<e.source, e.type>> \in BuiltIn => result = Stored(e.workspace, Handler)
         /\ result.outcome = "rejected" =>
              \E i \in MappingInputs :
                /\ result.mapping = MappingKey(i) /\ Standing(i)
                /\ ~MapsEvent(i, e) \/ Overlaps(i.fields)
  <1> DEFINE found == Candidates(e)
  <1>1. CASE Cardinality(found) > 1
    <2>1. PICK x \in found, y \in found : x # y
      <3>1. found # {}
        BY <1>1, FS_EmptySet
      <3>2. PICK x \in found : TRUE
        BY <3>1
      <3>3. found # {x}
        BY <1>1, FS_Singleton
      <3> QED
        BY <3>2, <3>3
    <2>2. PICK z \in {x, y} : sources[SourceKey(z.mapping)].input.mode = "allowlist"
      BY <2>1, TwoCandidates
    <2>3. PICK i : i = z.mapping
      OBVIOUS
    <2>4. /\ Standing(i) /\ i.tenant = e.tenant /\ i.source = e.source
          /\ <<e.source, e.type>> \notin BuiltIn
      BY <2>2, <2>3, CandidateEntry
    <2>5. result.outcome = "ambiguous"
      <3>1. result = Dead("ambiguous", Handler)
        BY <1>1 DEF Route
      <3> QED
        BY <3>1 DEF Dead
    <2>6. i \in MappingInputs /\ MappingKey(i) \in MappingKeys
      BY <2>4, InputKeys DEF Standing
    <2>7. \E m \in MappingKeys :
            /\ mappings[m].status \in {"PUBLISHED", "REVOKED"}
            /\ mappings[m].input.tenant = e.tenant /\ mappings[m].input.source = e.source
            /\ sources[SourceKey(mappings[m].input)].input.mode = "allowlist"
      BY <2>2, <2>3, <2>4, <2>6 DEF Standing
    <2> QED
      BY <2>4, <2>5, <2>7
  <1>2. CASE Cardinality(found) = 1
    <2>1. PICK x : x = CHOOSE entry \in found : TRUE
      OBVIOUS
    <2>2. x \in found
      BY <1>2, <2>1, FS_EmptySet
    <2>3. PICK i : i = x.mapping
      OBVIOUS
    <2>4. /\ Standing(i) /\ i.tenant = e.tenant /\ i.source = e.source
          /\ <<e.source, e.type>> \notin BuiltIn
      BY <2>2, <2>3, CandidateEntry
    <2>5. result \in (IF MapsEvent(i, e) THEN {Stored(i.workspace, MappingKey(i))} ELSE {})
                     \cup (IF ~MapsEvent(i, e) \/ Overlaps(i.fields)
                           THEN {Dead("rejected", MappingKey(i))} ELSE {})
      <3>1. Route(e) =
              LET j == (CHOOSE entry \in found : TRUE).mapping
              IN  (IF MapsEvent(j, e) THEN {Stored(j.workspace, MappingKey(j))} ELSE {})
                  \cup (IF ~MapsEvent(j, e) \/ Overlaps(j.fields)
                        THEN {Dead("rejected", MappingKey(j))} ELSE {})
        BY <1>2 DEF Route
      <3> QED
        BY <2>1, <2>3, <3>1
    <2>6. CASE result = Stored(i.workspace, MappingKey(i))
      <3>1. result.outcome = "stored" /\ result.workspace = i.workspace
        BY <2>6 DEF Stored
      <3>2. PICK k : k = SourceKey(i)
        OBVIOUS
      <3>3. /\ k \in SourceKeys /\ sources[k].status = "PUBLISHED"
            /\ k = <<e.tenant, result.workspace, e.source>>
        BY <2>4, <3>1, <3>2, InputKeys DEF Standing, Sound, SourceKey
      <3>4. /\ sources[k].input.workspace = i.workspace
            /\ sources[k].input.mode \in {"metadata", "allowlist"}
            /\ sources[k].input.mode = "metadata" => e.workspace = i.workspace
            /\ sources[k].input.mode = "allowlist" =>
                 <<e.tenant, i.workspace>> \in sources[k].input.allow
        BY <2>2, <2>3, <3>2, CandidateEntry
      <3> QED
        BY <2>4, <3>1, <3>3, <3>4
    <2>7. CASE /\ ~MapsEvent(i, e) \/ Overlaps(i.fields)
               /\ result = Dead("rejected", MappingKey(i))
      <3>1. result.outcome = "rejected" /\ result.mapping = MappingKey(i)
        BY <2>7 DEF Dead
      <3> QED
        BY <2>4, <2>7, <3>1 DEF Standing
    <2> QED
      BY <2>5, <2>6, <2>7
  <1>3. CASE ~(Cardinality(found) > 1) /\ Cardinality(found) # 1
    <2>1. result \in IF <<e.source, e.type>> \in BuiltIn
                     THEN {Stored(e.workspace, Handler)} ELSE {Dead("unmapped", Handler)}
      BY <1>3 DEF Route
    <2>2. CASE result = Stored(e.workspace, Handler)
      BY <2>2 DEF Stored
    <2>3. CASE <<e.source, e.type>> \notin BuiltIn /\ result = Dead("unmapped", Handler)
      BY <2>3 DEF Dead
    <2> QED
      BY <2>1, <2>2, <2>3
  <1> QED
    BY <1>1, <1>2, <1>3
LEMMA DeliverStep ==
  ASSUME CatalogInv, NEW e \in Events, Deliver(e)
  PROVE  CatalogInv'
  <1> USE DEF CatalogInv
  <1>1. UNCHANGED <<storeVars, schemas, call, nodeVars>> /\ landed[e] = Pending
    BY DEF Deliver
  <1>2. StoreTypes' /\ StoreMoves /\ MappingsSound' /\ RecordsInv'
    BY <1>1, StoreStays
  <1>3. CallTypes' /\ CallersKnow' /\ NodeInv'
    BY <1>1, <1>2, CallersStay, NodeStays
  <1>4. sources' = sources /\ mappings' = mappings /\ fixtures' = fixtures /\ schemas' = schemas
    BY <1>1 DEF storeVars
  <1>5. PICK result \in Route(e) : landed' = [landed EXCEPT ![e] = result]
    BY DEF Deliver
  <1>6. /\ landed' = [d \in Events |-> landed'[d]] /\ landed'[e] = result
        /\ \A d \in Events \ {e} : landed'[d] = landed[d]
    BY <1>5 DEF LandedInv
  <1>7. StoredBySource'
    <2> SUFFICES ASSUME NEW d \in Events, landed'[d].outcome = "stored"
                 PROVE  \/ landed'[d].workspace = d.workspace
                        \/ \E k \in SourceKeys :
                             /\ k = <<d.tenant, landed'[d].workspace, d.source>>
                             /\ sources[k].status = "PUBLISHED"
                             /\ sources[k].input.mode = "allowlist"
                             /\ <<d.tenant, landed'[d].workspace>> \in sources[k].input.allow
      BY <1>4 DEF StoredBySource
    <2>1. CASE d = e
      BY <1>5, <1>6, <2>1, RoutedEvents
    <2>2. CASE d # e
      BY <1>6, <2>2 DEF LandedInv, StoredBySource
    <2> QED
      BY <2>1, <2>2
  <1>8. AmbiguousOnlyByAllowlist'
    <2> SUFFICES ASSUME NEW d \in Events, landed'[d].outcome = "ambiguous"
                 PROVE  \E m \in MappingKeys :
                          /\ mappings[m].status \in {"PUBLISHED", "REVOKED"}
                          /\ mappings[m].input.tenant = d.tenant
                          /\ mappings[m].input.source = d.source
                          /\ sources[SourceKey(mappings[m].input)].input.mode = "allowlist"
      BY <1>4 DEF AmbiguousOnlyByAllowlist
    <2>1. CASE d = e
      BY <1>5, <1>6, <2>1, RoutedEvents
    <2>2. CASE d # e
      BY <1>6, <2>2 DEF LandedInv, AmbiguousOnlyByAllowlist
    <2> QED
      BY <2>1, <2>2
  <1>9. BuiltInsKeepTheirHandler'
    <2> SUFFICES ASSUME NEW d \in Events, <<d.source, d.type>> \in BuiltIn, landed'[d] # Pending
                 PROVE  landed'[d] = Stored(d.workspace, Handler)
      BY DEF BuiltInsKeepTheirHandler
    <2>1. CASE d = e
      BY <1>5, <1>6, <2>1, RoutedEvents
    <2>2. CASE d # e
      BY <1>6, <2>2 DEF LandedInv, BuiltInsKeepTheirHandler
    <2> QED
      BY <2>1, <2>2
  <1>10. RejectedByMapping'
    <2> SUFFICES ASSUME NEW d \in Events, landed'[d].outcome = "rejected"
                 PROVE  \E i \in MappingInputs :
                          /\ landed'[d].mapping = MappingKey(i) /\ Standing(i)'
                          /\ ~MapsEvent(i, d) \/ Overlaps(i.fields)
      BY DEF RejectedByMapping
    <2>1. CASE d = e
      BY <1>2, <1>5, <1>6, <2>1, RoutedEvents, StandingLasts
    <2>2. CASE d # e
      BY <1>2, <1>6, <2>2, StandingLasts DEF LandedInv, RejectedByMapping
    <2> QED
      BY <2>1, <2>2
  <1> QED
    BY <1>2, <1>3, <1>6, <1>7, <1>8, <1>9, <1>10 DEF LandedInv

-----------------------------------------------------------------------------
(* The invariant. *)

LEMMA InitCatalog == InitFrom({}, {}) => CatalogInv
  <1> SUFFICES ASSUME InitFrom({}, {}) PROVE CatalogInv
    OBVIOUS
  <1>1. /\ sources = [k \in SourceKeys |-> Unregistered]
        /\ mappings = [k \in MappingKeys |-> Unregistered]
    BY DEF InitFrom, SeedOf
  <1>2. SeedRequests({}, {}) = {}
    BY DEF SeedRequests
  <1>3. receipts = {} /\ audit = {} /\ audited = Cardinality(audit)
    BY <1>2 DEF InitFrom
  <1>4. /\ call = [c \in Callers |-> Idle] /\ landed = [e \in Events |-> Pending]
        /\ active = {} /\ refresh = NothingBuilt /\ rebuild = NothingBuilt
    BY DEF InitFrom
  <1>5. StoreTypes /\ MappingsSound
    BY <1>1 DEF StoreTypes, MappingsSound
  <1>6. CallTypes /\ CallersKnow
    BY <1>4 DEF CallTypes, CallersKnow
  <1>7. NodeInv
    BY <1>4 DEF NodeInv, GoodGeneration
  <1>8. LandedInv
    BY <1>4
    DEF LandedInv, StoredBySource, AmbiguousOnlyByAllowlist, BuiltInsKeepTheirHandler,
        RejectedByMapping, Pending
  <1>9. RecordsInv
    <2>1. IsFiniteSet({}) /\ Cardinality({}) = 0
      BY FS_EmptySet
    <2>2. \A ops, id : Revisions(ops, id) = {}
      BY <1>3 DEF Revisions
    <2>3. /\ \A s \in SourceKeys : 1 .. sources[s].revision = {}
          /\ \A m \in MappingKeys : 1 .. mappings[m].revision = {}
      BY <1>1 DEF Unregistered
    <2>4. EachRevisionIsRecorded
      BY <1>3, <2>1, <2>2, <2>3, RecordsMeaning
    <2> QED
      BY <1>3, <2>1, <2>4 DEF RecordsInv
  <1> QED
    BY <1>5, <1>6, <1>7, <1>8, <1>9 DEF CatalogInv

LEMMA NextCatalog == CatalogInv /\ [Control \/ Runtime]_vars => CatalogInv'
  <1> SUFFICES ASSUME CatalogInv, [Control \/ Runtime]_vars PROVE CatalogInv'
    OBVIOUS
  <1> USE DEF CatalogInv
  <1>1. ASSUME NEW w \in Callers, Call(w) PROVE CatalogInv'
    <2>1. CASE Abort(w)
      <3>1. UNCHANGED <<storeVars, schemas, nodeVars, landed>> /\ Answer(w)
        BY <2>1 DEF Abort
      <3> QED
        BY <3>1, AnswerStep
    <2> QED
      BY <1>1, <2>1, BeginStep, FindStep, LookupStep, CheckStep, CommitStep DEF Call
  <1>2. ASSUME NEW s, PublishSchema(s) PROVE CatalogInv'
    <2>1. UNCHANGED <<storeVars, call, nodeVars, landed>> /\ schemas \subseteq schemas'
      BY <1>2 DEF PublishSchema
    <2>2. StoreTypes' /\ StoreMoves /\ MappingsSound' /\ RecordsInv'
      BY <2>1, StoreStays
    <2> QED
      BY <2>1, <2>2, CallersStay, NodeStays, LandedStays
  <1>3. CASE Runtime
    BY <1>3, RuntimeSteps, DeliverStep DEF Runtime
  <1>4. CASE UNCHANGED vars
    <2>1. UNCHANGED <<storeVars, schemas, call, nodeVars, landed>>
      BY <1>4 DEF vars
    <2>2. StoreTypes' /\ StoreMoves /\ MappingsSound' /\ RecordsInv'
      BY <2>1, StoreStays
    <2> QED
      BY <2>1, <2>2, CallersStay, NodeStays, LandedStays
  <1> QED
    BY <1>1, <1>2, <1>3, <1>4 DEF Control

LEMMA CatalogInvariant == CatalogSpec => []CatalogInv
  BY InitCatalog, NextCatalog, PTL DEF CatalogSpec

\* A mapping is published, and once revoked was published, only over a published source of
\* the same event contract, a published schema that declares its fields, and a stored
\* fixture that resolves to its workspace and maps (transitionMapping): although the checks
\* run outside the transaction, nothing that they read can be undone before it.
THEOREM PublishedIsSound == CatalogSpec => []PublishedMappingIsSound
  <1>1. CatalogInv => PublishedMappingIsSound
    BY DEF CatalogInv, MappingsSound, Sound, PublishedMappingIsSound, Unregistered
  <1> QED
    BY <1>1, CatalogInvariant, PTL

\* Every revision of a source and of a mapping has one audit entry, every entry one
\* receipt, and no receipt answers for two changes (CreateSource, transitionSource,
\* CreateMapping, transitionMapping), whatever transactions abort and requests repeat.
THEOREM RevisionsRecorded == CatalogSpec => []EachRevisionIsRecorded
  BY CatalogInvariant, PTL DEF CatalogInv, RecordsInv

\* An event is stored only in the workspace it names or one whose published source lists
\* it; is ambiguous only because of an allowlist; and, of a built-in type, always goes to
\* its handler (Resolve, Build, isBuiltInHandlerKey), whichever generation routes it.
THEOREM RoutesFollowCatalog == CatalogSpec => []EventsAreRouted
  <1>1. CatalogInv => EventsAreRouted
    BY DEF CatalogInv, LandedInv, EventsAreRouted, StoredBySource, StoredWhereResolved
  <1> QED
    BY <1>1, CatalogInvariant, PTL

\* An event that a mapping rejects lacks a path that is mapped, or has values that the
\* target schema refuses and its fixture does not have, or one that BSON cannot hold,
\* unless target paths overlap (Map, validateMappingFixture): what was verified of the
\* fixture at publication is still true of the mapping that any later generation routes by.
THEOREM FixturesForetell == CatalogSpec => []FixtureForetellsMapping
  <1>1. CatalogInv => FixtureForetellsMapping
    <2> SUFFICES ASSUME CatalogInv, NEW e \in Events, landed[e].outcome = "rejected",
                        NEW i \in MappingInputs, landed[e].mapping = MappingKey(i),
                        mappings[MappingKey(i)].input = i, Finds(i, e.holds),
                        ~Overlaps(i.fields), Encodes(i, e.holds)
                 PROVE  /\ Mapped(i, e.holds) \notin Definitions[i.schema].takes
                        /\ Mapped(i, e.holds) # Mapped(i, i.fixture.holds)
      BY DEF FixtureForetellsMapping
    <2>1. PICK j \in MappingInputs :
            /\ landed[e].mapping = MappingKey(j) /\ Standing(j)
            /\ ~MapsEvent(j, e) \/ Overlaps(j.fields)
      BY DEF CatalogInv, LandedInv, RejectedByMapping
    <2>2. j = i
      BY <2>1 DEF Standing
    <2>3. Maps(i, i.fixture.holds)
      BY <2>1, <2>2 DEF Standing, Sound, FixtureFits
    <2>4. ~MapsEvent(i, e)
      BY <2>1, <2>2
    <2>5. Mapped(i, e.holds) \notin Definitions[i.schema].takes
      BY <2>4 DEF MapsEvent, Maps
    <2>6. Mapped(i, i.fixture.holds) \in Definitions[i.schema].takes
      BY <2>3 DEF Maps
    <2> QED
      BY <2>5, <2>6
  <1> QED
    BY <1>1, CatalogInvariant, PTL
=============================================================================
