--------------------------- MODULE WorkspaceProofs ---------------------------
(***************************************************************************)
(* Proofs about the parts of a workspace that share no state: the snapshots *)
(* of WorkflowBinding, for every set of workflows, requests and states of   *)
(* the record and any number of calls, changes and failures;                *)
(* ConnectorOnboarding, for every set of members and any limits; the        *)
(* definitions and tag dictionaries of Workspace, for every set of ids,     *)
(* tables, names, fields and entry lists, any finite set of callers, any    *)
(* limits and any number of requests and failures; and the readings of      *)
(* RecordQuery, for every set of records, values and views, any page size   *)
(* and any number of readers, writes, updates and switches.                 *)
(***************************************************************************)
EXTENDS Workspace, RecordQuery, WorkflowBinding, ConnectorOnboarding, FiniteSetTheorems, TLAPS

-----------------------------------------------------------------------------
(* WorkflowBinding. *)

\* A snapshot is of a state the record was in, and fits the request whose hash
\* it carries.
Faithful(s) ==
  /\ s.content \in past
  /\ s.hash = SnapshotHash(s.content)
  /\ s.purpose = s.request.purpose
  /\ s.content.schema = s.request.schema
  /\ s.content.record = s.request.record
  /\ s.request.source > 0 => s.content.source = s.request.source

\* A snapshot belongs to a request.
Serves(s, q) == s.operation = q.operation /\ s.request = RequestHash(q)

\* A call has built at most one snapshot, a faithful one of its request.
Sound(b) ==
  /\ b.request \in SnapshotRequests
  /\ \A s \in b.made : Faithful(s) /\ Serves(s, b.request)
  /\ \A s, t \in b.made : s = t

\* What was read is history, and so is every snapshot, stored or about to be.
SourceIsPast == source \subseteq past
StoredFaithful ==
  /\ \A s \in snapshots : Faithful(s)
  /\ \A s, t \in snapshots : s.operation = t.operation => s = t
MadeFaithful ==
  /\ binding = [w \in Workflows |-> binding[w]]
  /\ \A w \in Workflows : \A b, c \in binding[w] : b = c
  /\ \A w \in Workflows : \A b \in binding[w] : Sound(b)
\* An answer is a stored snapshot of its request.
AnswersStored ==
  \A a \in answers :
    a.request \in SnapshotRequests /\ a.snapshot \in snapshots /\ Serves(a.snapshot, a.request)

BindingInv == SourceIsPast /\ StoredFaithful /\ MadeFaithful /\ AnswersStored

-----------------------------------------------------------------------------
\* History only grows, so a snapshot stays faithful.
LEMMA FaithfulLasts ==
  ASSUME NEW s, Faithful(s), past \subseteq past'
  PROVE  Faithful(s)'
  BY DEF Faithful, SnapshotHash

\* The hash of a request tells its fields.
LEMMA HashedFields ==
  ASSUME NEW q, NEW h, h = RequestHash(q)
  PROVE  /\ h.schema = q.schema /\ h.record = q.record
         /\ h.source = q.source /\ h.purpose = q.purpose
  BY DEF RequestHash

\* A snapshot built from the record that was read, after Fits, is faithful.
LEMMA SnapshotFaithful ==
  ASSUME NEW id, NEW q \in SnapshotRequests, NEW r \in past, Fits(q, r)
  PROVE  Faithful(Snapshot(id, q, r)) /\ Serves(Snapshot(id, q, r), q)
  BY BindingAssumption DEF Faithful, Serves, Snapshot, RequestHash, SnapshotHash, Fits

\* A sound call stays sound.
LEMMA SoundLasts ==
  ASSUME NEW b, Sound(b), past \subseteq past'
  PROVE  Sound(b)'
  BY FaithfulLasts DEF Sound, Serves, RequestHash

\* A step that moves one call on, to none or to a sound one.
LEMMA MadeStep ==
  ASSUME MadeFaithful, NEW w \in Workflows, NEW works, past' = past,
         binding' = [binding EXCEPT ![w] = works],
         \A b, c \in works : b = c, \A b \in works : Sound(b)
  PROVE  MadeFaithful'
  <1>1. binding' = [v \in Workflows |-> binding'[v]]
    BY DEF MadeFaithful
  <1>2. ASSUME NEW v \in Workflows
        PROVE  /\ \A b, c \in binding'[v] : b = c
               /\ \A b \in binding'[v] : Sound(b)
    <2>1. CASE v = w
      BY <2>1 DEF MadeFaithful
    <2>2. CASE v # w
      BY <2>2 DEF MadeFaithful
    <2> QED
      BY <2>1, <2>2
  <1>3. \A v \in Workflows : \A b \in binding'[v] : Sound(b)'
    BY <1>2, SoundLasts
  <1> QED
    BY <1>1, <1>2, <1>3 DEF MadeFaithful

\* Returning, or going on without a snapshot, is such a step.
LEMMA WorkStep ==
  ASSUME MadeFaithful, NEW w \in Workflows, NEW q \in SnapshotRequests, past' = past,
         Return(w) \/ \E step : Work(w, step, q, {})
  PROVE  MadeFaithful'
  <1>1. CASE Return(w)
    BY <1>1, MadeStep DEF Return
  <1>2. ASSUME NEW step, Work(w, step, q, {}) PROVE MadeFaithful'
    <2> DEFINE b == [step |-> step, request |-> q, made |-> {}]
    <2>1. Sound(b)
      BY DEF Sound
    <2>2. binding' = [binding EXCEPT ![w] = {b}]
      BY <1>2 DEF Work
    <2> HIDE DEF b
    <2> QED
      BY <2>1, <2>2, MadeStep
  <1> QED
    BY <1>1, <1>2

\* The snapshot that a call at its insert has built.
LEMMA BuiltSnapshot ==
  ASSUME MadeFaithful, NEW w \in Workflows, NEW q, Working(w, "insert", q),
         NEW b \in binding[w]
  PROVE  /\ b.request = q /\ Sound(b)
         /\ \A s \in b.made : Faithful(s) /\ Serves(s, q)
  BY DEF MadeFaithful, Working, Sound

\* Storing a faithful snapshot of a new operation.
LEMMA StoreStep ==
  ASSUME StoredFaithful, past' = past, NEW s, Faithful(s),
         \A t \in snapshots : t.operation # s.operation,
         snapshots' = snapshots \cup {s}
  PROVE  StoredFaithful'
  <1>1. \A t \in snapshots' : Faithful(t)'
    BY FaithfulLasts DEF StoredFaithful
  <1> QED
    BY <1>1 DEF StoredFaithful

\* Answering with a stored snapshot of the request.
LEMMA AnswerStep ==
  ASSUME AnswersStored, NEW q \in SnapshotRequests, NEW s \in snapshots', Serves(s, q),
         snapshots \subseteq snapshots',
         answers' = answers \cup {[request |-> q, snapshot |-> s]}
  PROVE  AnswersStored'
  <1>1. ASSUME NEW a \in answers'
        PROVE  a.request \in SnapshotRequests /\ a.snapshot \in snapshots' /\ Serves(a.snapshot, a.request)
    <2>1. CASE a \in answers
      BY <2>1 DEF AnswersStored
    <2>2. CASE a = [request |-> q, snapshot |-> s]
      <3>1. a.request = q /\ a.snapshot = s
        BY <2>2
      <3> QED
        BY <3>1
    <2> QED
      BY <2>1, <2>2
  <1>2. \A a \in answers' : Serves(a.snapshot, a.request)'
    BY <1>1 DEF Serves, RequestHash
  <1> QED
    BY <1>1, <1>2 DEF AnswersStored

\* Answers and snapshots that a step leaves alone.
LEMMA Kept ==
  /\ StoredFaithful /\ past \subseteq past' /\ snapshots' = snapshots => StoredFaithful'
  /\ AnswersStored /\ answers' = answers /\ snapshots \subseteq snapshots' => AnswersStored'
  <1>1. ASSUME StoredFaithful, past \subseteq past', snapshots' = snapshots
        PROVE  StoredFaithful'
    BY <1>1, FaithfulLasts DEF StoredFaithful
  <1>2. ASSUME AnswersStored, answers' = answers, snapshots \subseteq snapshots'
        PROVE  AnswersStored'
    BY <1>2 DEF AnswersStored, Serves, RequestHash
  <1> QED
    BY <1>1, <1>2

\* A replay answers with what is stored, or not at all.
LEMMA ReplayStep ==
  ASSUME BindingInv, NEW w \in Workflows, NEW q \in SnapshotRequests, NEW s \in snapshots,
         s.operation = q.operation, Replay(w, q, s), UNCHANGED <<source, past, snapshots>>
  PROVE  BindingInv'
  <1> USE DEF BindingInv
  <1>1. SourceIsPast' /\ StoredFaithful'
    BY Kept DEF SourceIsPast
  <1>2. Return(w)
    BY DEF Replay, Reply, Deny
  <1>3. MadeFaithful'
    BY <1>2, WorkStep
  <1>4. CASE s.request = RequestHash(q)
    <2>1. answers' = answers \cup {[request |-> q, snapshot |-> s]} /\ Serves(s, q)
      BY <1>4 DEF Replay, Reply, Serves
    <2> QED
      BY <1>1, <1>3, <2>1, AnswerStep
  <1>5. CASE s.request # RequestHash(q)
    <2>1. answers' = answers
      BY <1>5 DEF Replay, Deny
    <2> QED
      BY <1>1, <1>3, <2>1, Kept
  <1> QED
    BY <1>4, <1>5

-----------------------------------------------------------------------------
\* One step of the specification keeps the invariant.
LEMMA BindingStep ==
  ASSUME BindingInv, [BindingNext]_bvars
  PROVE  BindingInv'
  <1> USE DEF BindingInv
  <1>1. CASE UNCHANGED bvars
    BY <1>1 DEF bvars, SourceIsPast, StoredFaithful, MadeFaithful, AnswersStored, Faithful, Sound,
                Serves, RequestHash, SnapshotHash
  <1>2. ASSUME NEW r \in SourceRecords, ChangeRecord(r) PROVE BindingInv'
    <2>1. past \subseteq past' /\ SourceIsPast'
      BY <1>2 DEF ChangeRecord, SourceIsPast
    <2>2. StoredFaithful' /\ AnswersStored'
      BY <1>2, <2>1, Kept DEF ChangeRecord
    <2>3. MadeFaithful'
      BY <1>2, <2>1, SoundLasts DEF ChangeRecord, MadeFaithful
    <2> QED
      BY <2>1, <2>2, <2>3
  <1>3. ASSUME NEW w \in Workflows, NEW q \in SnapshotRequests, CreateSnapshot(w, q)
        PROVE  BindingInv'
    <2>1. CASE \E s \in snapshots : s.operation = q.operation /\ Replay(w, q, s)
      BY <1>3, <2>1, ReplayStep DEF CreateSnapshot
    <2>2. CASE Work(w, "read", q, {}) /\ UNCHANGED answers
      BY <1>3, <2>2, WorkStep, Kept DEF CreateSnapshot, SourceIsPast
    <2> QED
      BY <1>3, <2>1, <2>2 DEF CreateSnapshot
  <1>4. ASSUME NEW w \in Workflows, NEW q \in SnapshotRequests, ReadRecord(w, q)
        PROVE  BindingInv'
    <2>1. SourceIsPast' /\ StoredFaithful' /\ AnswersStored'
      BY <1>4, Kept DEF ReadRecord, SourceIsPast
    <2>2. ASSUME NEW r \in source, Fits(q, r),
                 Work(w, "insert", q, {Snapshot(<<w, snapshotCalls>>, q, r)})
          PROVE  MadeFaithful'
      <3> DEFINE s == Snapshot(<<w, snapshotCalls>>, q, r)
                 b == [step |-> "insert", request |-> q, made |-> {s}]
      <3>1. Faithful(s) /\ Serves(s, q)
        BY <2>2, SnapshotFaithful DEF SourceIsPast
      <3>2. binding' = [binding EXCEPT ![w] = {b}] /\ past' = past
        BY <1>4, <2>2 DEF Work, ReadRecord
      <3> HIDE DEF s
      <3>3. Sound(b)
        BY <3>1 DEF Sound
      <3> HIDE DEF b
      <3> QED
        BY <3>2, <3>3, MadeStep
    <2>3. CASE Return(w)
      BY <1>4, <2>1, <2>3, WorkStep DEF ReadRecord
    <2> QED
      BY <1>4, <2>1, <2>2, <2>3 DEF ReadRecord
  <1>5. ASSUME NEW w \in Workflows, NEW q \in SnapshotRequests, InsertSnapshot(w, q)
        PROVE  BindingInv'
    <2>1. SourceIsPast' /\ past' = past
      BY <1>5 DEF InsertSnapshot, SourceIsPast
    <2>2. PICK b \in binding[w] : \E s \in b.made :
            \/ /\ \A t \in snapshots : t.operation # q.operation
               /\ snapshots' = snapshots \cup {s} /\ Reply(w, q, s)
            \/ Work(w, "exists", q, {}) /\ UNCHANGED <<snapshots, answers>>
      BY <1>5 DEF InsertSnapshot
    <2>3. PICK s \in b.made :
            \/ /\ \A t \in snapshots : t.operation # q.operation
               /\ snapshots' = snapshots \cup {s} /\ Reply(w, q, s)
            \/ Work(w, "exists", q, {}) /\ UNCHANGED <<snapshots, answers>>
      BY <2>2
    <2>4. Faithful(s) /\ Serves(s, q)
      BY <1>5, BuiltSnapshot DEF InsertSnapshot
    <2>5. CASE Work(w, "exists", q, {}) /\ UNCHANGED <<snapshots, answers>>
      BY <2>1, <2>5, WorkStep, Kept
    <2>6. CASE /\ \A t \in snapshots : t.operation # q.operation
               /\ snapshots' = snapshots \cup {s} /\ Reply(w, q, s)
      <3>1. StoredFaithful'
        BY <2>1, <2>4, <2>6, StoreStep DEF Serves
      <3>2. AnswersStored'
        BY <2>4, <2>6, AnswerStep DEF Reply
      <3>3. MadeFaithful'
        BY <2>1, <2>6, WorkStep DEF Reply
      <3> QED
        BY <2>1, <3>1, <3>2, <3>3
    <2> QED
      BY <2>3, <2>5, <2>6
  <1>6. ASSUME NEW w \in Workflows, NEW q \in SnapshotRequests, FindExisting(w, q)
        PROVE  BindingInv'
    BY <1>6, ReplayStep DEF FindExisting
  <1>7. ASSUME NEW w \in Workflows, NEW q \in SnapshotRequests, InsertFails(w, q)
        PROVE  BindingInv'
    <2>1. SourceIsPast' /\ past' = past /\ MadeFaithful'
      BY <1>7, WorkStep DEF InsertFails, SourceIsPast
    <2>2. snapshots \subseteq snapshots'
      BY <1>7 DEF InsertFails
    <2>3. AnswersStored'
      BY <1>7, <2>2, Kept DEF InsertFails
    <2>4. StoredFaithful'
      <3>1. CASE UNCHANGED snapshots
        BY <2>1, <3>1, Kept
      <3>2. CASE /\ \A t \in snapshots : t.operation # q.operation
                 /\ \E b \in binding[w] : snapshots' = snapshots \cup b.made
        <4>1. PICK b \in binding[w] : snapshots' = snapshots \cup b.made
          BY <3>2
        <4>2. /\ \A s \in b.made : Faithful(s) /\ s.operation = q.operation
              /\ \A s, t \in b.made : s = t
          BY <1>7, BuiltSnapshot DEF InsertFails, Sound, Serves
        <4>3. \A t \in snapshots' : Faithful(t)'
          BY <2>1, <4>1, <4>2, FaithfulLasts DEF StoredFaithful
        <4> QED
          BY <3>2, <4>1, <4>2, <4>3 DEF StoredFaithful
      <3> QED
        BY <1>7, <3>1, <3>2 DEF InsertFails
    <2> QED
      BY <2>1, <2>3, <2>4
  <1> QED
    BY <1>1, <1>2, <1>3, <1>4, <1>5, <1>6, <1>7 DEF BindingNext

\* The invariant holds in every reachable state.
THEOREM BindingInvariant == BindingSpec => []BindingInv
  <1>1. BindingInit => BindingInv
    BY DEF BindingInit, BindingInv, SourceIsPast, StoredFaithful, MadeFaithful, AnswersStored
  <1> QED
    BY <1>1, BindingStep, PTL DEF BindingSpec

\* Every operation has one snapshot, the one that all its answers name, for any
\* number of workflows, calls, record changes, failed inserts and lost answers
\* (CreateSnapshot of modules/binding).
THEOREM SnapshotsAreUnique == BindingSpec => []OneSnapshotPerOperation
  <1>1. BindingInv => OneSnapshotPerOperation
    BY DEF BindingInv, AnswersStored, StoredFaithful, Serves, OneSnapshotPerOperation
  <1> QED
    BY <1>1, BindingInvariant, PTL

\* An answer is a state the record really had, with the schema and the versions
\* its caller expects, whichever call created it.
THEOREM AnswersFit == BindingSpec => []AnswerFitsRequest
  <1>1. BindingInv => AnswerFitsRequest
    <2> SUFFICES ASSUME BindingInv, NEW a \in answers
                 PROVE  /\ a.snapshot.content \in past
                        /\ a.snapshot.hash = SnapshotHash(a.snapshot.content)
                        /\ a.snapshot.purpose = a.request.purpose
                        /\ a.snapshot.content.schema = a.request.schema
                        /\ a.snapshot.content.record = a.request.record
                        /\ a.request.source \in {0, a.snapshot.content.source}
      BY DEF AnswerFitsRequest
    <2>1. Faithful(a.snapshot) /\ a.request \in SnapshotRequests
      BY DEF BindingInv, AnswersStored, StoredFaithful
    <2>2. /\ a.snapshot.request.schema = a.request.schema
          /\ a.snapshot.request.record = a.request.record
          /\ a.snapshot.request.source = a.request.source
          /\ a.snapshot.request.purpose = a.request.purpose
      <3>1. a.snapshot.request = RequestHash(a.request)
        BY DEF BindingInv, AnswersStored, Serves
      <3> QED
        BY <3>1, HashedFields
    <2>3. a.request.source \in Nat
      BY <2>1, BindingAssumption
    <2> QED
      BY <2>1, <2>2, <2>3 DEF Faithful
  <1> QED
    BY <1>1, BindingInvariant, PTL

-----------------------------------------------------------------------------
(* ConnectorOnboarding. *)

Identities == {IdentityKey(p) : p \in Principals}
Subjects == {p.subject : p \in Principals}
Documents == [status : Statuses, revision : Nat, submitter : Identities,
              reviewer : Subjects \cup {Nobody}, approver : Subjects \cup {Nobody}, pass : BOOLEAN]
Changes == [by : Principals, record : Documents]
OpenSet == [step : {"shown", "append"}, by : Principals, record : Documents]

OnboardingTypes ==
  /\ onboarding \in SUBSET Documents /\ \A e, f \in onboarding : e = f
  /\ openRequests \in SUBSET OpenSet /\ IsFiniteSet(openRequests)
  /\ transitions \in SUBSET Changes /\ IsFiniteSet(transitions)
  /\ trail \in SUBSET Changes
  /\ appendFaults \in Nat

\* A change has a revision of its own, and the record stands at the newest.
RevisionsGrow ==
  /\ transitions # {} => onboarding # {}
  /\ \A c \in transitions, e \in onboarding : c.record.revision <= e.revision
  /\ \A c, d \in transitions : c.record.revision = d.record.revision => c = d

Appends == {r \in openRequests : r.step = "append"}
Missing == {c \in transitions : c \notin trail}

\* What the audit log holds and what is still to come belong to changes, each once.
TrailInv ==
  /\ trail \subseteq transitions
  /\ \A r \in Appends : OnboardingEntry(r) \in Missing
  /\ Cardinality(Missing) <= appendFaults + Cardinality(Appends)

\* Who brought the record to where it stands.
PeopleInv ==
  \A e \in onboarding :
    /\ \E s \in Did("DRAFT") : e.submitter = IdentityKey(s.by)
    /\ e.status \in {"APPROVED", "ENABLED", "DISABLED"} =>
         \E r \in Did("APPROVED") : IdentityKey(r.by) # e.submitter /\ e.reviewer = r.by.subject
    /\ e.status \in {"ENABLED", "DISABLED"} =>
         /\ e.pass
         /\ \E a \in Did("ENABLED") :
              /\ IdentityKey(a.by) # e.submitter /\ a.by.subject # e.reviewer
              /\ e.approver = a.by.subject

OnboardingInv == OnboardingTypes /\ RevisionsGrow /\ TrailInv /\ PeopleInv
-----------------------------------------------------------------------------
\* A stored change is new, and its audit entry is to come.
LEMMA StoreKeeps ==
  ASSUME OnboardingInv, NEW p \in Principals, NEW old \in SUBSET openRequests,
         \A r \in old : r.step = "shown",
         NEW new \in Documents, \A c \in transitions : c.record.revision < new.revision,
         Store(p, old, new)
  PROVE  OnboardingTypes' /\ RevisionsGrow' /\ TrailInv'
  <1> DEFINE change == [by |-> p, record |-> new]
             request == [step |-> "append", by |-> p, record |-> new]
  <1>1. /\ onboarding' = {new} /\ openRequests' = (openRequests \ old) \cup {request}
        /\ transitions' = transitions \cup {change}
        /\ trail' = trail /\ appendFaults' = appendFaults
    BY DEF Store
  <1>2. change \in Changes /\ request \in OpenSet /\ change.record = new
        /\ request.step = "append" /\ OnboardingEntry(request) = change
    BY DEF Changes, OpenSet, OnboardingEntry
  <1>3. change \notin transitions
    <2>1. \A c \in transitions : c.record.revision # new.revision
      BY DEF OnboardingInv, OnboardingTypes, Changes, Documents
    <2> QED
      BY <1>2, <2>1
  <1>4. change \notin trail /\ change \notin Missing
    BY <1>3 DEF OnboardingInv, TrailInv, Missing
  <1>5. request \notin Appends
    BY <1>2, <1>4 DEF OnboardingInv, TrailInv
  <1> HIDE DEF change, request
  <1>6. Missing' = Missing \cup {change} /\ Appends' = Appends \cup {request}
    <2>1. Missing' = Missing \cup {change}
      BY <1>1, <1>4 DEF Missing
    <2>2. Appends' = Appends \cup {request}
      BY <1>1, <1>2 DEF Appends
    <2> QED
      BY <2>1, <2>2
  <1>7. IsFiniteSet(Missing) /\ IsFiniteSet(Appends)
    BY FS_Subset DEF Missing, Appends, OnboardingInv, OnboardingTypes
  <1>8. /\ Cardinality(Missing) \in Nat /\ Cardinality(Appends) \in Nat
        /\ Cardinality(Missing') = Cardinality(Missing) + 1
        /\ Cardinality(Appends') = Cardinality(Appends) + 1
    BY <1>4, <1>5, <1>6, <1>7, FS_AddElement, FS_CardinalityType
  <1>9. OnboardingTypes'
    <2>1. IsFiniteSet(openRequests \ old) /\ IsFiniteSet(transitions)
      BY FS_Subset DEF OnboardingInv, OnboardingTypes
    <2>2. IsFiniteSet(openRequests') /\ IsFiniteSet(transitions')
      BY <1>1, <2>1, FS_AddElement
    <2> QED
      BY <1>1, <1>2, <2>2 DEF OnboardingInv, OnboardingTypes
  <1>10. RevisionsGrow'
    <2>1. \A c \in transitions' : c \in transitions \/ c = change
      BY <1>1
    <2>2. new.revision \in Nat /\ \A c \in transitions : c.record.revision \in Nat
      BY DEF OnboardingInv, OnboardingTypes, Changes, Documents
    <2>3. \A c \in transitions' : c.record.revision <= new.revision
      BY <1>2, <2>1, <2>2
    <2>4. \A c, d \in transitions' : c.record.revision = d.record.revision => c = d
      BY <1>2, <2>1, <2>2 DEF OnboardingInv, RevisionsGrow
    <2> QED
      BY <1>1, <2>3, <2>4 DEF RevisionsGrow
  <1>11. TrailInv'
    <2>1. trail' \subseteq transitions'
      BY <1>1 DEF OnboardingInv, TrailInv
    <2>2. \A r \in Appends' : OnboardingEntry(r) \in Missing'
      BY <1>2, <1>6 DEF OnboardingInv, TrailInv
    <2>3. Cardinality(Missing') <= appendFaults' + Cardinality(Appends')
      BY <1>1, <1>8 DEF OnboardingInv, TrailInv, OnboardingTypes
    <2> QED
      BY <2>1, <2>2, <2>3 DEF TrailInv, OnboardingEntry
  <1> QED
    BY <1>9, <1>10, <1>11

\* A caller's request leaves the ones in preparation, nothing else changes.
LEMMA RequestLeaves ==
  ASSUME OnboardingInv, UNCHANGED <<onboarding, trail, transitions, appendFaults>>,
         openRequests' \in SUBSET OpenSet, IsFiniteSet(openRequests'), Appends' = Appends
  PROVE  OnboardingInv'
  <1>1. OnboardingTypes'
    BY DEF OnboardingInv, OnboardingTypes
  <1>2. RevisionsGrow' /\ PeopleInv'
    BY DEF OnboardingInv, RevisionsGrow, PeopleInv, Did
  <1>3. Missing' = Missing
    BY DEF Missing
  <1>4. TrailInv'
    BY <1>3 DEF OnboardingInv, TrailInv, OnboardingEntry
  <1> QED
    BY <1>1, <1>2, <1>4 DEF OnboardingInv

\* The entry of a change is appended, or lost at the price of a fault.
LEMMA AppendKeeps ==
  ASSUME OnboardingInv, NEW r \in openRequests, AppendOnboarding(r) \/ AppendFails(r)
  PROVE  OnboardingInv'
  <1> DEFINE change == OnboardingEntry(r)
  <1>1. /\ r.step = "append" /\ openRequests' = openRequests \ {r}
        /\ UNCHANGED <<onboarding, transitions>>
        /\ \/ trail' = trail \cup {change} /\ appendFaults' = appendFaults
           \/ trail' = trail \cup {change} /\ appendFaults' = appendFaults + 1
           \/ trail' = trail /\ appendFaults' = appendFaults + 1
    BY DEF AppendOnboarding, AppendFails
  <1>2. r \in OpenSet /\ r \in Appends
    BY <1>1 DEF OnboardingInv, OnboardingTypes, Appends
  <1>3. change \in Missing /\ change \in transitions /\ change \in Changes
    BY <1>2 DEF OnboardingInv, OnboardingTypes, TrailInv, Missing
  <1>4. Appends' = Appends \ {r}
    BY <1>1 DEF Appends
  <1>5. \A q \in Appends' : OnboardingEntry(q) # change
    <2> SUFFICES ASSUME NEW q \in Appends, q # r PROVE OnboardingEntry(q) # change
      BY <1>4
    <2>1. q \in OpenSet /\ q.step = "append"
      BY DEF Appends, OnboardingInv, OnboardingTypes
    <2>2. q.by # r.by \/ q.record # r.record
      BY <1>1, <1>2, <2>1 DEF OpenSet
    <2> QED
      BY <2>2 DEF OnboardingEntry
  <1> HIDE DEF change
  <1>6. IsFiniteSet(Missing) /\ IsFiniteSet(Appends)
    BY FS_Subset DEF Missing, Appends, OnboardingInv, OnboardingTypes
  <1>7. /\ Cardinality(Missing) \in Nat /\ Cardinality(Appends) \in Nat
        /\ Cardinality(Missing \ {change}) = Cardinality(Missing) - 1
        /\ Cardinality(Appends') = Cardinality(Appends) - 1
    BY <1>2, <1>3, <1>4, <1>6, FS_RemoveElement, FS_CardinalityType
  <1>8. Missing' = IF trail' = trail THEN Missing ELSE Missing \ {change}
    BY <1>1, <1>3 DEF Missing
  <1>9. TrailInv'
    <2>1. trail' \subseteq transitions'
      BY <1>1, <1>3 DEF OnboardingInv, TrailInv
    <2>2. \A q \in Appends' : OnboardingEntry(q) \in Missing'
      BY <1>4, <1>5, <1>8 DEF OnboardingInv, TrailInv
    <2>3. Cardinality(Missing') <= appendFaults' + Cardinality(Appends')
      <3>1. appendFaults \in Nat /\ Cardinality(Missing) <= appendFaults + Cardinality(Appends)
        BY DEF OnboardingInv, TrailInv, OnboardingTypes
      <3>2. CASE trail' = trail
        <4>1. Missing' = Missing /\ appendFaults' = appendFaults + 1
          BY <1>1, <1>3, <1>8, <3>2 DEF Missing
        <4> QED
          BY <1>7, <3>1, <4>1
      <3>3. CASE trail' # trail
        <4>1. Missing' = Missing \ {change} /\ appendFaults' \in {appendFaults, appendFaults + 1}
          BY <1>1, <1>8, <3>3
        <4> QED
          BY <1>7, <3>1, <4>1
      <3> QED
        BY <3>2, <3>3
    <2> QED
      BY <2>1, <2>2, <2>3 DEF TrailInv, OnboardingEntry
  <1>10. OnboardingTypes'
    <2>1. IsFiniteSet(openRequests') /\ openRequests' \in SUBSET OpenSet
      BY <1>1, FS_Subset DEF OnboardingInv, OnboardingTypes
    <2>2. trail' \in SUBSET Changes /\ appendFaults' \in Nat
      BY <1>1, <1>3 DEF OnboardingInv, OnboardingTypes
    <2> QED
      BY <1>1, <2>1, <2>2 DEF OnboardingInv, OnboardingTypes
  <1>11. RevisionsGrow' /\ PeopleInv'
    BY <1>1 DEF OnboardingInv, RevisionsGrow, PeopleInv, Did
  <1> QED
    BY <1>9, <1>10, <1>11 DEF OnboardingInv
\* A transition stores a record that is one revision further.
LEMMA MoveStores ==
  ASSUME OnboardingInv, NEW r \in openRequests, NEW e \in onboarding, NEW n \in Documents,
         n.revision = e.revision, NEW status \in Statuses, NEW action, Move(r, action, status, e, n)
  PROVE  /\ r.by \in Principals
         /\ \E new \in Documents, c \in transitions' :
              /\ onboarding' = {new} /\ transitions \subseteq transitions'
              /\ c.by = r.by /\ c.record = new
              /\ new.status = status /\ new.submitter = n.submitter /\ new.reviewer = n.reviewer
              /\ new.approver = n.approver /\ new.pass = n.pass
         /\ OnboardingTypes' /\ RevisionsGrow' /\ TrailInv'
  <1> DEFINE new == [n EXCEPT !.status = status, !.revision = @ + 1]
             change == [by |-> r.by, record |-> new]
  <1>1. r.by \in Principals /\ r.step = "shown" /\ Store(r.by, {r}, new)
    BY DEF OnboardingInv, OnboardingTypes, OpenSet, Move
  <1>2. /\ new \in Documents /\ new.status = status /\ new.revision = e.revision + 1
        /\ new.submitter = n.submitter /\ new.reviewer = n.reviewer
        /\ new.approver = n.approver /\ new.pass = n.pass
    <2>1. e.revision + 1 \in Nat /\ n.revision = e.revision
      BY DEF Documents
    <2>2. /\ new.status = status /\ new.revision = e.revision + 1
          /\ new.submitter = n.submitter /\ new.reviewer = n.reviewer /\ new.approver = n.approver
      BY <2>1 DEF Documents
    <2>3. new.pass = n.pass
      BY Zenon DEF Documents
    <2>4. new \in Documents
      BY <2>1 DEF Documents
    <2> QED
      BY <2>2, <2>3, <2>4
  <1> HIDE DEF new
  <1>3. \A c \in transitions : c.record.revision < new.revision
    <2>1. e.revision \in Nat /\ \A c \in transitions : c.record.revision \in Nat
      BY DEF OnboardingInv, OnboardingTypes, Changes, Documents
    <2> QED
      BY <1>2, <2>1 DEF OnboardingInv, RevisionsGrow
  <1>4. OnboardingTypes' /\ RevisionsGrow' /\ TrailInv'
    <2>1. {r} \in SUBSET openRequests /\ \A q \in {r} : q.step = "shown"
      BY <1>1
    <2> QED
      BY <1>1, <1>2, <1>3, <2>1, StoreKeeps
  <1>5. onboarding' = {new} /\ transitions' = transitions \cup {change}
    BY <1>1 DEF Store
  <1>6. change.by = r.by /\ change.record = new
    OBVIOUS
  <1> QED
    BY <1>1, <1>2, <1>4, <1>5, <1>6

\* Changes already made stay made.
LEMMA DidStays ==
  ASSUME transitions \subseteq transitions', NEW status
  PROVE  Did(status) \subseteq Did(status)'
  BY DEF Did

LEMMA SubmitKeeps ==
  ASSUME OnboardingInv, NEW p \in Principals, NEW pass \in BOOLEAN, Submit(p, pass)
  PROVE  OnboardingInv'
  <1> DEFINE new == [status |-> "DRAFT", revision |-> 1, submitter |-> IdentityKey(p),
                     reviewer |-> Nobody, approver |-> Nobody, pass |-> pass]
             change == [by |-> p, record |-> new]
  <1>1. new \in Documents /\ new.status = "DRAFT" /\ new.submitter = IdentityKey(p)
    BY DEF Documents, Statuses, Identities
  <1>2. Store(p, {}, new) /\ transitions = {}
    BY DEF Submit, OnboardingInv, RevisionsGrow
  <1>3. change.by = p /\ change.record = new
    OBVIOUS
  <1> HIDE DEF new
  <1>4. OnboardingTypes' /\ RevisionsGrow' /\ TrailInv'
    <2>1. {} \in SUBSET openRequests /\ (\A r \in {} : r.step = "shown")
          /\ \A c \in transitions : c.record.revision < new.revision
      BY <1>2
    <2> QED
      BY <1>1, <1>2, <2>1, StoreKeeps
  <1>5. onboarding' = {new} /\ change \in transitions'
    BY <1>2 DEF Store
  <1>6. PeopleInv'
    BY <1>1, <1>3, <1>5 DEF PeopleInv, Did
  <1> QED
    BY <1>4, <1>6 DEF OnboardingInv

LEMMA SubmitForReviewKeeps ==
  ASSUME OnboardingInv, NEW r \in openRequests, SubmitForReview(r)
  PROVE  OnboardingInv'
  <1>1. PICK e \in onboarding : e.status = "DRAFT" /\ Move(r, "onboard", "IN_REVIEW", e, e)
    BY DEF SubmitForReview
  <1>2. e \in Documents /\ "IN_REVIEW" \in Statuses
    BY DEF OnboardingInv, OnboardingTypes, Statuses
  <1>3. OnboardingTypes' /\ RevisionsGrow' /\ TrailInv'
    BY <1>1, <1>2, MoveStores
  <1>4. PICK new \in Documents : /\ onboarding' = {new} /\ transitions \subseteq transitions'
                                 /\ new.status = "IN_REVIEW" /\ new.submitter = e.submitter
    BY <1>1, <1>2, MoveStores
  <1>5. \E s \in Did("DRAFT")' : new.submitter = IdentityKey(s.by)
    BY <1>4, DidStays DEF OnboardingInv, PeopleInv
  <1>6. PeopleInv'
    BY <1>4, <1>5 DEF PeopleInv
  <1> QED
    BY <1>3, <1>6 DEF OnboardingInv

LEMMA ReviewKeeps ==
  ASSUME OnboardingInv, NEW r \in openRequests, Review(r)
  PROVE  OnboardingInv'
  <1>1. PICK e \in onboarding, status \in {"APPROVED", "REJECTED"} :
          /\ e.status = "IN_REVIEW" /\ e.submitter # IdentityKey(r.by)
          /\ Move(r, "review", status, e, [e EXCEPT !.reviewer = r.by.subject])
    BY DEF Review
  <1> DEFINE n == [e EXCEPT !.reviewer = r.by.subject]
  <1>2. e \in Documents /\ status \in Statuses /\ r.by \in Principals
    BY DEF OnboardingInv, OnboardingTypes, OpenSet, Statuses
  <1>3. n \in Documents /\ n.revision = e.revision /\ n.submitter = e.submitter
        /\ n.reviewer = r.by.subject
    BY <1>2 DEF Documents, Subjects
  <1>4. Move(r, "review", status, e, n)
    BY <1>1
  <1> HIDE DEF n
  <1>5. OnboardingTypes' /\ RevisionsGrow' /\ TrailInv'
    BY <1>2, <1>3, <1>4, MoveStores
  <1>6. PICK new \in Documents, c \in transitions' :
          /\ onboarding' = {new} /\ transitions \subseteq transitions'
          /\ c.by = r.by /\ c.record = new
          /\ new.status = status /\ new.submitter = n.submitter /\ new.reviewer = n.reviewer
    BY <1>2, <1>3, <1>4, MoveStores
  <1>7. \E s \in Did("DRAFT")' : new.submitter = IdentityKey(s.by)
    BY <1>3, <1>6, DidStays DEF OnboardingInv, PeopleInv
  <1>8. new.status = "APPROVED" =>
          \E a \in Did("APPROVED")' : IdentityKey(a.by) # new.submitter /\ new.reviewer = a.by.subject
    BY <1>1, <1>3, <1>6 DEF Did
  <1>9. PeopleInv'
    BY <1>1, <1>6, <1>7, <1>8 DEF PeopleInv
  <1> QED
    BY <1>5, <1>9 DEF OnboardingInv

LEMMA EnableKeeps ==
  ASSUME OnboardingInv, NEW r \in openRequests, Enable(r)
  PROVE  OnboardingInv'
  <1>1. PICK e \in onboarding :
          /\ e.status = "APPROVED"
          /\ e.submitter # IdentityKey(r.by) /\ e.reviewer # r.by.subject /\ e.pass
          /\ Move(r, "approve", "ENABLED", e, [e EXCEPT !.approver = r.by.subject])
    BY DEF Enable
  <1> DEFINE n == [e EXCEPT !.approver = r.by.subject]
  <1>2. e \in Documents /\ "ENABLED" \in Statuses /\ r.by \in Principals
    BY DEF OnboardingInv, OnboardingTypes, OpenSet, Statuses
  <1>3. n \in Documents /\ n.revision = e.revision /\ n.submitter = e.submitter
        /\ n.reviewer = e.reviewer /\ n.approver = r.by.subject /\ n.pass = e.pass
    BY <1>2 DEF Documents, Subjects
  <1>4. Move(r, "approve", "ENABLED", e, n)
    BY <1>1
  <1> HIDE DEF n
  <1>5. OnboardingTypes' /\ RevisionsGrow' /\ TrailInv'
    BY <1>2, <1>3, <1>4, MoveStores
  <1>6. PICK new \in Documents, c \in transitions' :
          /\ onboarding' = {new} /\ transitions \subseteq transitions'
          /\ c.by = r.by /\ c.record = new
          /\ new.status = "ENABLED" /\ new.submitter = n.submitter /\ new.reviewer = n.reviewer
          /\ new.approver = n.approver /\ new.pass = n.pass
    BY <1>2, <1>3, <1>4, MoveStores
  <1>7. \E s \in Did("DRAFT")' : new.submitter = IdentityKey(s.by)
    BY <1>3, <1>6, DidStays DEF OnboardingInv, PeopleInv
  <1>8. \E a \in Did("APPROVED")' : IdentityKey(a.by) # new.submitter /\ new.reviewer = a.by.subject
    BY <1>1, <1>3, <1>6, DidStays DEF OnboardingInv, PeopleInv
  <1>9. c \in Did("ENABLED")' /\ new.pass /\ IdentityKey(c.by) # new.submitter
        /\ c.by.subject # new.reviewer /\ new.approver = c.by.subject
    BY <1>1, <1>3, <1>6 DEF Did
  <1>10. PeopleInv'
    BY <1>6, <1>7, <1>8, <1>9 DEF PeopleInv
  <1> QED
    BY <1>5, <1>10 DEF OnboardingInv

LEMMA DisableKeeps ==
  ASSUME OnboardingInv, NEW r \in openRequests, Disable(r)
  PROVE  OnboardingInv'
  <1>1. PICK e \in onboarding : e.status = "ENABLED" /\ Move(r, "approve", "DISABLED", e, e)
    BY DEF Disable
  <1>2. e \in Documents /\ "DISABLED" \in Statuses
    BY DEF OnboardingInv, OnboardingTypes, Statuses
  <1>3. OnboardingTypes' /\ RevisionsGrow' /\ TrailInv'
    BY <1>1, <1>2, MoveStores
  <1>4. PICK new \in Documents :
          /\ onboarding' = {new} /\ transitions \subseteq transitions'
          /\ new.status = "DISABLED" /\ new.submitter = e.submitter /\ new.reviewer = e.reviewer
          /\ new.approver = e.approver /\ new.pass = e.pass
    BY <1>1, <1>2, MoveStores
  <1>5. \A status : Did(status) \subseteq Did(status)'
    BY <1>4, DidStays
  <1>6. PeopleInv'
    BY <1>1, <1>4, <1>5 DEF OnboardingInv, PeopleInv
  <1> QED
    BY <1>3, <1>6 DEF OnboardingInv

LEMMA OnboardingStep ==
  ASSUME OnboardingInv, [OnboardingNext]_ovars
  PROVE  OnboardingInv'
  <1>1. ASSUME NEW p \in Principals, Look(p) PROVE OnboardingInv'
    <2>1. PICK e \in onboarding :
            openRequests' = openRequests \cup {[step |-> "shown", by |-> p, record |-> e]}
      BY <1>1 DEF Look
    <2> DEFINE request == [step |-> "shown", by |-> p, record |-> e]
    <2>2. request \in OpenSet /\ request.step # "append"
      BY <1>1 DEF OpenSet, OnboardingInv, OnboardingTypes
    <2> HIDE DEF request
    <2>3. openRequests' = openRequests \cup {request}
      BY <2>1 DEF request
    <2>4. Appends' = Appends
      BY <2>2, <2>3 DEF Appends
    <2>5. openRequests' \in SUBSET OpenSet /\ IsFiniteSet(openRequests')
      BY <2>2, <2>3, FS_AddElement DEF OnboardingInv, OnboardingTypes
    <2> QED
      BY <1>1, <2>4, <2>5, RequestLeaves DEF Look
  <1>2. ASSUME NEW r \in openRequests, GiveUp(r) PROVE OnboardingInv'
    <2>1. openRequests' = openRequests \ {r} /\ r.step # "append"
      BY <1>2 DEF GiveUp
    <2>2. Appends' = Appends
      BY <2>1 DEF Appends
    <2>3. openRequests' \in SUBSET OpenSet /\ IsFiniteSet(openRequests')
      BY <2>1, FS_Subset DEF OnboardingInv, OnboardingTypes
    <2> QED
      BY <1>2, <2>2, <2>3, RequestLeaves DEF GiveUp
  <1>3. CASE StoreRestarts
    <2>1. /\ openRequests' = {r \in openRequests : r.step = "shown"}
          /\ onboarding' = {} /\ trail' = {} /\ transitions' = {} /\ appendFaults' = appendFaults
      BY <1>3 DEF StoreRestarts
    <2>2. IsFiniteSet(openRequests') /\ openRequests' \in SUBSET OpenSet
      BY <2>1, FS_Subset DEF OnboardingInv, OnboardingTypes
    <2>3. Missing' = {} /\ Appends' = {}
      BY <2>1 DEF Missing, Appends
    <2>4. Cardinality(Missing') = 0 /\ Cardinality(Appends') = 0 /\ IsFiniteSet(transitions')
      BY <2>1, <2>3, FS_EmptySet
    <2>5. appendFaults' \in Nat
      BY <2>1 DEF OnboardingInv, OnboardingTypes
    <2>6. TrailInv'
      BY <2>1, <2>3, <2>4, <2>5 DEF TrailInv
    <2> QED
      BY <2>1, <2>2, <2>4, <2>5, <2>6 DEF OnboardingInv, OnboardingTypes, RevisionsGrow, PeopleInv
  <1>4. CASE UNCHANGED ovars
    <2>1. Appends' = Appends
      BY <1>4 DEF Appends, ovars
    <2> QED
      BY <1>4, <2>1, RequestLeaves DEF ovars, OnboardingInv, OnboardingTypes
  <1> QED
    BY <1>1, <1>2, <1>3, <1>4, SubmitKeeps, SubmitForReviewKeeps, ReviewKeeps, EnableKeeps,
       DisableKeeps, AppendKeeps DEF OnboardingNext

LEMMA OnboardingStarts == OnboardingInit => OnboardingInv
  <1> SUFFICES ASSUME OnboardingInit PROVE OnboardingInv
    OBVIOUS
  <1>1. Missing = {} /\ Appends = {} /\ IsFiniteSet({}) /\ Cardinality({}) = 0
    BY FS_EmptySet DEF OnboardingInit, Missing, Appends
  <1>2. TrailInv
    BY <1>1 DEF OnboardingInit, TrailInv
  <1> QED
    BY <1>1, <1>2 DEF OnboardingInit, OnboardingInv, OnboardingTypes, RevisionsGrow, PeopleInv

\* The types, the growth of revisions, the audit entries to come and the people behind the
\* record, together inductive.
THEOREM OnboardingInvariant == OnboardingSpec => []OnboardingInv
  BY OnboardingStarts, OnboardingStep, PTL DEF OnboardingSpec

\* Review and Enable: whatever callers were shown and when, a connector that is or was
\* enabled was submitted, reviewed and enabled by three different members.
THEOREM EnabledByThree == OnboardingSpec => []ThreePeople
  <1>1. OnboardingInv => ThreePeople
    <2> SUFFICES ASSUME OnboardingInv, NEW e \in onboarding, e.status \in {"ENABLED", "DISABLED"}
                 PROVE  /\ e.pass
                        /\ \E s \in Did("DRAFT"), r \in Did("APPROVED"), a \in Did("ENABLED") :
                             /\ IdentityKey(s.by) # IdentityKey(r.by)
                             /\ IdentityKey(a.by) \notin {IdentityKey(s.by), IdentityKey(r.by)}
                             /\ e.submitter = IdentityKey(s.by)
                             /\ e.reviewer = r.by.subject /\ e.approver = a.by.subject
      BY DEF ThreePeople
    <2>1. PICK s \in Did("DRAFT") : e.submitter = IdentityKey(s.by)
      BY DEF OnboardingInv, PeopleInv
    <2>2. PICK r \in Did("APPROVED") : IdentityKey(r.by) # e.submitter /\ e.reviewer = r.by.subject
      BY DEF OnboardingInv, PeopleInv
    <2>3. e.pass
      BY DEF OnboardingInv, PeopleInv
    <2>4. PICK a \in Did("ENABLED") : /\ IdentityKey(a.by) # e.submitter
                                      /\ a.by.subject # e.reviewer /\ e.approver = a.by.subject
      BY DEF OnboardingInv, PeopleInv
    <2>5. IdentityKey(a.by) # IdentityKey(r.by)
      BY <2>2, <2>4 DEF IdentityKey
    <2> QED
      BY <2>1, <2>2, <2>3, <2>4, <2>5
  <1> QED
    BY <1>1, OnboardingInvariant, PTL

\* Audit entries are appended after the mutex is released, in any order, and still tell each
\* change once; at most the outstanding and the failed appends are missing.
THEOREM TrailTellsChanges == OnboardingSpec => []AuditTellsChanges
  <1>1. OnboardingInv => AuditTellsChanges
    <2> SUFFICES ASSUME OnboardingInv PROVE AuditTellsChanges
      OBVIOUS
    <2>1. trail \subseteq transitions /\ transitions \subseteq Changes
      BY DEF OnboardingInv, TrailInv, OnboardingTypes
    <2>2. \A c \in transitions : [by |-> c.by, record |-> c.record] = c
      BY <2>1 DEF Changes
    <2>3. {c \in transitions : [by |-> c.by, record |-> c.record] \notin trail} = Missing
      BY <2>2 DEF Missing
    <2>4. \A t, u \in trail : t.record.revision = u.record.revision => t = u
      BY <2>1 DEF OnboardingInv, RevisionsGrow
    <2>5. \A t \in trail : \E c \in transitions : c.by = t.by /\ c.record = t.record
      BY <2>1
    <2> QED
      BY <2>3, <2>4, <2>5 DEF AuditTellsChanges, OnboardingInv, TrailInv, Appends
  <1> QED
    BY <1>1, OnboardingInvariant, PTL

-----------------------------------------------------------------------------
(* Workspace: what its documents and its callers are. *)

DictionarySet == [revision : Nat, entries : Entries \cup {NoEntries}]
UpdateSet == [op : {"update"}, id : Ids, table : Tables, name : Names, fields : ViewFields,
              expected : Nat]
SaveSet == [op : {"save"}, scope : Scopes, entries : Entries, expected : Nat, revision : Nat]
RequestSet ==
  WorkspaceRequests \cup TableRequests \cup ViewRequests \cup IndexRequests \cup UpdateSet
  \cup SaveSet
WorkSet ==
  [step : Steps, request : RequestSet \cup {NoWork}, read : DictionarySet, number : Nat]

Inserting == {"workspace", "table", "view", "update", "index", "save"}
WorkTypes ==
  /\ work \in [Users -> WorkSet]
  /\ \A c \in Users :
       /\ work[c].step # "idle" => work[c].request \in RequestSet
       /\ work[c].step \in Inserting => work[c].request.op = work[c].step
       /\ work[c].step \in {"ddl", "cleanup"} => work[c].request.op = "index"
       /\ work[c].step = "audit" => work[c].request.op = "save"

\* The unique indexes hold.
DocumentTypes ==
  /\ properties \in [SchemaVersions -> SUBSET Fields]
  /\ \A d, e \in tables : d.id = e.id => d = e
  /\ \A v \in views : /\ v.version \in Nat \ {0} /\ v.id \in Ids /\ v.table \in Tables
  /\ \A v, w \in views : v.id = w.id => v = w
  /\ indexes \subseteq [id : IndexIds, table : Tables, field : Fields, direction : Directions]
  /\ \A i, j \in indexes : i.id = j.id => i = j
  /\ IsFiniteSet(indexes)
  /\ dictionaries \in [Scopes -> DictionarySet]
  /\ \A s \in Scopes : dictionaries[s].revision = 0 => dictionaries[s] = NoDictionary
  /\ requests \in Nat

\* What a save expects it has been shown, and what was read it replaces.
SavesKnow ==
  \A c \in Users : work[c].step \in {"save", "audit"} =>
    /\ Req(c).revision > Req(c).expected
    /\ Req(c).expected > 0 => Req(c).revision = Req(c).expected + 1
    /\ Req(c).expected <= work[c].read.revision
    /\ work[c].step = "save" =>
         /\ work[c].read.revision <= dictionaries[Req(c).scope].revision
         /\ work[c].read.revision = dictionaries[Req(c).scope].revision =>
              work[c].read = dictionaries[Req(c).scope]
-----------------------------------------------------------------------------
(* The steps of a caller. *)

LEMMA RequestKinds ==
  ASSUME NEW q \in RequestSet
  PROVE  /\ q.op \in Inserting
         /\ q.op = "workspace" => q \in WorkspaceRequests
         /\ q.op = "table" => q \in TableRequests
         /\ q.op = "view" => q \in ViewRequests
         /\ q.op = "index" => q \in IndexRequests
         /\ q.op = "update" => q \in UpdateSet
         /\ q.op = "save" => q \in SaveSet
  BY DEF RequestSet, Inserting, WorkspaceRequests, TableRequests, ViewRequests, IndexRequests,
         UpdateSet, SaveSet

LEMMA IdleWorks == IdleWork \in WorkSet /\ IdleWork.step = "idle"
  BY DEF IdleWork, WorkSet, Steps, NoDictionary, DictionarySet

LEMMA Stops ==
  ASSUME WorkTypes, NEW c \in Users, Stop(c)
  PROVE  /\ WorkTypes' /\ work'[c].step = "idle"
         /\ \A u \in Users \ {c} : work'[u] = work[u]
  <1>1. work' = [work EXCEPT ![c] = IdleWork]
    BY DEF Stop
  <1>2. /\ work' \in [Users -> WorkSet] /\ work'[c] = IdleWork
        /\ \A u \in Users \ {c} : work'[u] = work[u]
    BY <1>1, IdleWorks DEF WorkTypes
  <1>3. work'[c].step = "idle"
    BY <1>2, IdleWorks
  <1>4. WorkTypes'
    <2> SUFFICES ASSUME NEW u \in Users
                 PROVE  /\ work'[u].step # "idle" => work'[u].request \in RequestSet
                        /\ work'[u].step \in Inserting => work'[u].request.op = work'[u].step
                        /\ work'[u].step \in {"ddl", "cleanup"} => work'[u].request.op = "index"
                        /\ work'[u].step = "audit" => work'[u].request.op = "save"
      BY <1>2 DEF WorkTypes
    <2>1. CASE u = c
      BY <1>3, <2>1 DEF Inserting
    <2>2. CASE u # c
      BY <1>2, <2>2 DEF WorkTypes
    <2> QED
      BY <2>1, <2>2
  <1> QED
    BY <1>2, <1>3, <1>4

LEMMA Goes ==
  ASSUME WorkTypes, NEW c \in Users, NEW step \in {"ddl", "cleanup", "audit"}, GoTo(c, step),
         work[c].step # "idle",
         step \in {"ddl", "cleanup"} => work[c].request.op = "index",
         step = "audit" => work[c].request.op = "save"
  PROVE  /\ WorkTypes' /\ work'[c].step = step /\ work'[c].request = work[c].request
         /\ work'[c].read = work[c].read /\ work'[c].number = work[c].number
         /\ \A u \in Users \ {c} : work'[u] = work[u]
  <1>1. work' = [work EXCEPT ![c].step = step]
    BY DEF GoTo
  <1>2. work[c] \in WorkSet /\ step \in Steps
    BY DEF WorkTypes, Steps
  <1>3. /\ work' \in [Users -> WorkSet]
        /\ work'[c].step = step /\ work'[c].request = work[c].request
        /\ work'[c].read = work[c].read /\ work'[c].number = work[c].number
        /\ \A u \in Users \ {c} : work'[u] = work[u]
    BY <1>1, <1>2 DEF WorkTypes, WorkSet
  <1>4. WorkTypes'
    <2> SUFFICES ASSUME NEW u \in Users
                 PROVE  /\ work'[u].step # "idle" => work'[u].request \in RequestSet
                        /\ work'[u].step \in Inserting => work'[u].request.op = work'[u].step
                        /\ work'[u].step \in {"ddl", "cleanup"} => work'[u].request.op = "index"
                        /\ work'[u].step = "audit" => work'[u].request.op = "save"
      BY <1>3 DEF WorkTypes
    <2>1. CASE u = c
      BY <1>3, <2>1 DEF Inserting, WorkTypes
    <2>2. CASE u # c
      BY <1>3, <2>2 DEF WorkTypes
    <2> QED
      BY <2>1, <2>2
  <1> QED
    BY <1>3, <1>4

\* What callers send, and what they have been shown.
LEMMA SentRequests ==
  ASSUME DocumentTypes, NEW q \in Requested
  PROVE  /\ q \in RequestSet
         /\ q.op = "update" => \E v \in views : v.id = q.id /\ v.table = q.table
         /\ q.op = "save" =>
              /\ q.revision > q.expected
              /\ q.expected > 0 => q.revision = q.expected + 1
              /\ q.expected <= dictionaries[q.scope].revision
  <1>1. CASE q \in WorkspaceRequests \cup TableRequests \cup ViewRequests \cup IndexRequests
    BY <1>1 DEF RequestSet, WorkspaceRequests, TableRequests, ViewRequests, IndexRequests
  <1>2. CASE q \in UNION {ViewUpdates(v) : v \in views}
    <2>1. PICK v \in views : q \in ViewUpdates(v)
      BY <1>2
    <2>2. v.version \in Nat /\ v.id \in Ids /\ v.table \in Tables
      BY DEF DocumentTypes
    <2>3. q \in UpdateSet /\ q.op = "update" /\ v.id = q.id /\ v.table = q.table
      BY <2>1, <2>2 DEF ViewUpdates, UpdateSet
    <2> QED
      BY <2>3 DEF RequestSet
  <1>3. CASE q \in UNION {SaveRequests(s) : s \in Scopes}
    <2>1. PICK s \in Scopes : q \in SaveRequests(s)
      BY <1>3
    <2>2. dictionaries[s].revision \in Nat
      BY DEF DocumentTypes, DictionarySet
    <2>3. CASE q \in Saves(s, 0, FirstRevisions)
      <3>1. FirstRevisions \subseteq Nat \ {0}
        BY WorkspaceAssumption
      <3>2. /\ q \in [op : {"save"}, scope : {s}, entries : Entries, expected : {0},
                      revision : FirstRevisions]
            /\ q.revision \in FirstRevisions
        BY <2>3 DEF Saves
      <3>3. q.revision \in Nat /\ q.revision # 0
        BY <3>1, <3>2
      <3>4. q \in SaveSet /\ q.op = "save" /\ q.scope = s /\ q.expected = 0
        BY <3>2, <3>3 DEF SaveSet
      <3> QED
        BY <2>2, <3>3, <3>4 DEF RequestSet
    <2>4. CASE q \in UNION {Saves(s, r, {r + 1}) : r \in 1 .. dictionaries[s].revision}
      <3>1. PICK r \in 1 .. dictionaries[s].revision : q \in Saves(s, r, {r + 1})
        BY <2>4
      <3>2. r \in Nat /\ r > 0 /\ r <= dictionaries[s].revision
        BY <2>2
      <3>3. q \in SaveSet /\ q.op = "save" /\ q.scope = s /\ q.expected = r /\ q.revision = r + 1
        BY <3>1, <3>2 DEF Saves, SaveSet
      <3> QED
        BY <3>2, <3>3 DEF RequestSet
    <2> QED
      BY <2>1, <2>3, <2>4 DEF SaveRequests
  <1> QED
    BY <1>1, <1>2, <1>3 DEF Requested

LEMMA Handled ==
  ASSUME WorkTypes, DocumentTypes, NEW c \in Users, Handle(c)
  PROVE  \E q \in RequestSet :
           /\ q \in Requested /\ RequestAccepted(q)
           /\ work'[c].step = q.op /\ work'[c].request = q /\ work'[c].read = Before(q)
           /\ WorkTypes' /\ \A u \in Users \ {c} : work'[u] = work[u]
  <1>1. PICK q \in Requested :
          /\ RequestAccepted(q)
          /\ work' = [work EXCEPT ![c] = [step |-> q.op, request |-> q, read |-> Before(q),
                                          number |-> requests + 1]]
    BY DEF Handle
  <1>2. q \in RequestSet
    BY SentRequests
  <1>3. q.op \in Inserting /\ (q.op = "save" => q.scope \in Scopes)
    BY <1>2, RequestKinds DEF SaveSet
  <1>4. Before(q) \in DictionarySet
    BY <1>3, IdleWorks DEF Before, DocumentTypes, WorkSet, IdleWork
  <1> DEFINE w == [step |-> q.op, request |-> q, read |-> Before(q), number |-> requests + 1]
  <1>5. /\ w \in WorkSet /\ w.step = q.op /\ w.request = q /\ w.read = Before(q)
    BY <1>2, <1>3, <1>4 DEF WorkSet, Inserting, Steps, DocumentTypes
  <1> HIDE DEF w
  <1>6. work' \in [Users -> WorkSet] /\ work'[c] = w /\ \A u \in Users \ {c} : work'[u] = work[u]
    BY <1>1, <1>5 DEF WorkTypes, w
  <1>7. WorkTypes'
    <2> SUFFICES ASSUME NEW u \in Users
                 PROVE  /\ work'[u].step # "idle" => work'[u].request \in RequestSet
                        /\ work'[u].step \in Inserting => work'[u].request.op = work'[u].step
                        /\ work'[u].step \in {"ddl", "cleanup"} => work'[u].request.op = "index"
                        /\ work'[u].step = "audit" => work'[u].request.op = "save"
      BY <1>6 DEF WorkTypes
    <2>1. CASE u = c
      BY <1>2, <1>3, <1>5, <1>6, <2>1 DEF Inserting
    <2>2. CASE u # c
      BY <1>6, <2>2 DEF WorkTypes
    <2> QED
      BY <2>1, <2>2
  <1> QED
    BY <1>1, <1>2, <1>5, <1>6, <1>7
-----------------------------------------------------------------------------
(* The documents and what a save knows. *)

LEMMA SavesStillKnow ==
  ASSUME SavesKnow, dictionaries' = dictionaries,
         \A u \in Users : work'[u].step \in {"save", "audit"} => work'[u] = work[u]
  PROVE  SavesKnow'
  BY DEF SavesKnow, Req

LEMMA DocumentsStay ==
  ASSUME DocumentTypes, UNCHANGED <<properties, tables, views, indexes, dictionaries>>,
         requests' \in Nat
  PROVE  DocumentTypes'
  BY DEF DocumentTypes

\* A revision is saved over the one that was expected: what was read is what is replaced.
LEMMA SaveStep ==
  ASSUME WorkTypes, DocumentTypes, SavesKnow, NEW c \in Users, SaveTagDictionary(c),
         dictionaries[Req(c).scope].revision = Req(c).expected
  PROVE  /\ WorkTypes' /\ DocumentTypes' /\ SavesKnow'
         /\ Req(c) \in SaveSet /\ work'[c].step = "audit"
         /\ work'[c].request = work[c].request /\ work'[c].read = work[c].read
         /\ \A u \in Users \ {c} : work'[u] = work[u]
         /\ work[c].read = dictionaries[Req(c).scope]
         /\ dictionaries'[Req(c).scope].revision = Req(c).revision
         /\ dictionaries'[Req(c).scope] =
              [revision |-> Req(c).revision, entries |-> Req(c).entries]
         /\ \A s \in Scopes \ {Req(c).scope} : dictionaries'[s] = dictionaries[s]
  <1> DEFINE q == Req(c)
             s == q.scope
             n == [revision |-> q.revision, entries |-> q.entries]
  <1>1. /\ work[c].step = "save" /\ GoTo(c, "audit") /\ dictionaries' = [dictionaries EXCEPT ![s] = n]
        /\ UNCHANGED <<properties, tables, views, indexes, requests>>
    BY DEF SaveTagDictionary, AtStep, schemaVars, indexVars
  <1>2. q \in RequestSet /\ q.op = "save"
    BY <1>1 DEF WorkTypes, Req, Inserting
  <1>3. q \in SaveSet
    BY <1>2, RequestKinds
  <1>4. s \in Scopes /\ q.expected \in Nat /\ q.revision \in Nat /\ q.entries \in Entries
    BY <1>3 DEF SaveSet
  <1>5. /\ q.revision > q.expected /\ q.expected <= work[c].read.revision
        /\ work[c].read.revision <= dictionaries[s].revision
        /\ work[c].read.revision = dictionaries[s].revision => work[c].read = dictionaries[s]
    BY <1>1 DEF SavesKnow
  <1>6. work[c].read.revision \in Nat /\ dictionaries[s].revision \in Nat
    BY <1>4 DEF WorkTypes, WorkSet, DictionarySet, DocumentTypes
  <1>7. work[c].read = dictionaries[s]
    BY <1>4, <1>5, <1>6
  <1>8. /\ WorkTypes' /\ work'[c].step = "audit" /\ work'[c].request = work[c].request
        /\ work'[c].read = work[c].read /\ \A u \in Users \ {c} : work'[u] = work[u]
    BY <1>1, <1>2, Goes DEF Req
  <1>9. n \in DictionarySet /\ n.revision = q.revision
    BY <1>4 DEF DictionarySet
  <1> HIDE DEF n
  <1>10. /\ dictionaries' \in [Scopes -> DictionarySet] /\ dictionaries'[s] = n
         /\ \A t \in Scopes \ {s} : dictionaries'[t] = dictionaries[t]
    BY <1>1, <1>4, <1>9 DEF DocumentTypes
  <1>11. DocumentTypes'
    <2>1. \A t \in Scopes : dictionaries'[t].revision = 0 => dictionaries'[t] = NoDictionary
      <3>1. dictionaries'[s].revision # 0
        BY <1>4, <1>5, <1>9, <1>10
      <3> QED
        BY <1>10, <3>1 DEF DocumentTypes
    <2> QED
      BY <1>1, <1>10, <2>1 DEF DocumentTypes
  <1>12. SavesKnow'
    <2> SUFFICES ASSUME NEW u \in Users, work'[u].step \in {"save", "audit"}
                 PROVE  LET p == work'[u].request IN
                        /\ p.revision > p.expected
                        /\ p.expected > 0 => p.revision = p.expected + 1
                        /\ p.expected <= work'[u].read.revision
                        /\ work'[u].step = "save" =>
                             /\ work'[u].read.revision <= dictionaries'[p.scope].revision
                             /\ work'[u].read.revision = dictionaries'[p.scope].revision =>
                                  work'[u].read = dictionaries'[p.scope]
      BY DEF SavesKnow, Req
    <2>1. CASE u = c
      BY <1>1, <1>8, <2>1 DEF SavesKnow, Req
    <2>2. CASE u # c
      <3> DEFINE p == work[u].request
      <3>1. /\ work'[u] = work[u] /\ p.revision > p.expected
            /\ p.expected > 0 => p.revision = p.expected + 1
            /\ p.expected <= work[u].read.revision
            /\ work[u].step = "save" =>
                 /\ work[u].read.revision <= dictionaries[p.scope].revision
                 /\ work[u].read.revision = dictionaries[p.scope].revision =>
                      work[u].read = dictionaries[p.scope]
        BY <1>8, <2>2 DEF SavesKnow, Req
      <3>2. ASSUME work[u].step = "save"
            PROVE  /\ p.scope \in Scopes /\ work[u].read.revision \in Nat
                   /\ dictionaries[p.scope].revision \in Nat
        <4>1. p \in RequestSet /\ p.op = "save"
          BY <3>2 DEF WorkTypes, Inserting
        <4>2. p \in SaveSet
          BY <4>1, RequestKinds
        <4> QED
          BY <4>2 DEF SaveSet, WorkTypes, WorkSet, DictionarySet, DocumentTypes
      <3>3. ASSUME work[u].step = "save"
            PROVE  /\ work[u].read.revision <= dictionaries'[p.scope].revision
                   /\ work[u].read.revision = dictionaries'[p.scope].revision =>
                        work[u].read = dictionaries'[p.scope]
        <4>1. CASE p.scope = s
          BY <1>4, <1>5, <1>6, <1>9, <1>10, <3>1, <3>2, <3>3, <4>1
        <4>2. CASE p.scope # s
          BY <1>10, <3>1, <3>2, <3>3, <4>2
        <4> QED
          BY <4>1, <4>2
      <3> QED
        BY <3>1, <3>3
    <2> QED
      BY <2>1, <2>2
  <1> QED
    BY <1>3, <1>7, <1>8, <1>9, <1>10, <1>11, <1>12 DEF n

LEMMA HandleKnows ==
  ASSUME WorkTypes, DocumentTypes, SavesKnow, NEW c \in Users, Handle(c)
  PROVE  WorkTypes' /\ DocumentTypes' /\ SavesKnow'
  <1>1. PICK q \in RequestSet :
           /\ q \in Requested
           /\ work'[c].step = q.op /\ work'[c].request = q /\ work'[c].read = Before(q)
           /\ WorkTypes' /\ \A u \in Users \ {c} : work'[u] = work[u]
    BY Handled
  <1>2. UNCHANGED <<properties, tables, views, indexes, dictionaries>> /\ requests' = requests + 1
    BY DEF Handle, schemaVars, workspaceVars, indexVars, tagVars
  <1>3. DocumentTypes'
    <2>1. requests' \in Nat
      BY <1>2 DEF DocumentTypes
    <2> QED
      BY <1>2, <2>1, DocumentsStay
  <1>4. SavesKnow'
    <2> SUFFICES ASSUME NEW u \in Users, work'[u].step \in {"save", "audit"}
                 PROVE  LET p == work'[u].request IN
                        /\ p.revision > p.expected
                        /\ p.expected > 0 => p.revision = p.expected + 1
                        /\ p.expected <= work'[u].read.revision
                        /\ work'[u].step = "save" =>
                             /\ work'[u].read.revision <= dictionaries[p.scope].revision
                             /\ work'[u].read.revision = dictionaries[p.scope].revision =>
                                  work'[u].read = dictionaries[p.scope]
      BY <1>2 DEF SavesKnow, Req
    <2>1. CASE u = c
      <3>1. q.op = "save"
        BY <1>1, <2>1, RequestKinds DEF Inserting
      <3>2. /\ q.revision > q.expected
            /\ q.expected > 0 => q.revision = q.expected + 1
            /\ q.expected <= dictionaries[q.scope].revision
        BY <1>1, <3>1, SentRequests
      <3>3. Before(q) = dictionaries[q.scope] /\ dictionaries[q.scope].revision \in Nat
        BY <3>1, RequestKinds DEF Before, SaveSet, DocumentTypes, DictionarySet
      <3> QED
        BY <1>1, <2>1, <3>2, <3>3
    <2>2. CASE u # c
      BY <1>1, <2>2 DEF SavesKnow, Req
    <2> QED
      BY <2>1, <2>2
  <1> QED
    BY <1>1, <1>3, <1>4
-----------------------------------------------------------------------------
(* One winner. *)

IndexDocument(q) ==
  [id |-> q.id, table |-> q.table, field |-> q.field, direction |-> q.direction]
AtIndex(c) == work[c].step \in {"ddl", "cleanup"}
AtAudit(c) == work[c].step = "audit"

\* What is true of a request that has succeeded.
Settled(q) ==
  /\ q.op = "workspace" => q.id \in workspaces
  /\ q.op = "table" => \E d \in tables : d.id = q.id
  /\ q.op = "view" => \E v \in views : v.id = q.id
  /\ q.op = "update" => \E v \in views : v.id = q.id /\ v.version > q.expected
  /\ q.op = "index" => /\ \E i \in indexes : i.id = q.id
                       /\ \A c \in Users : AtIndex(c) => Req(c).id # q.id
  /\ q.op = "save" => /\ dictionaries[q.scope].revision > q.expected
                      /\ \A c \in Users : AtAudit(c) =>
                           Req(c).scope # q.scope \/ Req(c).expected # q.expected

\* A caller that has inserted the metadata of an index is the only one with its id.
Building ==
  \A c \in Users : AtIndex(c) =>
    /\ IndexDocument(Req(c)) \in indexes
    /\ \A d \in Users \ {c} : AtIndex(d) => Req(d).id # Req(c).id
\* A caller that has saved a dictionary is the only one that replaced its revision.
Auditing ==
  \A c \in Users : AtAudit(c) =>
    /\ dictionaries[Req(c).scope].revision > Req(c).expected
    /\ \A d \in Users \ {c} : AtAudit(d) =>
         Req(d).scope # Req(c).scope \/ Req(d).expected # Req(c).expected
AcksSettled == \A a \in acks : a.request \in RequestSet /\ Settled(a.request)
WinnersInv == AcksSettled /\ OneWinner /\ Building /\ Auditing

LEMMA Claims ==
  ASSUME NEW p \in RequestSet, NEW q \in RequestSet, Claim(p) = Claim(q)
  PROVE  /\ p.op = q.op
         /\ p.op \notin {"update", "save"} => p.id = q.id
         /\ p.op = "update" => p.id = q.id /\ p.expected = q.expected
         /\ p.op = "save" => p.scope = q.scope /\ p.expected = q.expected
  BY DEF Claim

LEMMA WinnerAdded ==
  ASSUME OneWinner, NEW q, NEW n, acks' = acks \cup {[request |-> q, number |-> n]},
         \A a \in acks : Claim(a.request) # Claim(q)
  PROVE  OneWinner'
  <1> DEFINE b == [request |-> q, number |-> n]
  <1>1. b.request = q /\ acks' = acks \cup {b}
    OBVIOUS
  <1> HIDE DEF b
  <1> QED
    BY <1>1 DEF OneWinner

StoreGrows ==
  /\ workspaces \subseteq workspaces'
  /\ \A d \in tables : \E e \in tables' : e.id = d.id
  /\ \A v \in views : \E w \in views' : w.id = v.id /\ w.version >= v.version
  /\ \A s \in Scopes : dictionaries'[s].revision >= dictionaries[s].revision

\* No caller has come to the second write of an index or a dictionary.
NoneArrives ==
  \A u \in Users :
    /\ (AtIndex(u)' => AtIndex(u) /\ work'[u].request = work[u].request)
    /\ (AtAudit(u)' => AtAudit(u) /\ work'[u].request = work[u].request)

LEMMA SettledLasts ==
  ASSUME DocumentTypes, DocumentTypes', StoreGrows, NEW q \in RequestSet, Settled(q),
         q.op = "index" => Settled(q)',
         q.op = "save" => \A c \in Users : AtAudit(c)' =>
           work'[c].request.scope # q.scope \/ work'[c].request.expected # q.expected
  PROVE  Settled(q)'
  <1>1. q.op = "update" => \E v \in views' : v.id = q.id /\ v.version > q.expected
    <2> SUFFICES ASSUME q.op = "update" PROVE \E v \in views' : v.id = q.id /\ v.version > q.expected
      OBVIOUS
    <2>1. PICK v \in views : v.id = q.id /\ v.version > q.expected
      BY DEF Settled
    <2>2. PICK w \in views' : w.id = v.id /\ w.version >= v.version
      BY DEF StoreGrows
    <2>3. v.version \in Nat /\ w.version \in Nat /\ q.expected \in Nat
      BY RequestKinds DEF DocumentTypes, UpdateSet
    <2> QED
      BY <2>1, <2>2, <2>3
  <1>2. q.op = "view" => \E v \in views' : v.id = q.id
    BY DEF Settled, StoreGrows
  <1>3. q.op = "table" => \E d \in tables' : d.id = q.id
    BY DEF Settled, StoreGrows
  <1>4. q.op = "workspace" => q.id \in workspaces'
    BY DEF Settled, StoreGrows
  <1>5. q.op = "save" => dictionaries'[q.scope].revision > q.expected
    <2> SUFFICES ASSUME q.op = "save" PROVE dictionaries'[q.scope].revision > q.expected
      OBVIOUS
    <2>1. q.scope \in Scopes /\ q.expected \in Nat
      BY RequestKinds DEF SaveSet
    <2>2. dictionaries'[q.scope].revision \in Nat /\ dictionaries[q.scope].revision \in Nat
      BY <2>1 DEF DocumentTypes, DictionarySet
    <2> QED
      BY <2>1, <2>2 DEF Settled, StoreGrows
  <1> QED
    BY <1>1, <1>2, <1>3, <1>4, <1>5 DEF Settled, Req

LEMMA WinnersStay ==
  ASSUME WorkTypes, DocumentTypes, DocumentTypes', WinnersInv, StoreGrows, NoneArrives,
         indexes' = indexes
  PROVE  /\ \A a \in acks : Settled(a.request)'
         /\ Building' /\ Auditing'
  <1>1. ASSUME NEW a \in acks PROVE Settled(a.request)'
    <2>1. PICK q : q = a.request
      OBVIOUS
    <2>2. q \in RequestSet /\ Settled(q)
      BY <2>1 DEF WinnersInv, AcksSettled
    <2>3. q.op = "index" => Settled(q)'
      BY <2>2 DEF Settled, NoneArrives, Req
    <2>4. q.op = "save" => \A c \in Users : AtAudit(c)' =>
            work'[c].request.scope # q.scope \/ work'[c].request.expected # q.expected
      BY <2>2 DEF Settled, NoneArrives, Req
    <2>5. Settled(q)'
      BY <2>2, <2>3, <2>4, SettledLasts
    <2> QED
      BY <2>1, <2>5
  <1>2. Building'
    BY DEF WinnersInv, Building, NoneArrives, Req
  <1>3. Auditing'
    <2> SUFFICES ASSUME NEW c \in Users, AtAudit(c)'
                 PROVE  LET q == work'[c].request IN
                        /\ dictionaries'[q.scope].revision > q.expected
                        /\ \A d \in Users \ {c} : AtAudit(d)' =>
                             work'[d].request.scope # q.scope \/ work'[d].request.expected # q.expected
      BY DEF Auditing, Req
    <2> DEFINE q == work[c].request
    <2>1. AtAudit(c) /\ work'[c].request = q
      BY DEF NoneArrives
    <2>2. q \in SaveSet
      BY <2>1, RequestKinds DEF WorkTypes, AtAudit
    <2>3. q.scope \in Scopes /\ q.expected \in Nat
      BY <2>2 DEF SaveSet
    <2>4. dictionaries'[q.scope].revision \in Nat /\ dictionaries[q.scope].revision \in Nat
      BY <2>3 DEF DocumentTypes, DictionarySet
    <2>5. dictionaries[q.scope].revision > q.expected
      BY <2>1 DEF WinnersInv, Auditing, Req
    <2>6. dictionaries'[q.scope].revision > q.expected
      BY <2>3, <2>4, <2>5 DEF StoreGrows
    <2>7. \A d \in Users \ {c} : AtAudit(d)' =>
            work'[d].request.scope # q.scope \/ work'[d].request.expected # q.expected
      BY <2>1 DEF WinnersInv, Auditing, NoneArrives, Req
    <2> QED
      BY <2>1, <2>6, <2>7
  <1> QED
    BY <1>1, <1>2, <1>3

LEMMA NoGrowth ==
  ASSUME DocumentTypes, UNCHANGED <<workspaces, tables, views, dictionaries>>
  PROVE  StoreGrows
  BY DEF StoreGrows, DocumentTypes, DictionarySet

\* A caller that answers, or takes up a request, has no second write to do.
LEMMA LeavesSecondWrite ==
  ASSUME NEW c \in Users, work'[c].step \in {"idle"} \cup Inserting,
         \A u \in Users \ {c} : work'[u] = work[u]
  PROVE  NoneArrives
  BY DEF NoneArrives, AtIndex, AtAudit, Inserting

\* A step without a new winner.
LEMMA NoNewWinner ==
  ASSUME WorkTypes, DocumentTypes, DocumentTypes', WinnersInv, StoreGrows, NoneArrives,
         UNCHANGED <<indexes, acks>>
  PROVE  WinnersInv'
  <1>1. /\ \A a \in acks : Settled(a.request)'
        /\ Building' /\ Auditing'
    BY WinnersStay
  <1>2. AcksSettled'
    BY <1>1 DEF WinnersInv, AcksSettled
  <1>3. OneWinner'
    BY DEF WinnersInv, OneWinner
  <1> QED
    BY <1>1, <1>2, <1>3 DEF WinnersInv

\* A caller succeeds.
LEMMA NewWinner ==
  ASSUME WorkTypes, DocumentTypes, DocumentTypes', WinnersInv, StoreGrows, UNCHANGED indexes,
         NEW c \in Users, Succeed(c), NEW q \in RequestSet, q = Req(c), Settled(q)',
         \A a \in acks : Claim(a.request) # Claim(q)
  PROVE  WinnersInv'
  <1>1. Stop(c) /\ acks' = acks \cup {[request |-> Req(c), number |-> work[c].number]}
    BY DEF Succeed
  <1>2. WorkTypes' /\ work'[c].step = "idle" /\ \A u \in Users \ {c} : work'[u] = work[u]
    BY <1>1, Stops
  <1>3. NoneArrives
    BY <1>2, LeavesSecondWrite
  <1>4. /\ \A a \in acks : Settled(a.request)'
        /\ Building' /\ Auditing'
    BY <1>3, WinnersStay
  <1>5. OneWinner'
    BY <1>1, WinnerAdded DEF WinnersInv
  <1>6. AcksSettled'
    <2> SUFFICES ASSUME NEW a \in acks' PROVE a.request \in RequestSet /\ Settled(a.request)'
      BY DEF AcksSettled
    <2>1. CASE a \in acks
      BY <1>4, <2>1 DEF WinnersInv, AcksSettled
    <2>2. CASE a = [request |-> q, number |-> work[c].number]
      <3>1. a.request = q
        BY <2>2
      <3> QED
        BY <3>1
    <2> QED
      BY <1>1, <2>1, <2>2
  <1> QED
    BY <1>4, <1>5, <1>6 DEF WinnersInv
-----------------------------------------------------------------------------
(* Definitions that can be served. *)

\* A view or an index is asked for only after its fields were found in the published schema
\* of its table; a view is updated in the table it was created in.
CallersFit ==
  \A c \in Users :
    /\ work[c].step \in {"view", "update"} =>
         PublishedSchema(Req(c).table) /\ ViewFieldsAllowed(Req(c).table, Req(c).fields)
    /\ work[c].step = "update" => \E v \in views : v.id = Req(c).id /\ v.table = Req(c).table
    /\ work[c].step = "index" =>
         PublishedSchema(Req(c).table) /\ IndexFieldAllowed(Req(c).table, Req(c).field)
\* The callers that have counted the indexes of table t and not inserted theirs.
Counting(t) == {c \in Users : work[c].step = "index" /\ Req(c).table = t}
CountInv ==
  \A t \in Tables :
    Cardinality(IndexesOf(t)) + Cardinality(Counting(t)) <= MaxIndexes + Cardinality(Users) - 1
FitInv == DefinitionsFitSchema /\ CallersFit

\* The schema that a table is pinned to stays as it is.
SchemaKept ==
  /\ \A t : Table(t) # {} => Table(t)' = Table(t)
  /\ published \subseteq published'
  /\ \A v \in published : properties'[v] = properties[v]

LEMMA SchemaUnchanged ==
  ASSUME UNCHANGED <<tables, published, properties>>
  PROVE  SchemaKept
  BY DEF SchemaKept, Table

LEMMA FitLasts ==
  ASSUME SchemaKept, NEW t, NEW f, PublishedSchema(t)
  PROVE  /\ PublishedSchema(t)'
         /\ ViewFieldsAllowed(t, f) => ViewFieldsAllowed(t, f)'
         /\ IndexFieldAllowed(t, f) => IndexFieldAllowed(t, f)'
  <1>1. Table(t)' = Table(t) /\ Table(t) # {}
    BY DEF PublishedSchema, SchemaKept
  <1>2. SchemaOf(t)' = SchemaOf(t)
    BY <1>1 DEF SchemaOf
  <1>3. SchemaOf(t) \in published
    BY DEF PublishedSchema
  <1>4. SchemaOf(t) \in published' /\ properties'[SchemaOf(t)] = properties[SchemaOf(t)]
    BY <1>3 DEF SchemaKept
  <1>5. PublishedSchema(t)'
    BY <1>1, <1>2, <1>4 DEF PublishedSchema
  <1>6. ViewFieldsAllowed(t, f)' = ViewFieldsAllowed(t, f)
    BY <1>2, <1>4 DEF ViewFieldsAllowed
  <1>7. IndexFieldAllowed(t, f)' = IndexFieldAllowed(t, f)
    BY <1>2, <1>4 DEF IndexFieldAllowed
  <1> QED
    BY <1>5, <1>6, <1>7

\* After a step, what is stored and what is about to be written fitted the schemas before it.
LEMMA FitMoves ==
  ASSUME SchemaKept,
         \A v \in views' : PublishedSchema(v.table) /\ ViewFieldsAllowed(v.table, v.fields),
         \A i \in indexes' : PublishedSchema(i.table) /\ IndexFieldAllowed(i.table, i.field),
         \A u \in Users :
           /\ work'[u].step \in {"view", "update"} =>
                /\ PublishedSchema(work'[u].request.table)
                /\ ViewFieldsAllowed(work'[u].request.table, work'[u].request.fields)
           /\ work'[u].step = "update" =>
                \E v \in views' : v.id = work'[u].request.id /\ v.table = work'[u].request.table
           /\ work'[u].step = "index" =>
                /\ PublishedSchema(work'[u].request.table)
                /\ IndexFieldAllowed(work'[u].request.table, work'[u].request.field)
  PROVE  FitInv'
  <1>1. \A v \in views' : PublishedSchema(v.table)' /\ ViewFieldsAllowed(v.table, v.fields)'
    BY FitLasts
  <1>2. \A i \in indexes' : PublishedSchema(i.table)' /\ IndexFieldAllowed(i.table, i.field)'
    BY FitLasts
  <1>3. DefinitionsFitSchema'
    BY <1>1, <1>2 DEF DefinitionsFitSchema
  <1>4. CallersFit'
    <2> SUFFICES ASSUME NEW u \in Users
                 PROVE  /\ work'[u].step \in {"view", "update"} =>
                             /\ PublishedSchema(Req(u).table)'
                             /\ ViewFieldsAllowed(Req(u).table, Req(u).fields)'
                        /\ work'[u].step = "update" =>
                             \E v \in views' : v.id = Req(u)'.id /\ v.table = Req(u)'.table
                        /\ work'[u].step = "index" =>
                             /\ PublishedSchema(Req(u).table)'
                             /\ IndexFieldAllowed(Req(u).table, Req(u).field)'
      BY DEF CallersFit
    <2>1. PICK q : q = work'[u].request
      OBVIOUS
    <2>2. Req(u)' = q
      BY <2>1 DEF Req
    <2>3. /\ work'[u].step \in {"view", "update"} =>
               PublishedSchema(q.table)' /\ ViewFieldsAllowed(q.table, q.fields)'
          /\ work'[u].step = "index" =>
               PublishedSchema(q.table)' /\ IndexFieldAllowed(q.table, q.field)'
      BY <2>1, FitLasts
    <2> QED
      BY <2>1, <2>2, <2>3
  <1> QED
    BY <1>3, <1>4 DEF FitInv

\* A step that adds no view and no index, and after which whoever is about to write one was
\* so before.
LEMMA FitStays ==
  ASSUME FitInv, SchemaKept,
         \A v \in views' : \E w \in views : w.table = v.table /\ w.fields = v.fields,
         \A v \in views : \E w \in views' : w.id = v.id /\ w.table = v.table,
         indexes' \subseteq indexes,
         \A u \in Users : work'[u].step \in {"view", "update", "index"} => work'[u] = work[u]
  PROVE  FitInv'
  <1>1. /\ \A v \in views' : PublishedSchema(v.table) /\ ViewFieldsAllowed(v.table, v.fields)
        /\ \A i \in indexes' : PublishedSchema(i.table) /\ IndexFieldAllowed(i.table, i.field)
    BY DEF FitInv, DefinitionsFitSchema
  <1>2. \A u \in Users :
          /\ work'[u].step \in {"view", "update"} =>
               /\ PublishedSchema(work'[u].request.table)
               /\ ViewFieldsAllowed(work'[u].request.table, work'[u].request.fields)
          /\ work'[u].step = "update" =>
               \E v \in views' : v.id = work'[u].request.id /\ v.table = work'[u].request.table
          /\ work'[u].step = "index" =>
               /\ PublishedSchema(work'[u].request.table)
               /\ IndexFieldAllowed(work'[u].request.table, work'[u].request.field)
    BY DEF FitInv, CallersFit, Req
  <1> QED
    BY <1>1, <1>2, FitMoves

LEMMA CountTypes ==
  ASSUME DocumentTypes, NEW t
  PROVE  /\ IsFiniteSet(Users) /\ Cardinality(Users) \in Nat
         /\ IsFiniteSet(IndexesOf(t)) /\ Cardinality(IndexesOf(t)) \in Nat
         /\ IsFiniteSet(Counting(t)) /\ Cardinality(Counting(t)) \in Nat
         /\ Cardinality(Counting(t)) <= Cardinality(Users)
  <1>1. IsFiniteSet(Users) /\ IsFiniteSet(indexes)
    BY WorkspaceAssumption DEF DocumentTypes
  <1>2. IndexesOf(t) \subseteq indexes /\ Counting(t) \subseteq Users
    BY DEF IndexesOf, Counting
  <1> QED
    BY <1>1, <1>2, FS_Subset, FS_CardinalityType

\* Neither indexes nor callers about to insert one have become more.
LEMMA CountStays ==
  ASSUME DocumentTypes, DocumentTypes', CountInv, indexes' \subseteq indexes,
         \A u \in Users : work'[u].step = "index" => work'[u] = work[u]
  PROVE  CountInv'
  <1> SUFFICES ASSUME NEW t \in Tables
               PROVE  Cardinality(IndexesOf(t)') + Cardinality(Counting(t)')
                        <= MaxIndexes + Cardinality(Users) - 1
    BY DEF CountInv
  <1>1. IndexesOf(t)' \subseteq IndexesOf(t) /\ Counting(t)' \subseteq Counting(t)
    BY DEF IndexesOf, Counting, Req
  <1>2. /\ IsFiniteSet(IndexesOf(t)) /\ Cardinality(IndexesOf(t)) \in Nat
        /\ IsFiniteSet(Counting(t)) /\ Cardinality(Counting(t)) \in Nat
        /\ Cardinality(Users) \in Nat
    BY CountTypes
  <1>3. /\ IsFiniteSet(IndexesOf(t)') /\ Cardinality(IndexesOf(t)') <= Cardinality(IndexesOf(t))
        /\ IsFiniteSet(Counting(t)') /\ Cardinality(Counting(t)') <= Cardinality(Counting(t))
    BY <1>1, <1>2, FS_Subset
  <1>4. Cardinality(IndexesOf(t)') \in Nat /\ Cardinality(Counting(t)') \in Nat
    BY <1>3, FS_CardinalityType
  <1>5. Cardinality(IndexesOf(t)) + Cardinality(Counting(t)) <= MaxIndexes + Cardinality(Users) - 1
    BY DEF CountInv
  <1> QED
    BY <1>2, <1>3, <1>4, <1>5, WorkspaceAssumption

LEMMA MetadataStays ==
  ASSUME MetadataHasIndex, indexes' \subseteq indexes, physical \subseteq physical',
         stranded \subseteq stranded',
         \A u \in Users : AtIndex(u) =>
           \/ AtIndex(u)' /\ work'[u].request = work[u].request
           \/ \A i \in indexes' : i.id = Req(u).id =>
                <<i.field, i.direction>> \in physical' \/ i.id \in stranded'
  PROVE  MetadataHasIndex'
  <1> SUFFICES ASSUME NEW i \in indexes'
               PROVE  \/ <<i.field, i.direction>> \in physical'
                      \/ i.id \in stranded'
                      \/ \E c \in Users : AtIndex(c)' /\ work'[c].request.id = i.id
    BY DEF MetadataHasIndex, AtIndex, Req
  <1>1. \/ <<i.field, i.direction>> \in physical
        \/ i.id \in stranded
        \/ \E c \in Users : AtIndex(c) /\ Req(c).id = i.id
    BY DEF MetadataHasIndex, AtIndex
  <1> QED
    BY <1>1 DEF Req

\* Definitions that can be served, and a step that touches none of them.
DefinitionsInv == FitInv /\ CountInv /\ MetadataHasIndex
LEMMA DefinitionsStay ==
  ASSUME DocumentTypes, DocumentTypes', DefinitionsInv,
         UNCHANGED <<published, properties, tables, views, indexVars>>,
         \A u \in Users : work'[u].step \in {"view", "update", "index"} => work'[u] = work[u],
         \A u \in Users : AtIndex(u) => AtIndex(u)' /\ work'[u].request = work[u].request
  PROVE  DefinitionsInv'
  <1>1. indexes' = indexes /\ physical' = physical /\ stranded' = stranded
    BY DEF indexVars
  <1>2. SchemaKept
    BY SchemaUnchanged
  <1>3. FitInv'
    BY <1>1, <1>2, FitStays DEF DefinitionsInv
  <1>4. CountInv'
    BY <1>1, CountStays DEF DefinitionsInv
  <1>5. MetadataHasIndex'
    BY <1>1, MetadataStays DEF DefinitionsInv
  <1> QED
    BY <1>3, <1>4, <1>5 DEF DefinitionsInv
-----------------------------------------------------------------------------
(* The trail of the dictionaries. *)

AllSaves == audit \cup unaudited \cup {AuditEntry(c) : c \in {d \in Users : AtStep(d, "audit")}}
\* A save names the dictionary that it replaced, or is the first of its scope.
Traced(e) ==
  \/ e.version = e.before.revision + 1 /\ \E p \in AllSaves : p.scope = e.scope /\ p.after = e.before
  \/ e.before = NoDictionary /\ \A p \in AllSaves : p.scope = e.scope => e.version <= p.version
SavesTyped ==
  \A e \in AllSaves : /\ e.scope \in Scopes /\ e.version \in Nat \ {0}
                      /\ e.version <= dictionaries[e.scope].revision
InForce ==
  \A s \in Scopes : dictionaries[s].revision > 0 =>
    \E e \in AllSaves : /\ e.scope = s /\ e.after = dictionaries[s]
                        /\ e.version = dictionaries[s].revision
DictionaryInv == SavesTyped /\ InForce /\ \A e \in AllSaves : Traced(e)

LEMMA SavesListed ==
  \A e : e \in AllSaves <=> \/ e \in audit \/ e \in unaudited
                            \/ \E c \in Users : AtAudit(c) /\ e = AuditEntry(c)
  BY DEF AllSaves, AtStep, AtAudit

LEMMA TrailStays ==
  ASSUME DictionaryInv, AllSaves' = AllSaves, dictionaries' = dictionaries
  PROVE  DictionaryInv'
  <1>1. SavesTyped'
    BY DEF DictionaryInv, SavesTyped
  <1>2. InForce'
    BY DEF DictionaryInv, InForce
  <1>3. \A e \in AllSaves' : Traced(e)'
    BY DEF DictionaryInv, Traced
  <1> QED
    BY <1>1, <1>2, <1>3 DEF DictionaryInv

\* A step of a caller that neither saves a dictionary nor audits one.
LEMMA NothingSaved ==
  ASSUME DictionaryInv, UNCHANGED <<dictionaries, audit, unaudited>>,
         \A u \in Users : (AtAudit(u)' <=> AtAudit(u)) /\ (AtAudit(u) => work'[u] = work[u])
  PROVE  DictionaryInv'
  <1>1. \A u \in Users : AtAudit(u) => AuditEntry(u)' = AuditEntry(u)
    BY DEF AuditEntry, Req
  <1>2. \A e : e \in AllSaves' <=> \/ e \in audit' \/ e \in unaudited'
                                   \/ \E c \in Users : AtAudit(c)' /\ e = AuditEntry(c)'
    BY DEF AllSaves, AtStep, AtAudit
  <1>3. \A e : e \in AllSaves' <=> e \in AllSaves
    BY <1>1, <1>2, SavesListed
  <1> QED
    BY <1>3, TrailStays

\* A save over the revision in force continues the trail.
LEMMA TrailGoesOn ==
  ASSUME DocumentTypes, DictionaryInv, NEW e, NEW s \in Scopes, AllSaves' = AllSaves \cup {e},
         e.scope = s, e.version \in Nat, e.version > dictionaries[s].revision,
         e.before = dictionaries[s], e.after = dictionaries'[s],
         e.version = dictionaries'[s].revision,
         dictionaries[s].revision > 0 => e.version = dictionaries[s].revision + 1,
         \A t \in Scopes \ {s} : dictionaries'[t] = dictionaries[t]
  PROVE  DictionaryInv'
  <1>1. \A t \in Scopes : dictionaries[t].revision \in Nat
    BY DEF DocumentTypes, DictionarySet
  <1>2. SavesTyped'
    <2> SUFFICES ASSUME NEW f \in AllSaves'
                 PROVE  /\ f.scope \in Scopes /\ f.version \in Nat \ {0}
                        /\ f.version <= dictionaries'[f.scope].revision
      BY DEF SavesTyped
    <2>1. CASE f = e
      BY <1>1, <2>1
    <2>2. CASE f \in AllSaves
      <3>1. /\ f.scope \in Scopes /\ f.version \in Nat \ {0}
            /\ f.version <= dictionaries[f.scope].revision
        BY <2>2 DEF DictionaryInv, SavesTyped
      <3> QED
        BY <1>1, <3>1
    <2> QED
      BY <2>1, <2>2
  <1>3. InForce'
    <2> SUFFICES ASSUME NEW t \in Scopes, dictionaries'[t].revision > 0
                 PROVE  \E f \in AllSaves' : /\ f.scope = t /\ f.after = dictionaries'[t]
                                             /\ f.version = dictionaries'[t].revision
      BY DEF InForce
    <2>1. CASE t = s
      BY <2>1
    <2>2. CASE t # s
      BY <2>2 DEF DictionaryInv, InForce
    <2> QED
      BY <2>1, <2>2
  <1>4. \A f \in AllSaves' : Traced(f)'
    <2> SUFFICES ASSUME NEW f \in AllSaves' PROVE Traced(f)'
      OBVIOUS
    <2>1. CASE f = e
      <3>1. CASE dictionaries[s].revision > 0
        <4>1. \E p \in AllSaves : p.scope = s /\ p.after = dictionaries[s]
          BY <3>1 DEF DictionaryInv, InForce
        <4> QED
          BY <2>1, <3>1, <4>1 DEF Traced
      <3>2. CASE dictionaries[s].revision = 0
        <4>1. dictionaries[s] = NoDictionary
          BY <3>2 DEF DocumentTypes
        <4>2. \A p \in AllSaves : p.scope # s
          BY <3>2 DEF DictionaryInv, SavesTyped
        <4>3. \A p \in AllSaves' : p.scope = s => e.version <= p.version
          BY <4>2
        <4> QED
          BY <2>1, <4>1, <4>3 DEF Traced
      <3> QED
        BY <1>1, <3>1, <3>2
    <2>2. CASE f \in AllSaves
      <3>1. /\ f.scope \in Scopes /\ f.version \in Nat \ {0}
            /\ f.version <= dictionaries[f.scope].revision /\ Traced(f)
        BY <2>2 DEF DictionaryInv, SavesTyped
      <3>2. CASE f.version = f.before.revision + 1
                 /\ \E p \in AllSaves : p.scope = f.scope /\ p.after = f.before
        BY <3>2 DEF Traced
      <3>3. CASE f.before = NoDictionary
                 /\ \A p \in AllSaves : p.scope = f.scope => f.version <= p.version
        <4>1. e.scope = f.scope => f.version <= e.version
          BY <1>1, <3>1
        <4>2. \A p \in AllSaves' : p.scope = f.scope => f.version <= p.version
          BY <3>3, <4>1
        <4> QED
          BY <3>3, <4>2 DEF Traced
      <3> QED
        BY <3>1, <3>2, <3>3 DEF Traced
    <2> QED
      BY <2>1, <2>2
  <1> QED
    BY <1>2, <1>3, <1>4 DEF DictionaryInv

\* The trail is what DictionaryTrail says.
LEMMA TrailIsTold ==
  ASSUME DocumentTypes, DictionaryInv
  PROVE  DictionaryTrail
  <1>1. \A s : \A e : e \in SavesOf(s) <=> e \in AllSaves /\ e.scope = s
    BY DEF SavesOf, AllSaves
  <1>2. AuditNamesReplaced
    <2> SUFFICES ASSUME NEW e \in audit
                 PROVE  \/ e.version = e.before.revision + 1 /\ \E p \in SavesOf(e.scope) : p.after = e.before
                        \/ e.before = NoDictionary /\ \A p \in SavesOf(e.scope) : e.version <= p.version
      BY DEF AuditNamesReplaced
    <2>1. Traced(e)
      BY SavesListed DEF DictionaryInv
    <2> QED
      BY <1>1, <2>1 DEF Traced
  <1>3. NewestRevisionInForce
    <2> SUFFICES ASSUME NEW s \in Saved
                 PROVE  \E e \in SavesOf(s) :
                          e.after = dictionaries[s] /\ \A f \in SavesOf(s) : f.version <= e.version
      BY DEF NewestRevisionInForce
    <2>1. s \in Scopes /\ dictionaries[s].revision > 0
      BY DEF Saved
    <2>2. PICK e \in AllSaves : /\ e.scope = s /\ e.after = dictionaries[s]
                                /\ e.version = dictionaries[s].revision
      BY <2>1 DEF DictionaryInv, InForce
    <2>3. \A f \in SavesOf(s) : f.version <= e.version
      BY <1>1, <2>2 DEF DictionaryInv, SavesTyped
    <2> QED
      BY <1>1, <2>2, <2>3
  <1> QED
    BY <1>2, <1>3 DEF DictionaryTrail
-----------------------------------------------------------------------------
(* Each operation keeps the invariant. *)

WorkspaceInv ==
  WorkTypes /\ DocumentTypes /\ SavesKnow /\ WinnersInv /\ DefinitionsInv /\ DictionaryInv

\* A caller gives up before its first write.
LEMMA Leaves ==
  ASSUME WorkspaceInv, NEW c \in Users, work[c].step \in Inserting, Stop(c),
         UNCHANGED <<schemaVars, workspaceVars, acks, requests>>
  PROVE  WorkspaceInv'
  <1>1. /\ UNCHANGED <<published, properties, workspaces, tables, views, indexes, indexVars>>
        /\ UNCHANGED <<dictionaries, audit, unaudited, acks, requests>>
    BY DEF schemaVars, workspaceVars, indexVars, tagVars
  <1>2. /\ WorkTypes' /\ work'[c].step = "idle"
        /\ \A u \in Users \ {c} : work'[u] = work[u]
    BY Stops DEF WorkspaceInv
  <1>3. DocumentTypes'
    BY <1>1, DocumentsStay DEF WorkspaceInv, DocumentTypes
  <1>4. SavesKnow'
    BY <1>1, <1>2, SavesStillKnow DEF WorkspaceInv
  <1>5. WinnersInv'
    BY <1>1, <1>2, <1>3, NoGrowth, LeavesSecondWrite, NoNewWinner DEF WorkspaceInv
  <1>6. DefinitionsInv'
    BY <1>1, <1>2, <1>3, DefinitionsStay DEF WorkspaceInv, AtIndex, Inserting
  <1>7. DictionaryInv'
    BY <1>1, <1>2, NothingSaved DEF WorkspaceInv, AtAudit, Inserting
  <1> QED
    BY <1>2, <1>3, <1>4, <1>5, <1>6, <1>7 DEF WorkspaceInv

LEMMA RefuseKeeps ==
  ASSUME WorkspaceInv, NEW c \in Users, RefuseDuplicate(c)
  PROVE  WorkspaceInv'
  BY Leaves DEF RefuseDuplicate, Duplicate, AtStep, Inserting

\* A caller that counts the indexes found fewer than the limit.
LEMMA HandleCounts ==
  ASSUME DocumentTypes, DocumentTypes', CountInv, NEW c \in Users, NEW q \in RequestSet,
         RequestAccepted(q), work'[c].request = q, work'[c].step = q.op,
         \A u \in Users \ {c} : work'[u] = work[u], indexes' = indexes
  PROVE  CountInv'
  <1> SUFFICES ASSUME NEW t \in Tables
               PROVE  Cardinality(IndexesOf(t)') + Cardinality(Counting(t)')
                        <= MaxIndexes + Cardinality(Users) - 1
    BY DEF CountInv
  <1>1. /\ Cardinality(Users) \in Nat /\ MaxIndexes \in Nat
        /\ Cardinality(IndexesOf(t)) \in Nat
        /\ IsFiniteSet(Counting(t)) /\ Cardinality(Counting(t)) \in Nat
    BY CountTypes, WorkspaceAssumption
  <1>2. IndexesOf(t)' = IndexesOf(t)
    BY DEF IndexesOf
  <1>3. /\ Counting(t)' \subseteq Users /\ IsFiniteSet(Users)
    BY WorkspaceAssumption DEF Counting
  <1>4. Cardinality(Counting(t)') \in Nat /\ Cardinality(Counting(t)') <= Cardinality(Users)
    BY <1>3, FS_Subset, FS_CardinalityType
  <1>5. CASE q.op = "index" /\ q.table = t
    <2>1. ~IndexRefused(q)
      BY <1>5 DEF RequestAccepted
    <2>2. ~(Cardinality(IndexesOf(t)) >= MaxIndexes)
      BY <1>5, <2>1 DEF IndexRefused
    <2> QED
      BY <1>1, <1>2, <1>4, <2>2
  <1>6. CASE ~(q.op = "index" /\ q.table = t)
    <2>1. Counting(t)' \subseteq Counting(t)
      BY <1>6 DEF Counting, Req
    <2>2. Cardinality(Counting(t)') <= Cardinality(Counting(t))
      BY <1>1, <2>1, FS_Subset
    <2>3. Cardinality(IndexesOf(t)) + Cardinality(Counting(t))
            <= MaxIndexes + Cardinality(Users) - 1
      BY DEF CountInv
    <2> QED
      BY <1>1, <1>2, <1>4, <2>2, <2>3
  <1> QED
    BY <1>5, <1>6

\* A caller that was accepted found its fields in the schema.
LEMMA AcceptedFits ==
  ASSUME DocumentTypes, NEW q \in RequestSet, q \in Requested, RequestAccepted(q)
  PROVE  /\ q.op \in {"view", "update"} =>
              PublishedSchema(q.table) /\ ViewFieldsAllowed(q.table, q.fields)
         /\ q.op = "update" => \E v \in views : v.id = q.id /\ v.table = q.table
         /\ q.op = "index" => PublishedSchema(q.table) /\ IndexFieldAllowed(q.table, q.field)
  <1>1. q.op = "view" => PublishedSchema(q.table) /\ ViewFieldsAllowed(q.table, q.fields)
    BY DEF RequestAccepted, ViewAccepted
  <1>2. q.op = "update" => PublishedSchema(q.table) /\ ViewFieldsAllowed(q.table, q.fields)
    BY DEF RequestAccepted, UpdateAccepted
  <1>3. q.op = "index" => PublishedSchema(q.table) /\ IndexFieldAllowed(q.table, q.field)
    BY DEF RequestAccepted, IndexRefused
  <1>4. q.op = "update" => \E v \in views : v.id = q.id /\ v.table = q.table
    BY SentRequests
  <1> QED
    BY <1>1, <1>2, <1>3, <1>4

LEMMA HandleFits ==
  ASSUME FitInv, SchemaKept, DocumentTypes, NEW c \in Users, NEW q \in RequestSet, q \in Requested,
         RequestAccepted(q), work'[c].request = q, work'[c].step = q.op,
         \A u \in Users \ {c} : work'[u] = work[u], UNCHANGED <<views, indexes>>
  PROVE  FitInv'
  <1>1. /\ \A v \in views' : PublishedSchema(v.table) /\ ViewFieldsAllowed(v.table, v.fields)
        /\ \A i \in indexes' : PublishedSchema(i.table) /\ IndexFieldAllowed(i.table, i.field)
    BY DEF FitInv, DefinitionsFitSchema
  <1>2. ASSUME NEW u \in Users
        PROVE  /\ work'[u].step \in {"view", "update"} =>
                    /\ PublishedSchema(work'[u].request.table)
                    /\ ViewFieldsAllowed(work'[u].request.table, work'[u].request.fields)
               /\ work'[u].step = "update" =>
                    \E v \in views' :
                      v.id = work'[u].request.id /\ v.table = work'[u].request.table
               /\ work'[u].step = "index" =>
                    /\ PublishedSchema(work'[u].request.table)
                    /\ IndexFieldAllowed(work'[u].request.table, work'[u].request.field)
    <2>1. CASE u = c
      BY <2>1, AcceptedFits
    <2>2. CASE u # c
      BY <2>2 DEF FitInv, CallersFit, Req
    <2> QED
      BY <2>1, <2>2
  <1> QED
    BY <1>1, <1>2, FitMoves

LEMMA HandleKeeps ==
  ASSUME WorkspaceInv, NEW c \in Users, Handle(c)
  PROVE  WorkspaceInv'
  <1>1. /\ UNCHANGED <<published, properties, workspaces, tables, views, indexes, physical, stranded>>
        /\ UNCHANGED <<dictionaries, audit, unaudited, acks>>
        /\ work[c].step = "idle"
    BY DEF Handle, schemaVars, workspaceVars, indexVars, tagVars, AtStep
  <1>2. PICK q \in RequestSet :
           /\ q \in Requested /\ RequestAccepted(q)
           /\ work'[c].step = q.op /\ work'[c].request = q /\ work'[c].read = Before(q)
           /\ WorkTypes' /\ \A u \in Users \ {c} : work'[u] = work[u]
    BY Handled DEF WorkspaceInv
  <1>3. WorkTypes' /\ DocumentTypes' /\ SavesKnow'
    BY HandleKnows DEF WorkspaceInv
  <1>4. work'[c].step \in Inserting
    BY <1>2, RequestKinds
  <1>5. WinnersInv'
    BY <1>1, <1>2, <1>3, <1>4, NoGrowth, LeavesSecondWrite, NoNewWinner DEF WorkspaceInv
  <1>6. FitInv'
    BY <1>1, <1>2, SchemaUnchanged, HandleFits DEF WorkspaceInv, DefinitionsInv
  <1>7. CountInv'
    BY <1>1, <1>2, <1>3, HandleCounts DEF WorkspaceInv, DefinitionsInv
  <1>8. MetadataHasIndex'
    BY <1>1, <1>2, MetadataStays DEF WorkspaceInv, DefinitionsInv, AtIndex
  <1>9. DictionaryInv'
    BY <1>1, <1>2, <1>4, NothingSaved DEF WorkspaceInv, AtAudit, Inserting
  <1> QED
    BY <1>3, <1>5, <1>6, <1>7, <1>8, <1>9 DEF WorkspaceInv, DefinitionsInv

\* A draft is published: no version that was published is touched.
LEMMA PublishKeeps ==
  ASSUME WorkspaceInv, PublishVersion
  PROVE  WorkspaceInv'
  <1>1. /\ UNCHANGED <<workspaces, tables, views, indexes, physical, stranded>>
        /\ UNCHANGED <<dictionaries, audit, unaudited, acks, work, requests>>
    BY DEF PublishVersion, workspaceVars, indexVars, tagVars
  <1>2. PICK v \in SchemaVersions \ published, p \in DraftFields :
          published' = published \cup {v} /\ properties' = [properties EXCEPT ![v] = p]
    BY DEF PublishVersion
  <1>3. p \in SUBSET Fields
    BY WorkspaceAssumption
  <1>4. properties' \in [SchemaVersions -> SUBSET Fields]
    BY <1>2, <1>3 DEF WorkspaceInv, DocumentTypes
  <1>5. SchemaKept
    BY <1>1, <1>2 DEF SchemaKept, Table, WorkspaceInv, DocumentTypes
  <1>6. DocumentTypes'
    BY <1>1, <1>4 DEF WorkspaceInv, DocumentTypes
  <1>7. WorkTypes'
    BY <1>1 DEF WorkspaceInv, WorkTypes
  <1>8. SavesKnow'
    BY <1>1, SavesStillKnow DEF WorkspaceInv
  <1>9. NoneArrives
    BY <1>1 DEF NoneArrives, AtIndex, AtAudit
  <1>10. WinnersInv'
    BY <1>1, <1>6, <1>9, NoGrowth, NoNewWinner DEF WorkspaceInv
  <1>11. FitInv'
    BY <1>1, <1>5, FitStays DEF WorkspaceInv, DefinitionsInv
  <1>12. CountInv'
    BY <1>1, <1>6, CountStays DEF WorkspaceInv, DefinitionsInv
  <1>13. MetadataHasIndex'
    BY <1>1 DEF WorkspaceInv, DefinitionsInv, MetadataHasIndex, Req
  <1>14. DictionaryInv'
    BY <1>1, NothingSaved DEF WorkspaceInv, AtAudit
  <1> QED
    BY <1>6, <1>7, <1>8, <1>10, <1>11, <1>12, <1>13, <1>14 DEF WorkspaceInv, DefinitionsInv
-----------------------------------------------------------------------------
\* What a claim competes for is settled once.
LEMMA NotYetWon ==
  ASSUME WinnersInv, NEW q \in RequestSet, ~Settled(q)
  PROVE  \A a \in acks : Claim(a.request) # Claim(q)
  <1> SUFFICES ASSUME NEW a \in acks, Claim(a.request) = Claim(q) PROVE FALSE
    OBVIOUS
  <1>1. PICK p : p = a.request
    OBVIOUS
  <1>2. p \in RequestSet /\ Settled(p)
    BY <1>1 DEF WinnersInv, AcksSettled
  <1>3. /\ p.op = q.op
        /\ p.op \notin {"update", "save"} => p.id = q.id
        /\ p.op = "update" => p.id = q.id /\ p.expected = q.expected
        /\ p.op = "save" => p.scope = q.scope /\ p.expected = q.expected
    BY <1>1, <1>2, Claims
  <1>4. Settled(q)
    BY <1>2, <1>3 DEF Settled
  <1> QED
    BY <1>4

\* A caller whose only write has succeeded.
LEMMA Creates ==
  ASSUME WorkspaceInv, NEW c \in Users, work[c].step \in Inserting, Succeed(c),
         UNCHANGED <<indexVars, tagVars>>, DocumentTypes', StoreGrows, FitInv',
         NEW q, q = Req(c), Settled(q)', ~Settled(q)
  PROVE  WorkspaceInv'
  <1>1. UNCHANGED <<indexes, physical, stranded, dictionaries, audit, unaudited>>
    BY DEF indexVars, tagVars
  <1>2. /\ WorkTypes' /\ work'[c].step = "idle"
        /\ \A u \in Users \ {c} : work'[u] = work[u]
    BY Stops DEF WorkspaceInv, Succeed
  <1>3. q \in RequestSet
    BY DEF WorkspaceInv, WorkTypes, Req, Inserting
  <1>4. SavesKnow'
    BY <1>1, <1>2, SavesStillKnow DEF WorkspaceInv
  <1>5. WinnersInv'
    BY <1>1, <1>3, NotYetWon, NewWinner DEF WorkspaceInv
  <1>6. CountInv'
    BY <1>1, <1>2, CountStays DEF WorkspaceInv, DefinitionsInv
  <1>7. MetadataHasIndex'
    BY <1>1, <1>2, MetadataStays DEF WorkspaceInv, DefinitionsInv, AtIndex, Inserting
  <1>8. DictionaryInv'
    BY <1>1, <1>2, NothingSaved DEF WorkspaceInv, AtAudit, Inserting
  <1> QED
    BY <1>2, <1>4, <1>5, <1>6, <1>7, <1>8 DEF WorkspaceInv, DefinitionsInv

LEMMA InsertingRequest ==
  ASSUME WorkTypes, NEW c \in Users, work[c].step \in Inserting
  PROVE  Req(c) \in RequestSet /\ Req(c).op = work[c].step
  BY DEF WorkTypes, Req, Inserting

LEMMA CreateWorkspaceKeeps ==
  ASSUME WorkspaceInv, NEW c \in Users, CreateWorkspace(c)
  PROVE  WorkspaceInv'
  <1>1. PICK q : q = Req(c)
    OBVIOUS
  <1>2. /\ work[c].step = "workspace" /\ Succeed(c) /\ workspaces' = workspaces \cup {q.id}
        /\ q.id \notin workspaces /\ UNCHANGED <<indexVars, tagVars>>
        /\ UNCHANGED <<published, properties, tables, views, indexes, dictionaries, requests>>
    BY <1>1 DEF CreateWorkspace, Duplicate, AtStep, schemaVars, indexVars, tagVars
  <1>3. q.op = "workspace"
    BY <1>1, <1>2, InsertingRequest DEF WorkspaceInv, Inserting
  <1>4. DocumentTypes'
    BY <1>2, DocumentsStay DEF WorkspaceInv, DocumentTypes
  <1>5. StoreGrows
    BY <1>2 DEF StoreGrows, WorkspaceInv, DocumentTypes, DictionarySet
  <1>6. Settled(q)' /\ ~Settled(q)
    BY <1>2, <1>3 DEF Settled
  <1>7. /\ work'[c].step = "idle" /\ \A u \in Users \ {c} : work'[u] = work[u]
    BY <1>2, Stops DEF WorkspaceInv, Succeed
  <1>8. FitInv'
    BY <1>2, <1>7, SchemaUnchanged, FitStays DEF WorkspaceInv, DefinitionsInv
  <1> QED
    BY <1>1, <1>2, <1>4, <1>5, <1>6, <1>8, Creates DEF Inserting

\* A table that is there stays as it is.
LEMMA CreateTableKeeps ==
  ASSUME WorkspaceInv, NEW c \in Users, CreateTable(c)
  PROVE  WorkspaceInv'
  <1>1. PICK q : q = Req(c)
    OBVIOUS
  <1> DEFINE n == [id |-> q.id, name |-> q.name, version |-> q.version]
  <1>2. /\ work[c].step = "table" /\ Succeed(c) /\ tables' = tables \cup {n}
        /\ (\A d \in tables : d.id # q.id) /\ UNCHANGED <<indexVars, tagVars>>
        /\ UNCHANGED <<published, properties, workspaces, views, indexes, dictionaries, requests>>
    BY <1>1 DEF CreateTable, Duplicate, AtStep, schemaVars, indexVars, tagVars
  <1>3. n.id = q.id
    OBVIOUS
  <1> HIDE DEF n
  <1>4. q.op = "table"
    BY <1>1, <1>2, InsertingRequest DEF WorkspaceInv, Inserting
  <1>5. DocumentTypes'
    <2>1. \A d, e \in tables' : d.id = e.id => d = e
      BY <1>2, <1>3 DEF WorkspaceInv, DocumentTypes
    <2> QED
      BY <1>2, <2>1 DEF WorkspaceInv, DocumentTypes
  <1>6. StoreGrows
    BY <1>2 DEF StoreGrows, WorkspaceInv, DocumentTypes, DictionarySet
  <1>7. Settled(q)' /\ ~Settled(q)
    <2>1. \E d \in tables' : d.id = q.id
      BY <1>2, <1>3
    <2> QED
      BY <1>2, <1>4, <2>1 DEF Settled
  <1>8. SchemaKept
    <2>1. \A t : Table(t) # {} => Table(t)' = Table(t)
      BY <1>2, <1>3 DEF Table
    <2> QED
      BY <1>2, <2>1 DEF SchemaKept
  <1>9. /\ work'[c].step = "idle" /\ \A u \in Users \ {c} : work'[u] = work[u]
    BY <1>2, Stops DEF WorkspaceInv, Succeed
  <1>10. FitInv'
    BY <1>2, <1>8, <1>9, FitStays DEF WorkspaceInv, DefinitionsInv
  <1> QED
    BY <1>1, <1>2, <1>5, <1>6, <1>7, <1>10, Creates DEF Inserting

\* The caller of a view has fields that the schema has.
LEMMA ViewFits ==
  ASSUME FitInv, SchemaKept, NEW c \in Users, NEW n,
         work[c].step \in {"view", "update"}, work'[c].step = "idle",
         \A u \in Users \ {c} : work'[u] = work[u],
         n.table = Req(c).table, n.fields = Req(c).fields,
         \A v \in views' : v \in views \/ v = n,
         \A v \in views : v \in views' \/ (n.id = v.id /\ n.table = v.table /\ n \in views'),
         indexes' = indexes
  PROVE  FitInv'
  <1>1. PublishedSchema(n.table) /\ ViewFieldsAllowed(n.table, n.fields)
    BY DEF FitInv, CallersFit
  <1>2. /\ \A v \in views' : PublishedSchema(v.table) /\ ViewFieldsAllowed(v.table, v.fields)
        /\ \A i \in indexes' : PublishedSchema(i.table) /\ IndexFieldAllowed(i.table, i.field)
    BY <1>1 DEF FitInv, DefinitionsFitSchema
  <1>3. ASSUME NEW u \in Users
        PROVE  /\ work'[u].step \in {"view", "update"} =>
                    /\ PublishedSchema(work'[u].request.table)
                    /\ ViewFieldsAllowed(work'[u].request.table, work'[u].request.fields)
               /\ work'[u].step = "update" =>
                    \E v \in views' :
                      v.id = work'[u].request.id /\ v.table = work'[u].request.table
               /\ work'[u].step = "index" =>
                    /\ PublishedSchema(work'[u].request.table)
                    /\ IndexFieldAllowed(work'[u].request.table, work'[u].request.field)
    <2>1. CASE u = c
      BY <2>1
    <2>2. CASE u # c
      BY <2>2 DEF FitInv, CallersFit, Req
    <2> QED
      BY <2>1, <2>2
  <1> QED
    BY <1>2, <1>3, FitMoves

LEMMA CreateViewKeeps ==
  ASSUME WorkspaceInv, NEW c \in Users, CreateView(c)
  PROVE  WorkspaceInv'
  <1>1. PICK q : q = Req(c)
    OBVIOUS
  <1> DEFINE n == [id |-> q.id, table |-> q.table, name |-> q.name, fields |-> q.fields,
                   version |-> 1]
  <1>2. /\ work[c].step = "view" /\ Succeed(c) /\ views' = views \cup {n}
        /\ (\A v \in views : v.id # q.id) /\ UNCHANGED <<indexVars, tagVars>>
        /\ UNCHANGED <<published, properties, workspaces, tables, indexes, dictionaries, requests>>
    BY <1>1 DEF CreateView, Duplicate, AtStep, schemaVars, indexVars, tagVars
  <1>3. n.id = q.id /\ n.version = 1 /\ n.table = q.table /\ n.fields = q.fields
    OBVIOUS
  <1> HIDE DEF n
  <1>4. q.op = "view" /\ q \in RequestSet
    BY <1>1, <1>2, InsertingRequest DEF WorkspaceInv, Inserting
  <1>5. q.id \in Ids /\ q.table \in Tables
    BY <1>4, RequestKinds DEF ViewRequests
  <1>6. DocumentTypes'
    <2>1. \A v, w \in views' : v.id = w.id => v = w
      BY <1>2, <1>3 DEF WorkspaceInv, DocumentTypes
    <2>2. \A v \in views' : v.version \in Nat \ {0} /\ v.id \in Ids /\ v.table \in Tables
      BY <1>2, <1>3, <1>5 DEF WorkspaceInv, DocumentTypes
    <2> QED
      BY <1>2, <2>1, <2>2 DEF WorkspaceInv, DocumentTypes
  <1>7. StoreGrows
    BY <1>2 DEF StoreGrows, WorkspaceInv, DocumentTypes, DictionarySet
  <1>8. Settled(q)' /\ ~Settled(q)
    <2>1. \E v \in views' : v.id = q.id
      BY <1>2, <1>3
    <2> QED
      BY <1>2, <1>4, <2>1 DEF Settled
  <1>9. /\ work'[c].step = "idle" /\ \A u \in Users \ {c} : work'[u] = work[u]
    BY <1>2, Stops DEF WorkspaceInv, Succeed
  <1>10. FitInv'
    BY <1>1, <1>2, <1>3, <1>9, SchemaUnchanged, ViewFits DEF WorkspaceInv, DefinitionsInv
  <1> QED
    BY <1>1, <1>2, <1>6, <1>7, <1>8, <1>10, Creates DEF Inserting

\* A view is replaced by its next version, in the same table.
LEMMA UpdateViewKeeps ==
  ASSUME WorkspaceInv, NEW c \in Users, UpdateView(c)
  PROVE  WorkspaceInv'
  <1>1. PICK q : q = Req(c)
    OBVIOUS
  <1>2. /\ work[c].step = "update"
        /\ UNCHANGED <<indexVars, tagVars, schemaVars, workspaces, tables, requests>>
        /\ UNCHANGED <<published, properties, indexes, dictionaries>>
    BY <1>1 DEF UpdateView, AtStep, schemaVars, indexVars, tagVars
  <1>3. CASE Matching(q) = {} \/ NameTaken(q)
    <2>1. Stop(c) /\ UNCHANGED <<views, acks>>
      BY <1>1, <1>3 DEF UpdateView
    <2>2. UNCHANGED <<schemaVars, workspaceVars, acks, requests>>
      BY <1>2, <2>1 DEF workspaceVars
    <2> QED
      BY <1>2, <2>1, <2>2, Leaves DEF Inserting
  <1>4. CASE ~(Matching(q) = {} \/ NameTaken(q))
    <2>1. PICK m \in views : m.id = q.id /\ m.version = q.expected
      BY <1>4 DEF Matching
    <2> DEFINE n == [id |-> m.id, table |-> m.table, name |-> q.name, fields |-> q.fields,
                     version |-> m.version + 1]
    <2>2. Matching(q) = {m}
      BY <2>1 DEF Matching, WorkspaceInv, DocumentTypes
    <2>3. views' = {v \in views : v.id # q.id} \cup {n} /\ Succeed(c)
      BY <1>1, <1>4, <2>2 DEF UpdateView
    <2>4. n.id = m.id /\ n.version = m.version + 1 /\ n.table = m.table /\ n.fields = q.fields
      OBVIOUS
    <2> HIDE DEF n
    <2>5. q.op = "update" /\ q \in RequestSet
      BY <1>1, <1>2, InsertingRequest DEF WorkspaceInv, Inserting
    <2>6. m.version \in Nat \ {0} /\ m.id \in Ids /\ m.table \in Tables
      BY DEF WorkspaceInv, DocumentTypes
    <2>7. m.table = q.table
      BY <1>1, <1>2, <2>1 DEF WorkspaceInv, DefinitionsInv, FitInv, CallersFit, DocumentTypes
    <2>8. DocumentTypes'
      <3>1. \A v, w \in views' : v.id = w.id => v = w
        BY <2>1, <2>3, <2>4 DEF WorkspaceInv, DocumentTypes
      <3>2. \A v \in views' : v.version \in Nat \ {0} /\ v.id \in Ids /\ v.table \in Tables
        BY <2>3, <2>4, <2>6 DEF WorkspaceInv, DocumentTypes
      <3> QED
        BY <1>2, <3>1, <3>2 DEF WorkspaceInv, DocumentTypes
    <2>9. \A v \in views : v \in views' \/ (v = m /\ n \in views')
      BY <2>1, <2>3 DEF WorkspaceInv, DocumentTypes
    <2>10. StoreGrows
      <3>1. \A v \in views : \E w \in views' : w.id = v.id /\ w.version >= v.version
        <4> SUFFICES ASSUME NEW v \in views
                     PROVE  \E w \in views' : w.id = v.id /\ w.version >= v.version
          OBVIOUS
        <4>1. v.version \in Nat
          BY DEF WorkspaceInv, DocumentTypes
        <4> QED
          BY <2>4, <2>6, <2>9, <4>1
      <3> QED
        BY <1>2, <3>1 DEF StoreGrows, WorkspaceInv, DocumentTypes, DictionarySet
    <2>11. Settled(q)' /\ ~Settled(q)
      <3>1. n \in views' /\ n.id = q.id /\ n.version > q.expected
        BY <2>1, <2>3, <2>4, <2>6
      <3>2. ~ \E v \in views : v.id = q.id /\ v.version > q.expected
        BY <2>1, <2>6 DEF WorkspaceInv, DocumentTypes
      <3> QED
        BY <2>5, <3>1, <3>2 DEF Settled
    <2>12. /\ work'[c].step = "idle" /\ \A u \in Users \ {c} : work'[u] = work[u]
      BY <2>3, Stops DEF WorkspaceInv, Succeed
    <2>13. \A v \in views' : v \in views \/ v = n
      BY <2>3
    <2>14. FitInv'
      BY <1>1, <1>2, <2>4, <2>7, <2>9, <2>12, <2>13, SchemaUnchanged, ViewFits
      DEF WorkspaceInv, DefinitionsInv
    <2> QED
      BY <1>1, <1>2, <2>3, <2>8, <2>10, <2>11, <2>14, Creates DEF Inserting
  <1> QED
    BY <1>3, <1>4
-----------------------------------------------------------------------------
(* CreateIndex. *)

\* An index joins those of its table as its caller leaves those that have counted.
LEMMA InsertCounts ==
  ASSUME DocumentTypes, DocumentTypes', CountInv, NEW c \in Users, NEW n, n \notin indexes,
         work[c].step = "index", work'[c].step = "ddl", n.table = Req(c).table,
         \A u \in Users \ {c} : work'[u] = work[u], indexes' = indexes \cup {n}
  PROVE  CountInv'
  <1> SUFFICES ASSUME NEW t \in Tables
               PROVE  Cardinality(IndexesOf(t)') + Cardinality(Counting(t)')
                        <= MaxIndexes + Cardinality(Users) - 1
    BY DEF CountInv
  <1>1. /\ Cardinality(Users) \in Nat /\ MaxIndexes \in Nat
        /\ IsFiniteSet(IndexesOf(t)) /\ Cardinality(IndexesOf(t)) \in Nat
        /\ IsFiniteSet(Counting(t)) /\ Cardinality(Counting(t)) \in Nat
    BY CountTypes, WorkspaceAssumption
  <1>2. Cardinality(IndexesOf(t)) + Cardinality(Counting(t)) <= MaxIndexes + Cardinality(Users) - 1
    BY DEF CountInv
  <1>3. CASE Req(c).table = t
    <2>1. /\ IndexesOf(t)' = IndexesOf(t) \cup {n} /\ n \notin IndexesOf(t)
          /\ Counting(t)' = Counting(t) \ {c} /\ c \in Counting(t)
      BY <1>3 DEF IndexesOf, Counting, Req
    <2>2. Cardinality(IndexesOf(t)') = Cardinality(IndexesOf(t)) + 1
      BY <1>1, <2>1, FS_AddElement
    <2>3. Cardinality(Counting(t)') = Cardinality(Counting(t)) - 1
      BY <1>1, <2>1, FS_RemoveElement
    <2> QED
      BY <1>1, <1>2, <2>2, <2>3
  <1>4. CASE Req(c).table # t
    <2>1. IndexesOf(t)' = IndexesOf(t) /\ Counting(t)' = Counting(t)
      BY <1>4 DEF IndexesOf, Counting, Req
    <2> QED
      BY <1>2, <2>1
  <1> QED
    BY <1>3, <1>4

\* Whoever inserts the metadata of an index is the only one with its id.
LEMMA InsertWins ==
  ASSUME WorkTypes, DocumentTypes, DocumentTypes', WinnersInv, StoreGrows, NEW c \in Users, NEW n,
         n = IndexDocument(Req(c)), \A i \in indexes : i.id # Req(c).id,
         work[c].step = "index", work'[c].step = "ddl", work'[c].request = work[c].request,
         \A u \in Users \ {c} : work'[u] = work[u], indexes' = indexes \cup {n}, acks' = acks
  PROVE  WinnersInv'
  <1>1. \A u \in Users : IndexDocument(Req(u)).id = Req(u).id
    BY DEF IndexDocument
  <1>2. \A u \in Users : AtIndex(u)' => (AtIndex(u) \/ u = c) /\ work'[u].request = work[u].request
    BY DEF AtIndex
  <1>3. \A u \in Users : AtAudit(u)' => AtAudit(u) /\ work'[u].request = work[u].request
    BY DEF AtAudit
  <1>4. \A u \in Users : AtIndex(u) => Req(u).id # Req(c).id /\ IndexDocument(Req(u)) \in indexes
    BY <1>1 DEF WinnersInv, Building
  <1>5. ASSUME NEW a \in acks PROVE Settled(a.request)'
    <2>1. PICK p : p = a.request
      OBVIOUS
    <2>2. p \in RequestSet /\ Settled(p)
      BY <2>1 DEF WinnersInv, AcksSettled
    <2>3. p.op = "index" => Settled(p)'
      BY <1>2, <2>2 DEF Settled, Req
    <2>4. p.op = "save" => \A d \in Users : AtAudit(d)' =>
            work'[d].request.scope # p.scope \/ work'[d].request.expected # p.expected
      BY <1>3, <2>2 DEF Settled, Req
    <2>5. Settled(p)'
      BY <2>2, <2>3, <2>4, SettledLasts
    <2> QED
      BY <2>1, <2>5
  <1>6. AcksSettled'
    BY <1>5 DEF WinnersInv, AcksSettled
  <1>7. OneWinner'
    BY DEF WinnersInv, OneWinner
  <1>8. Building'
    <2> SUFFICES ASSUME NEW u \in Users, AtIndex(u)'
                 PROVE  /\ IndexDocument(Req(u))' \in indexes'
                        /\ \A d \in Users \ {u} : AtIndex(d)' => Req(d)'.id # Req(u)'.id
      BY DEF Building
    <2>1. \A d \in Users : AtIndex(d)' => Req(d)' = Req(d)
      BY <1>2 DEF Req
    <2>2. IndexDocument(Req(u))' = IndexDocument(Req(u))
      BY <2>1 DEF IndexDocument
    <2>3. IndexDocument(Req(u)) \in indexes'
      BY <1>2, <1>4
    <2>4. \A d \in Users \ {u} : AtIndex(d)' => Req(d)'.id # Req(u)'.id
      BY <1>2, <1>4, <2>1 DEF WinnersInv, Building
    <2> QED
      BY <2>2, <2>3, <2>4
  <1>9. Auditing'
    <2> SUFFICES ASSUME NEW u \in Users, AtAudit(u)'
                 PROVE  LET q == work'[u].request IN
                        /\ dictionaries'[q.scope].revision > q.expected
                        /\ \A d \in Users \ {u} : AtAudit(d)' =>
                             work'[d].request.scope # q.scope \/ work'[d].request.expected # q.expected
      BY DEF Auditing, Req
    <2> DEFINE q == work[u].request
    <2>1. AtAudit(u) /\ work'[u].request = q
      BY <1>3
    <2>2. q \in SaveSet
      BY <2>1, RequestKinds DEF WorkTypes, AtAudit
    <2>3. q.scope \in Scopes /\ q.expected \in Nat
      BY <2>2 DEF SaveSet
    <2>4. dictionaries'[q.scope].revision \in Nat /\ dictionaries[q.scope].revision \in Nat
      BY <2>3 DEF DocumentTypes, DictionarySet
    <2>5. dictionaries[q.scope].revision > q.expected
      BY <2>1 DEF WinnersInv, Auditing, Req
    <2>6. dictionaries'[q.scope].revision > q.expected
      BY <2>3, <2>4, <2>5 DEF StoreGrows
    <2>7. \A d \in Users \ {u} : AtAudit(d)' =>
            work'[d].request.scope # q.scope \/ work'[d].request.expected # q.expected
      BY <1>3, <2>1 DEF WinnersInv, Auditing, Req
    <2> QED
      BY <2>1, <2>6, <2>7
  <1> QED
    BY <1>6, <1>7, <1>8, <1>9 DEF WinnersInv

LEMMA InsertIndexKeeps ==
  ASSUME WorkspaceInv, NEW c \in Users, InsertIndex(c)
  PROVE  WorkspaceInv'
  <1>1. PICK q : q = Req(c)
    OBVIOUS
  <1> DEFINE n == IndexDocument(q)
  <1>2. /\ work[c].step = "index" /\ GoTo(c, "ddl") /\ indexes' = indexes \cup {n}
        /\ (\A i \in indexes : i.id # q.id)
        /\ UNCHANGED <<published, properties, workspaces, tables, views, physical, stranded>>
        /\ UNCHANGED <<dictionaries, audit, unaudited, acks, requests>>
    BY <1>1 DEF InsertIndex, Duplicate, AtStep, schemaVars, tagVars, IndexDocument
  <1>3. q.op = "index" /\ q \in RequestSet
    BY <1>1, <1>2, InsertingRequest DEF WorkspaceInv, Inserting
  <1>4. q \in IndexRequests
    BY <1>3, RequestKinds
  <1>5. /\ n \in [id : IndexIds, table : Tables, field : Fields, direction : Directions]
        /\ n.id = q.id /\ n.table = q.table /\ n.field = q.field
    BY <1>4 DEF IndexDocument, IndexRequests
  <1> HIDE DEF n
  <1>6. /\ WorkTypes' /\ work'[c].step = "ddl" /\ work'[c].request = work[c].request
        /\ \A u \in Users \ {c} : work'[u] = work[u]
    BY <1>1, <1>2, <1>3, Goes DEF WorkspaceInv, Req
  <1>7. DocumentTypes'
    <2>1. \A i, j \in indexes' : i.id = j.id => i = j
      BY <1>2, <1>5 DEF WorkspaceInv, DocumentTypes
    <2>2. IsFiniteSet(indexes')
      BY <1>2, FS_AddElement DEF WorkspaceInv, DocumentTypes
    <2>3. indexes' \subseteq [id : IndexIds, table : Tables, field : Fields, direction : Directions]
      BY <1>2, <1>5 DEF WorkspaceInv, DocumentTypes
    <2> QED
      BY <1>2, <2>1, <2>2, <2>3 DEF WorkspaceInv, DocumentTypes
  <1>8. SavesKnow'
    BY <1>2, <1>6, SavesStillKnow DEF WorkspaceInv
  <1>9. n = IndexDocument(Req(c))
    BY <1>1 DEF n
  <1>10. StoreGrows
    BY <1>2, NoGrowth DEF WorkspaceInv
  <1>11. WinnersInv'
    BY <1>1, <1>2, <1>6, <1>7, <1>9, <1>10, InsertWins DEF WorkspaceInv
  <1>12. FitInv'
    <2>1. PublishedSchema(n.table) /\ IndexFieldAllowed(n.table, n.field)
      BY <1>1, <1>2, <1>5 DEF WorkspaceInv, DefinitionsInv, FitInv, CallersFit
    <2>2. /\ \A v \in views' : PublishedSchema(v.table) /\ ViewFieldsAllowed(v.table, v.fields)
          /\ \A i \in indexes' : PublishedSchema(i.table) /\ IndexFieldAllowed(i.table, i.field)
      BY <1>2, <2>1 DEF WorkspaceInv, DefinitionsInv, FitInv, DefinitionsFitSchema
    <2>3. ASSUME NEW u \in Users, u # c
          PROVE  /\ work'[u].step \in {"view", "update"} =>
                      /\ PublishedSchema(work'[u].request.table)
                      /\ ViewFieldsAllowed(work'[u].request.table, work'[u].request.fields)
                 /\ work'[u].step = "update" =>
                      \E v \in views' :
                        v.id = work'[u].request.id /\ v.table = work'[u].request.table
                 /\ work'[u].step = "index" =>
                      /\ PublishedSchema(work'[u].request.table)
                      /\ IndexFieldAllowed(work'[u].request.table, work'[u].request.field)
      BY <1>2, <1>6, <2>3 DEF WorkspaceInv, DefinitionsInv, FitInv, CallersFit, Req
    <2>4. SchemaKept
      BY <1>2, SchemaUnchanged
    <2> QED
      BY <1>6, <2>2, <2>3, <2>4, FitMoves
  <1>13. CountInv'
    BY <1>1, <1>2, <1>5, <1>6, <1>7, InsertCounts DEF WorkspaceInv, DefinitionsInv
  <1>14. MetadataHasIndex'
    <2> SUFFICES ASSUME NEW i \in indexes'
                 PROVE  \/ <<i.field, i.direction>> \in physical'
                        \/ i.id \in stranded'
                        \/ \E u \in Users : AtIndex(u)' /\ work'[u].request.id = i.id
      BY DEF MetadataHasIndex, AtIndex, Req
    <2>1. CASE i = n
      BY <1>1, <1>5, <1>6, <2>1 DEF AtIndex, Req
    <2>2. CASE i \in indexes
      <3>1. \/ <<i.field, i.direction>> \in physical
            \/ i.id \in stranded
            \/ \E u \in Users : AtIndex(u) /\ work[u].request.id = i.id
        BY <2>2 DEF WorkspaceInv, DefinitionsInv, MetadataHasIndex, AtIndex, Req
      <3> QED
        BY <1>2, <1>6, <3>1 DEF AtIndex
    <2> QED
      BY <1>2, <2>1, <2>2
  <1>15. DictionaryInv'
    BY <1>2, <1>6, NothingSaved DEF WorkspaceInv, AtAudit
  <1> QED
    BY <1>6, <1>7, <1>8, <1>11, <1>12, <1>13, <1>14, <1>15 DEF WorkspaceInv, DefinitionsInv

\* The metadata of a caller's index is the document with its id.
LEMMA OwnMetadata ==
  ASSUME WorkTypes, DocumentTypes, WinnersInv, NEW c \in Users, AtIndex(c)
  PROVE  /\ Req(c) \in RequestSet /\ Req(c).op = "index"
         /\ \E i \in indexes : i.id = Req(c).id
         /\ \A i \in indexes : i.id = Req(c).id =>
              i.field = Req(c).field /\ i.direction = Req(c).direction
  <1>1. Req(c) \in RequestSet /\ Req(c).op = "index"
    BY DEF WorkTypes, Req, AtIndex
  <1>2. IndexDocument(Req(c)) \in indexes
    BY DEF WinnersInv, Building
  <1>3. /\ IndexDocument(Req(c)).id = Req(c).id /\ IndexDocument(Req(c)).field = Req(c).field
        /\ IndexDocument(Req(c)).direction = Req(c).direction
    BY DEF IndexDocument
  <1> QED
    BY <1>1, <1>2, <1>3 DEF DocumentTypes

LEMMA BuildIndexKeeps ==
  ASSUME WorkspaceInv, NEW c \in Users, BuildIndex(c)
  PROVE  WorkspaceInv'
  <1>1. PICK q : q = Req(c)
    OBVIOUS
  <1>2. /\ work[c].step = "ddl" /\ AtIndex(c) /\ Succeed(c)
        /\ physical' = physical \cup {<<q.field, q.direction>>}
        /\ UNCHANGED <<published, properties, workspaces, tables, views, indexes, stranded>>
        /\ UNCHANGED <<dictionaries, audit, unaudited, requests>>
    BY <1>1 DEF BuildIndex, AtStep, AtIndex, schemaVars, tagVars
  <1>3. /\ WorkTypes' /\ work'[c].step = "idle" /\ \A u \in Users \ {c} : work'[u] = work[u]
    BY <1>2, Stops DEF WorkspaceInv, Succeed
  <1>4. DocumentTypes'
    BY <1>2, DocumentsStay DEF WorkspaceInv, DocumentTypes
  <1>5. SavesKnow'
    BY <1>2, <1>3, SavesStillKnow DEF WorkspaceInv
  <1>6. /\ q \in RequestSet /\ q.op = "index" /\ \E i \in indexes : i.id = q.id
        /\ \A i \in indexes : i.id = q.id => i.field = q.field /\ i.direction = q.direction
    BY <1>1, <1>2, OwnMetadata DEF WorkspaceInv
  <1>7. ~Settled(q)
    BY <1>1, <1>2, <1>6 DEF Settled
  <1>8. Settled(q)'
    <2>1. \A u \in Users : AtIndex(u)' => work'[u].request.id # q.id
      BY <1>1, <1>2, <1>3 DEF WorkspaceInv, WinnersInv, Building, AtIndex, Req
    <2> QED
      BY <1>2, <1>6, <2>1 DEF Settled, Req
  <1>9. StoreGrows
    BY <1>2, NoGrowth DEF WorkspaceInv
  <1>10. WinnersInv'
    BY <1>1, <1>2, <1>4, <1>6, <1>7, <1>8, <1>9, NotYetWon, NewWinner DEF WorkspaceInv
  <1>11. FitInv'
    BY <1>2, <1>3, SchemaUnchanged, FitStays DEF WorkspaceInv, DefinitionsInv
  <1>12. CountInv'
    BY <1>2, <1>3, <1>4, CountStays DEF WorkspaceInv, DefinitionsInv
  <1>13. MetadataHasIndex'
    <2>1. \A i \in indexes' : i.id = Req(c).id => <<i.field, i.direction>> \in physical'
      BY <1>1, <1>2, <1>6
    <2>2. \A u \in Users \ {c} : AtIndex(u) => AtIndex(u)' /\ work'[u].request = work[u].request
      BY <1>3 DEF AtIndex
    <2> QED
      BY <1>2, <2>1, <2>2, MetadataStays DEF WorkspaceInv, DefinitionsInv
  <1>14. DictionaryInv'
    BY <1>2, <1>3, NothingSaved DEF WorkspaceInv, AtAudit
  <1> QED
    BY <1>3, <1>4, <1>5, <1>10, <1>11, <1>12, <1>13, <1>14 DEF WorkspaceInv, DefinitionsInv

LEMMA BuildFailsKeeps ==
  ASSUME WorkspaceInv, NEW c \in Users, BuildFails(c)
  PROVE  WorkspaceInv'
  <1>1. /\ work[c].step = "ddl" /\ GoTo(c, "cleanup")
        /\ UNCHANGED <<published, properties, workspaces, tables, views, indexes, indexVars>>
        /\ UNCHANGED <<dictionaries, audit, unaudited, acks, requests>>
    BY DEF BuildFails, AtStep, schemaVars, workspaceVars, indexVars, tagVars
  <1>2. work[c].request.op = "index"
    BY <1>1 DEF WorkspaceInv, WorkTypes
  <1>3. /\ WorkTypes' /\ work'[c].step = "cleanup" /\ work'[c].request = work[c].request
        /\ \A u \in Users \ {c} : work'[u] = work[u]
    BY <1>1, <1>2, Goes DEF WorkspaceInv
  <1>4. DocumentTypes'
    BY <1>1, DocumentsStay DEF WorkspaceInv, DocumentTypes
  <1>5. SavesKnow'
    BY <1>1, <1>3, SavesStillKnow DEF WorkspaceInv
  <1>6. NoneArrives
    BY <1>1, <1>3 DEF NoneArrives, AtIndex, AtAudit
  <1>7. WinnersInv'
    BY <1>1, <1>4, <1>6, NoGrowth, NoNewWinner DEF WorkspaceInv
  <1>8. DefinitionsInv'
    BY <1>1, <1>3, <1>4, DefinitionsStay DEF WorkspaceInv, AtIndex
  <1>9. DictionaryInv'
    BY <1>1, <1>3, NothingSaved DEF WorkspaceInv, AtAudit
  <1> QED
    BY <1>3, <1>4, <1>5, <1>7, <1>8, <1>9 DEF WorkspaceInv
\* The index is removed whose id no other caller and no answer has.
LEMMA RemoveIndexKeeps ==
  ASSUME WorkspaceInv, NEW c \in Users, RemoveIndex(c)
  PROVE  WorkspaceInv'
  <1>1. PICK q : q = Req(c)
    OBVIOUS
  <1>2. /\ AtIndex(c) /\ Stop(c) /\ work[c].step = "cleanup"
        /\ indexes' = {i \in indexes : i.id # q.id}
        /\ UNCHANGED <<published, properties, workspaces, tables, views, physical, stranded>>
        /\ UNCHANGED <<dictionaries, audit, unaudited, acks, requests>>
    BY <1>1 DEF RemoveIndex, AtStep, AtIndex, schemaVars, tagVars
  <1>3. /\ WorkTypes' /\ work'[c].step = "idle" /\ \A u \in Users \ {c} : work'[u] = work[u]
    BY <1>2, Stops DEF WorkspaceInv
  <1>4. DocumentTypes'
    <2>1. indexes' \subseteq indexes
      BY <1>2
    <2>2. IsFiniteSet(indexes')
      BY <2>1, FS_Subset DEF WorkspaceInv, DocumentTypes
    <2> QED
      BY <1>2, <2>1, <2>2 DEF WorkspaceInv, DocumentTypes
  <1>5. SavesKnow'
    BY <1>2, <1>3, SavesStillKnow DEF WorkspaceInv
  <1>6. StoreGrows
    BY <1>2, NoGrowth DEF WorkspaceInv
  <1>7. NoneArrives
    BY <1>3, LeavesSecondWrite
  <1>8. AcksSettled'
    <2> SUFFICES ASSUME NEW a \in acks PROVE a.request \in RequestSet /\ Settled(a.request)'
      BY <1>2 DEF AcksSettled
    <2>1. PICK p : p = a.request
      OBVIOUS
    <2>2. p \in RequestSet /\ Settled(p)
      BY <2>1 DEF WorkspaceInv, WinnersInv, AcksSettled
    <2>3. p.op = "index" => Settled(p)'
      <3>1. p.op = "index" => p.id # q.id
        BY <1>1, <1>2, <2>2 DEF Settled
      <3> QED
        BY <1>2, <1>7, <2>2, <3>1 DEF Settled, NoneArrives, Req
    <2>4. p.op = "save" => \A d \in Users : AtAudit(d)' =>
            work'[d].request.scope # p.scope \/ work'[d].request.expected # p.expected
      BY <1>7, <2>2 DEF Settled, NoneArrives, Req
    <2>5. Settled(p)'
      BY <1>4, <1>6, <2>2, <2>3, <2>4, SettledLasts DEF WorkspaceInv
    <2> QED
      BY <2>1, <2>2, <2>5
  <1>9. OneWinner'
    BY <1>2 DEF WorkspaceInv, WinnersInv, OneWinner
  <1>10. Building'
    <2> SUFFICES ASSUME NEW u \in Users, AtIndex(u)'
                 PROVE  /\ IndexDocument(Req(u))' \in indexes'
                        /\ \A d \in Users \ {u} : AtIndex(d)' => Req(d)'.id # Req(u)'.id
      BY DEF Building
    <2>1. \A d \in Users : AtIndex(d)' => AtIndex(d) /\ Req(d)' = Req(d) /\ d # c
      BY <1>3 DEF Req, AtIndex
    <2>2. IndexDocument(Req(u))' = IndexDocument(Req(u)) /\ IndexDocument(Req(u)).id = Req(u).id
      BY <2>1 DEF IndexDocument
    <2>3. IndexDocument(Req(u)) \in indexes /\ Req(u).id # q.id
      BY <1>1, <1>2, <2>1 DEF WorkspaceInv, WinnersInv, Building
    <2>4. \A d \in Users \ {u} : AtIndex(d)' => Req(d)'.id # Req(u)'.id
      BY <2>1 DEF WorkspaceInv, WinnersInv, Building
    <2> QED
      BY <1>2, <2>2, <2>3, <2>4
  <1>11. Auditing'
    BY <1>2, <1>7 DEF WorkspaceInv, WinnersInv, Auditing, NoneArrives, Req
  <1>12. FitInv'
    BY <1>2, <1>3, SchemaUnchanged, FitStays DEF WorkspaceInv, DefinitionsInv
  <1>13. CountInv'
    BY <1>2, <1>3, <1>4, CountStays DEF WorkspaceInv, DefinitionsInv
  <1>14. MetadataHasIndex'
    <2>1. \A i \in indexes' : i.id # Req(c).id
      BY <1>1, <1>2
    <2>2. \A u \in Users \ {c} : AtIndex(u) => AtIndex(u)' /\ work'[u].request = work[u].request
      BY <1>3 DEF AtIndex
    <2> QED
      BY <1>2, <2>1, <2>2, MetadataStays DEF WorkspaceInv, DefinitionsInv
  <1>15. DictionaryInv'
    BY <1>2, <1>3, NothingSaved DEF WorkspaceInv, AtAudit
  <1> QED
    BY <1>3, <1>4, <1>5, <1>8, <1>9, <1>10, <1>11, <1>12, <1>13, <1>14, <1>15
    DEF WorkspaceInv, WinnersInv, DefinitionsInv

LEMMA LeaveIndexKeeps ==
  ASSUME WorkspaceInv, NEW c \in Users, LeaveIndex(c)
  PROVE  WorkspaceInv'
  <1>1. /\ AtIndex(c) /\ Stop(c) /\ work[c].step # "audit" /\ stranded' = stranded \cup {Req(c).id}
        /\ UNCHANGED <<published, properties, workspaces, tables, views, indexes, physical>>
        /\ UNCHANGED <<dictionaries, audit, unaudited, acks, requests>>
    BY DEF LeaveIndex, AtStep, AtIndex, schemaVars, tagVars
  <1>2. /\ WorkTypes' /\ work'[c].step = "idle" /\ \A u \in Users \ {c} : work'[u] = work[u]
    BY <1>1, Stops DEF WorkspaceInv
  <1>3. DocumentTypes'
    BY <1>1, DocumentsStay DEF WorkspaceInv, DocumentTypes
  <1>4. SavesKnow'
    BY <1>1, <1>2, SavesStillKnow DEF WorkspaceInv
  <1>5. WinnersInv'
    BY <1>1, <1>2, <1>3, NoGrowth, LeavesSecondWrite, NoNewWinner DEF WorkspaceInv
  <1>6. FitInv'
    BY <1>1, <1>2, SchemaUnchanged, FitStays DEF WorkspaceInv, DefinitionsInv
  <1>7. CountInv'
    BY <1>1, <1>2, <1>3, CountStays DEF WorkspaceInv, DefinitionsInv
  <1>8. MetadataHasIndex'
    <2>1. \A u \in Users \ {c} : AtIndex(u) => AtIndex(u)' /\ work'[u].request = work[u].request
      BY <1>2 DEF AtIndex
    <2> QED
      BY <1>1, <2>1, MetadataStays DEF WorkspaceInv, DefinitionsInv
  <1>9. DictionaryInv'
    BY <1>1, <1>2, NothingSaved DEF WorkspaceInv, AtAudit
  <1> QED
    BY <1>2, <1>3, <1>4, <1>5, <1>6, <1>7, <1>8, <1>9 DEF WorkspaceInv, DefinitionsInv
-----------------------------------------------------------------------------
(* SaveTagDictionary. *)

\* A dictionary is saved over the revision that was expected.
LEMMA SaveWins ==
  ASSUME WorkTypes, DocumentTypes, DocumentTypes', WinnersInv, StoreGrows, NEW c \in Users,
         Req(c) \in SaveSet, work[c].step = "save", work'[c].step = "audit",
         work'[c].request = work[c].request, \A u \in Users \ {c} : work'[u] = work[u],
         dictionaries[Req(c).scope].revision = Req(c).expected,
         dictionaries'[Req(c).scope].revision > Req(c).expected, UNCHANGED <<indexes, acks>>
  PROVE  WinnersInv'
  <1>1. PICK q : q = Req(c)
    OBVIOUS
  <1>2. q.scope \in Scopes /\ q.expected \in Nat
    BY <1>1 DEF SaveSet
  <1>3. \A u \in Users : AtIndex(u)' => AtIndex(u) /\ work'[u].request = work[u].request
    BY DEF AtIndex
  <1>4. \A u \in Users : AtAudit(u)' => (AtAudit(u) \/ u = c) /\ work'[u].request = work[u].request
    BY DEF AtAudit
  <1>5. \A u \in Users : AtAudit(u) =>
          /\ dictionaries[Req(u).scope].revision > Req(u).expected
          /\ Req(u).scope # q.scope \/ Req(u).expected # q.expected
    BY <1>1, <1>2 DEF WinnersInv, Auditing
  <1>6. AcksSettled'
    <2> SUFFICES ASSUME NEW a \in acks PROVE a.request \in RequestSet /\ Settled(a.request)'
      BY DEF AcksSettled
    <2>1. PICK p : p = a.request
      OBVIOUS
    <2>2. p \in RequestSet /\ Settled(p)
      BY <2>1 DEF WinnersInv, AcksSettled
    <2>3. p.op = "index" => Settled(p)'
      BY <1>3, <2>2 DEF Settled, Req
    <2>4. p.op = "save" => \A d \in Users : AtAudit(d)' =>
            work'[d].request.scope # p.scope \/ work'[d].request.expected # p.expected
      <3>1. p.op = "save" => p.scope # q.scope \/ p.expected # q.expected
        BY <1>1, <1>2, <2>2 DEF Settled
      <3> QED
        BY <1>1, <1>4, <2>2, <3>1 DEF Settled, Req
    <2>5. Settled(p)'
      BY <2>2, <2>3, <2>4, SettledLasts
    <2> QED
      BY <2>1, <2>2, <2>5
  <1>7. OneWinner'
    BY DEF WinnersInv, OneWinner
  <1>8. Building'
    BY <1>3 DEF WinnersInv, Building, Req
  <1>9. Auditing'
    <2> SUFFICES ASSUME NEW u \in Users, AtAudit(u)'
                 PROVE  LET p == work'[u].request IN
                        /\ dictionaries'[p.scope].revision > p.expected
                        /\ \A d \in Users \ {u} : AtAudit(d)' =>
                             work'[d].request.scope # p.scope \/ work'[d].request.expected # p.expected
      BY DEF Auditing, Req
    <2> DEFINE p == work[u].request
    <2>1. (AtAudit(u) \/ u = c) /\ work'[u].request = p
      BY <1>4
    <2>2. \A d \in Users \ {u} : AtAudit(d)' =>
            work'[d].request.scope # p.scope \/ work'[d].request.expected # p.expected
      BY <1>1, <1>4, <1>5, <2>1 DEF WinnersInv, Auditing, Req
    <2>3. dictionaries'[p.scope].revision > p.expected
      <3>1. CASE u = c
        BY <3>1 DEF Req
      <3>2. CASE AtAudit(u)
        <4>1. p \in SaveSet
          BY <3>2, RequestKinds DEF WorkTypes, AtAudit
        <4>2. p.scope \in Scopes /\ p.expected \in Nat
          BY <4>1 DEF SaveSet
        <4>3. dictionaries'[p.scope].revision \in Nat /\ dictionaries[p.scope].revision \in Nat
          BY <4>2 DEF DocumentTypes, DictionarySet
        <4>4. dictionaries[p.scope].revision > p.expected
          BY <1>5, <3>2 DEF Req
        <4> QED
          BY <4>2, <4>3, <4>4 DEF StoreGrows
      <3> QED
        BY <2>1, <3>1, <3>2
    <2> QED
      BY <2>1, <2>2, <2>3
  <1> QED
    BY <1>6, <1>7, <1>8, <1>9 DEF WinnersInv

LEMMA SaveKeeps ==
  ASSUME WorkspaceInv, NEW c \in Users, SaveTagDictionary(c)
  PROVE  WorkspaceInv'
  <1>1. /\ work[c].step = "save"
        /\ UNCHANGED <<published, properties, workspaces, tables, views, indexes, indexVars>>
        /\ UNCHANGED <<schemaVars, audit, unaudited, acks, requests>>
    BY DEF SaveTagDictionary, AtStep, schemaVars, indexVars
  <1>2. CASE dictionaries[Req(c).scope].revision # Req(c).expected
    <2>1. Stop(c) /\ UNCHANGED dictionaries
      BY <1>2 DEF SaveTagDictionary
    <2>2. UNCHANGED <<schemaVars, workspaceVars, acks, requests>>
      BY <1>1, <2>1 DEF workspaceVars, tagVars
    <2> QED
      BY <1>1, <2>1, <2>2, Leaves DEF Inserting
  <1>3. CASE dictionaries[Req(c).scope].revision = Req(c).expected
    <2>1. PICK q : q = Req(c)
      OBVIOUS
    <2>2. /\ WorkTypes' /\ DocumentTypes' /\ SavesKnow'
          /\ q \in SaveSet /\ work'[c].step = "audit"
          /\ work'[c].request = work[c].request /\ work'[c].read = work[c].read
          /\ \A u \in Users \ {c} : work'[u] = work[u]
          /\ work[c].read = dictionaries[q.scope]
          /\ dictionaries'[q.scope].revision = q.revision
          /\ dictionaries'[q.scope] = [revision |-> q.revision, entries |-> q.entries]
          /\ \A s \in Scopes \ {q.scope} : dictionaries'[s] = dictionaries[s]
      BY <1>3, <2>1, SaveStep DEF WorkspaceInv
    <2>3. /\ q.scope \in Scopes /\ q.expected \in Nat /\ q.revision \in Nat
          /\ \A s \in Scopes : dictionaries[s].revision \in Nat
      BY <2>2 DEF SaveSet, WorkspaceInv, DocumentTypes, DictionarySet
    <2>4. q.revision > q.expected /\ (q.expected > 0 => q.revision = q.expected + 1)
      BY <1>1, <2>1 DEF WorkspaceInv, SavesKnow
    <2>5. StoreGrows
      <3>1. \A s \in Scopes : dictionaries'[s].revision >= dictionaries[s].revision
        BY <1>3, <2>1, <2>2, <2>3, <2>4
      <3> QED
        BY <1>1, <3>1 DEF StoreGrows, WorkspaceInv, DocumentTypes
    <2>6. WinnersInv'
      BY <1>1, <1>3, <2>1, <2>2, <2>4, <2>5, SaveWins DEF WorkspaceInv
    <2>7. DefinitionsInv'
      BY <1>1, <2>2, DefinitionsStay DEF WorkspaceInv, AtIndex
    <2>8. PICK e : e = AuditEntry(c)'
      OBVIOUS
    <2>9. /\ e.scope = q.scope /\ e.version = q.revision /\ e.before = dictionaries[q.scope]
          /\ e.after = dictionaries'[q.scope]
      BY <2>1, <2>2, <2>8 DEF AuditEntry, Req
    <2>10. AllSaves' = AllSaves \cup {e}
      <3>1. \A u \in Users : AtAudit(u) => AuditEntry(u)' = AuditEntry(u) /\ u # c
        BY <1>1, <2>2 DEF AuditEntry, AtAudit, Req
      <3>2. \A u \in Users : AtAudit(u)' <=> AtAudit(u) \/ u = c
        BY <2>2 DEF AtAudit
      <3>3. \A f : f \in AllSaves' <=> \/ f \in audit' \/ f \in unaudited'
                                       \/ \E u \in Users : AtAudit(u)' /\ f = AuditEntry(u)'
        BY DEF AllSaves, AtStep, AtAudit
      <3>4. \A f : f \in AllSaves' <=> f \in AllSaves \/ f = e
        BY <1>1, <2>8, <3>1, <3>2, <3>3, SavesListed
      <3> QED
        BY <3>4
    <2>11. DictionaryInv'
      BY <1>3, <2>1, <2>2, <2>3, <2>4, <2>9, <2>10, TrailGoesOn DEF WorkspaceInv
    <2> QED
      BY <2>2, <2>6, <2>7, <2>11 DEF WorkspaceInv
  <1> QED
    BY <1>2, <1>3

\* The append of an audit entry, whether it succeeds or is lost, ends the save.
LEMMA AuditEnds ==
  ASSUME WorkspaceInv, NEW c \in Users, AtAudit(c), Stop(c),
         audit' \cup unaudited' = audit \cup unaudited \cup {AuditEntry(c)},
         UNCHANGED <<published, properties, workspaces, tables, views, indexes, indexVars>>,
         UNCHANGED <<dictionaries, requests>>
  PROVE  /\ WorkTypes' /\ DocumentTypes' /\ SavesKnow' /\ DefinitionsInv' /\ DictionaryInv'
         /\ work'[c].step = "idle" /\ \A u \in Users \ {c} : work'[u] = work[u]
  <1>1. /\ WorkTypes' /\ work'[c].step = "idle" /\ \A u \in Users \ {c} : work'[u] = work[u]
    BY Stops DEF WorkspaceInv
  <1>2. DocumentTypes'
    BY DocumentsStay DEF WorkspaceInv, DocumentTypes
  <1>3. SavesKnow'
    BY <1>1, SavesStillKnow DEF WorkspaceInv
  <1>4. DefinitionsInv'
    BY <1>1, <1>2, DefinitionsStay DEF WorkspaceInv, AtIndex, AtAudit
  <1>5. AllSaves' = AllSaves
    <2>1. \A u \in Users : AtAudit(u)' <=> AtAudit(u) /\ u # c
      BY <1>1 DEF AtAudit
    <2>2. \A u \in Users \ {c} : AtAudit(u) => AuditEntry(u)' = AuditEntry(u)
      BY <1>1 DEF AuditEntry, Req
    <2>3. \A f : f \in AllSaves' <=> \/ f \in audit' \cup unaudited'
                                     \/ \E u \in Users : AtAudit(u)' /\ f = AuditEntry(u)'
      BY DEF AllSaves, AtStep, AtAudit
    <2>4. \A f : f \in AllSaves' <=> f \in AllSaves
      BY <2>1, <2>2, <2>3, SavesListed
    <2> QED
      BY <2>4
  <1>6. DictionaryInv'
    BY <1>5, TrailStays DEF WorkspaceInv
  <1> QED
    BY <1>1, <1>2, <1>3, <1>4, <1>6

LEMMA AppendAuditKeeps ==
  ASSUME WorkspaceInv, NEW c \in Users, AppendAudit(c)
  PROVE  WorkspaceInv'
  <1>1. PICK q : q = Req(c)
    OBVIOUS
  <1>2. /\ AtAudit(c) /\ Succeed(c) /\ Stop(c) /\ audit' = audit \cup {AuditEntry(c)}
        /\ UNCHANGED <<published, properties, workspaces, tables, views, indexes, indexVars>>
        /\ UNCHANGED <<dictionaries, unaudited, requests>>
    BY DEF AppendAudit, AtStep, AtAudit, Succeed, schemaVars, indexVars
  <1>3. audit' \cup unaudited' = audit \cup unaudited \cup {AuditEntry(c)}
    BY <1>2
  <1>4. /\ WorkTypes' /\ DocumentTypes' /\ SavesKnow' /\ DefinitionsInv' /\ DictionaryInv'
        /\ work'[c].step = "idle" /\ \A u \in Users \ {c} : work'[u] = work[u]
    BY <1>2, <1>3, AuditEnds
  <1>5. q \in RequestSet /\ q.op = "save"
    BY <1>1, <1>2 DEF WorkspaceInv, WorkTypes, AtAudit, Req
  <1>6. ~Settled(q)
    BY <1>1, <1>2, <1>5 DEF Settled
  <1>7. Settled(q)'
    <2>1. \A u \in Users : AtAudit(u)' =>
            work'[u].request.scope # q.scope \/ work'[u].request.expected # q.expected
      BY <1>1, <1>2, <1>4 DEF WorkspaceInv, WinnersInv, Auditing, AtAudit, Req
    <2>2. dictionaries'[q.scope].revision > q.expected
      BY <1>1, <1>2 DEF WorkspaceInv, WinnersInv, Auditing
    <2> QED
      BY <1>5, <2>1, <2>2 DEF Settled, Req
  <1>8. StoreGrows
    BY <1>2, NoGrowth DEF WorkspaceInv
  <1>9. WinnersInv'
    BY <1>1, <1>2, <1>4, <1>5, <1>6, <1>7, <1>8, NotYetWon, NewWinner DEF WorkspaceInv
  <1> QED
    BY <1>4, <1>9 DEF WorkspaceInv

LEMMA AuditFailsKeeps ==
  ASSUME WorkspaceInv, NEW c \in Users, AuditFails(c)
  PROVE  WorkspaceInv'
  <1>1. /\ AtAudit(c) /\ Stop(c) /\ unaudited' = unaudited \cup {AuditEntry(c)}
        /\ UNCHANGED <<published, properties, workspaces, tables, views, indexes, indexVars>>
        /\ UNCHANGED <<dictionaries, audit, acks, requests>>
    BY DEF AuditFails, AtStep, AtAudit, schemaVars, indexVars
  <1>2. audit' \cup unaudited' = audit \cup unaudited \cup {AuditEntry(c)}
    BY <1>1
  <1>3. /\ WorkTypes' /\ DocumentTypes' /\ SavesKnow' /\ DefinitionsInv' /\ DictionaryInv'
        /\ work'[c].step = "idle" /\ \A u \in Users \ {c} : work'[u] = work[u]
    BY <1>1, <1>2, AuditEnds
  <1>4. WinnersInv'
    BY <1>1, <1>3, NoGrowth, LeavesSecondWrite, NoNewWinner DEF WorkspaceInv
  <1> QED
    BY <1>3, <1>4 DEF WorkspaceInv
-----------------------------------------------------------------------------
LEMMA WorkspaceKeeps ==
  ASSUME WorkspaceInv, [WorkspaceNext]_wvars
  PROVE  WorkspaceInv'
  <1>1. ASSUME NEW c \in Users,
               \/ Handle(c) \/ RefuseDuplicate(c) \/ CreateWorkspace(c) \/ CreateTable(c)
               \/ CreateView(c) \/ UpdateView(c)
        PROVE  WorkspaceInv'
    BY <1>1, HandleKeeps, RefuseKeeps, CreateWorkspaceKeeps, CreateTableKeeps, CreateViewKeeps,
       UpdateViewKeeps
  <1>2. ASSUME NEW c \in Users,
               InsertIndex(c) \/ BuildIndex(c) \/ BuildFails(c) \/ RemoveIndex(c) \/ LeaveIndex(c)
        PROVE  WorkspaceInv'
    BY <1>2, InsertIndexKeeps, BuildIndexKeeps, BuildFailsKeeps, RemoveIndexKeeps, LeaveIndexKeeps
  <1>3. ASSUME NEW c \in Users, SaveTagDictionary(c) \/ AppendAudit(c) \/ AuditFails(c)
        PROVE  WorkspaceInv'
    BY <1>3, SaveKeeps, AppendAuditKeeps, AuditFailsKeeps
  <1>4. CASE PublishVersion
    BY <1>4, PublishKeeps
  <1>5. CASE UNCHANGED wvars
    <2>1. /\ UNCHANGED <<published, properties, workspaces, tables, views, indexes, indexVars>>
          /\ UNCHANGED <<dictionaries, audit, unaudited, acks, work, requests>>
      BY <1>5 DEF wvars, schemaVars, workspaceVars, indexVars, tagVars
    <2>2. WorkTypes' /\ DocumentTypes'
      BY <2>1, DocumentsStay DEF WorkspaceInv, WorkTypes, DocumentTypes
    <2>3. SavesKnow'
      BY <2>1, SavesStillKnow DEF WorkspaceInv
    <2>4. WinnersInv'
      <3>1. NoneArrives
        BY <2>1 DEF NoneArrives, AtIndex, AtAudit
      <3> QED
        BY <2>1, <2>2, <3>1, NoGrowth, NoNewWinner DEF WorkspaceInv
    <2>5. DefinitionsInv'
      BY <2>1, <2>2, DefinitionsStay DEF WorkspaceInv, AtIndex
    <2>6. DictionaryInv'
      BY <2>1, NothingSaved DEF WorkspaceInv, AtAudit
    <2> QED
      BY <2>2, <2>3, <2>4, <2>5, <2>6 DEF WorkspaceInv
  <1> QED
    BY <1>1, <1>2, <1>3, <1>4, <1>5 DEF WorkspaceNext

LEMMA WorkspaceStarts == WorkspaceInit => WorkspaceInv
  <1> SUFFICES ASSUME WorkspaceInit PROVE WorkspaceInv
    OBVIOUS
  <1>1. work \in [Users -> WorkSet] /\ \A c \in Users : work[c].step = "idle"
    BY IdleWorks DEF WorkspaceInit
  <1>2. WorkTypes
    BY <1>1 DEF WorkTypes, Inserting
  <1>3. DocumentTypes
    <2>1. \A s \in Scopes : dictionaries[s] = NoDictionary
      BY DEF WorkspaceInit
    <2>2. NoDictionary \in DictionarySet
      BY DEF NoDictionary, DictionarySet
    <2>3. dictionaries \in [Scopes -> DictionarySet]
      BY <2>2 DEF WorkspaceInit
    <2>4. properties \in [SchemaVersions -> SUBSET Fields]
      BY WorkspaceAssumption DEF WorkspaceInit
    <2>5. \A d, e \in tables : d.id = e.id => d = e
      BY DEF WorkspaceInit
    <2>6. IsFiniteSet(indexes)
      BY FS_EmptySet DEF WorkspaceInit
    <2> QED
      BY <2>1, <2>3, <2>4, <2>5, <2>6 DEF DocumentTypes, WorkspaceInit
  <1>4. SavesKnow /\ Building /\ Auditing
    BY <1>1 DEF SavesKnow, Building, Auditing, AtIndex, AtAudit
  <1>5. AcksSettled /\ OneWinner
    BY DEF WorkspaceInit, AcksSettled, OneWinner
  <1>6. FitInv /\ MetadataHasIndex
    BY <1>1 DEF WorkspaceInit, FitInv, DefinitionsFitSchema, CallersFit, MetadataHasIndex
  <1>7. CountInv
    <2> SUFFICES ASSUME NEW t \in Tables
                 PROVE  Cardinality(IndexesOf(t)) + Cardinality(Counting(t))
                          <= MaxIndexes + Cardinality(Users) - 1
      BY DEF CountInv
    <2>1. IndexesOf(t) = {} /\ Counting(t) = {}
      BY <1>1 DEF WorkspaceInit, IndexesOf, Counting
    <2> QED
      BY <2>1, FS_EmptySet, CountTypes, <1>3, WorkspaceAssumption
  <1>8. DictionaryInv
    <2>1. \A s \in Scopes : dictionaries[s].revision = 0
      BY DEF WorkspaceInit, NoDictionary
    <2>2. \A e : e \notin AllSaves
      BY <1>1, SavesListed DEF WorkspaceInit, AtAudit
    <2> QED
      BY <2>1, <2>2 DEF DictionaryInv, SavesTyped, InForce
  <1> QED
    BY <1>2, <1>3, <1>4, <1>5, <1>6, <1>7, <1>8 DEF WorkspaceInv, WinnersInv, DefinitionsInv

\* The inductive invariant of the workspace's definitions, over every interleaving of the
\* repository's reads and writes, failed builds, lost appends and stops.
THEOREM WorkspaceInvariant == WorkspaceSpec => []WorkspaceInv
  BY WorkspaceStarts, WorkspaceKeeps, PTL DEF WorkspaceSpec

\* Of the requests for one id, one version of a view or one revision of a dictionary, at most
\* one is answered with success: the unique indexes and the filtered updates decide.
THEOREM ClaimsHaveOneWinner == WorkspaceSpec => []OneWinner
  <1>1. WorkspaceInv => OneWinner
    BY DEF WorkspaceInv, WinnersInv
  <1> QED
    BY <1>1, WorkspaceInvariant, PTL

\* Stored views and indexes fit the published schema of their table, metadata has its index
\* unless a clean-up was lost, and callers of CreateIndex that count together pass the limit
\* of a table by less than their number.
THEOREM DefinitionsServe == WorkspaceSpec => []DefinitionsAreSound
  <1>1. WorkspaceInv => DefinitionsAreSound
    <2> SUFFICES ASSUME WorkspaceInv PROVE DefinitionsAreSound
      OBVIOUS
    <2>1. DefinitionsFitSchema /\ MetadataHasIndex /\ CountInv
      BY DEF WorkspaceInv, DefinitionsInv, FitInv
    <2>2. IndexOvershootIsBounded
      <3> SUFFICES ASSUME NEW t \in Tables
                   PROVE  Cardinality(IndexesOf(t)) <= MaxIndexes + Cardinality(Users) - 1
        BY DEF IndexOvershootIsBounded
      <3>1. /\ Cardinality(Users) \in Nat /\ Cardinality(IndexesOf(t)) \in Nat
            /\ Cardinality(Counting(t)) \in Nat /\ MaxIndexes \in Nat
        BY CountTypes, WorkspaceAssumption DEF WorkspaceInv
      <3>2. Cardinality(IndexesOf(t)) + Cardinality(Counting(t))
              <= MaxIndexes + Cardinality(Users) - 1
        BY <2>1 DEF CountInv
      <3> QED
        BY <3>1, <3>2
    <2> QED
      BY <2>1, <2>2 DEF DefinitionsAreSound
  <1> QED
    BY <1>1, WorkspaceInvariant, PTL

\* The audit entries of the tag dictionaries name what each save replaced, and the dictionary
\* in force is the newest one saved, whoever saves meanwhile or dies before the append.
THEOREM DictionariesLeaveTrail == WorkspaceSpec => []DictionaryTrail
  <1>1. WorkspaceInv => DictionaryTrail
    BY TrailIsTold DEF WorkspaceInv
  <1> QED
    BY <1>1, WorkspaceInvariant, PTL
-----------------------------------------------------------------------------
(* The tags that the dictionaries allow. *)

\* A save adds one dictionary at most, so there are finitely many.
FewSaved == IsFiniteSet(Saved)

LEMMA OnlySavesWrite ==
  ASSUME [WorkspaceNext]_wvars, \A c \in Users : ~SaveTagDictionary(c)
  PROVE  UNCHANGED dictionaries
  <1>1. ASSUME NEW c \in Users,
               \/ Handle(c) \/ RefuseDuplicate(c) \/ BuildFails(c)
               \/ CreateWorkspace(c) \/ CreateTable(c) \/ CreateView(c) \/ UpdateView(c)
        PROVE  UNCHANGED dictionaries
    BY <1>1 DEF Handle, RefuseDuplicate, BuildFails, CreateWorkspace, CreateTable, CreateView,
                UpdateView, workspaceVars, tagVars
  <1>2. ASSUME NEW c \in Users,
               \/ InsertIndex(c) \/ BuildIndex(c) \/ RemoveIndex(c) \/ LeaveIndex(c)
               \/ AppendAudit(c) \/ AuditFails(c)
        PROVE  UNCHANGED dictionaries
    BY <1>2 DEF InsertIndex, BuildIndex, RemoveIndex, LeaveIndex, AppendAudit, AuditFails, tagVars
  <1>3. CASE PublishVersion \/ UNCHANGED wvars
    BY <1>3 DEF PublishVersion, wvars, workspaceVars, tagVars
  <1> QED
    BY <1>1, <1>2, <1>3 DEF WorkspaceNext

LEMMA FewStarts == WorkspaceInit => FewSaved
  <1> SUFFICES ASSUME WorkspaceInit PROVE IsFiniteSet(Saved)
    BY DEF FewSaved
  <1>1. \A s \in Scopes : dictionaries[s].revision = 0
    BY DEF WorkspaceInit, NoDictionary
  <1>2. Saved = {}
    BY <1>1 DEF Saved
  <1> QED
    BY <1>2, FS_EmptySet

LEMMA FewStay ==
  ASSUME WorkspaceInv, FewSaved, [WorkspaceNext]_wvars
  PROVE  FewSaved'
  <1>1. CASE UNCHANGED dictionaries
    BY <1>1 DEF FewSaved, Saved
  <1>2. CASE ~ UNCHANGED dictionaries
    <2>1. PICK c \in Users : SaveTagDictionary(c)
      BY <1>2, OnlySavesWrite
    <2>2. PICK s : s = Req(c).scope
      OBVIOUS
    <2>3. \A t \in Scopes \ {s} : dictionaries'[t] = dictionaries[t]
      <3>1. PICK n : dictionaries' = [dictionaries EXCEPT ![s] = n]
        BY <1>2, <2>1, <2>2 DEF SaveTagDictionary
      <3> QED
        BY <3>1 DEF WorkspaceInv, DocumentTypes
    <2>4. Saved' \subseteq Saved \cup {s}
      BY <2>3 DEF Saved
    <2>5. IsFiniteSet(Saved \cup {s})
      BY FS_AddElement DEF FewSaved
    <2> QED
      BY <2>4, <2>5, FS_Subset DEF FewSaved
  <1> QED
    BY <1>1, <1>2

\* As long as one listing returns all dictionaries, each that was saved is listed.
LEMMA AllListed ==
  ASSUME FewSaved, Cardinality(Saved) <= MaxListed
  PROVE  ListTagDictionaries = Saved
  <1> SUFFICES ASSUME NEW s \in Saved
               PROVE  Cardinality({u \in Saved : u < s}) < MaxListed
    BY DEF ListTagDictionaries
  <1> DEFINE before == {u \in Saved : u < s}
  <1>1. s \in Nat
    BY WorkspaceAssumption DEF Saved, Scopes
  <1>2. before \subseteq Saved /\ before # Saved
    <2>1. s \notin before
      BY <1>1
    <2> QED
      BY <2>1
  <1>3. /\ IsFiniteSet(before) /\ Cardinality(before) \in Nat /\ Cardinality(Saved) \in Nat
        /\ Cardinality(before) < Cardinality(Saved)
    <2> HIDE DEF before
    <2> QED
      BY <1>2, FS_Subset, FS_CardinalityType DEF FewSaved
  <1> QED
    BY <1>3, WorkspaceAssumption

\* What merging entry lists of which no two ids normalise alike yields for an id.
Distinct(entries) == \A t, u \in DOMAIN entries : Lower(t) = Lower(u) => t = u
Named(entries, id) == {t \in DOMAIN entries : Lower(t) = id}

LEMMA Merged ==
  ASSUME NEW resolved, NEW entries, Distinct(entries), NEW id
  PROVE  /\ id \in DOMAIN Merge(resolved, entries) <=>
              id \in DOMAIN resolved \/ Named(entries, id) # {}
         /\ Named(entries, id) = {} /\ id \in DOMAIN resolved =>
              Merge(resolved, entries)[id] = resolved[id]
         /\ \A t \in Named(entries, id) : Merge(resolved, entries)[id] = entries[t]
  <1> DEFINE new == {Lower(t) : t \in DOMAIN entries}
  <1>1. Merge(resolved, entries) =
          [i \in DOMAIN resolved \cup new |->
             IF i \in new THEN entries[CHOOSE t \in DOMAIN entries : Lower(t) = i]
             ELSE resolved[i]]
    BY DEF Merge
  <1>2. id \in new <=> Named(entries, id) # {}
    BY DEF Named
  <1>3. ASSUME NEW t \in Named(entries, id)
        PROVE  (CHOOSE u \in DOMAIN entries : Lower(u) = id) = t
    BY Zenon DEF Named, Distinct
  <1> HIDE DEF new
  <1> QED
    BY <1>1, <1>2, <1>3

\* The entry that decides on an id is that of the merged dictionary.
LEMMA MergedDecides ==
  ASSUME WorkspaceInv, FewSaved, Cardinality(Saved) <= MaxListed,
         NEW table \in Tables, NEW id,
         NEW merged, merged = ResolveTagDictionary(table).entries
  PROVE  /\ id \in DOMAIN merged => Deciding(table, id) = {merged[id]}
         /\ id \notin DOMAIN merged => Deciding(table, id) = {}
  <1> DEFINE Of(s) == ListedEntries(s)
  <1>1. merged = Merge(Merge(NoEntries, Of(0)), Of(table))
    BY DEF ResolveTagDictionary
  <1>2. 0 \in Scopes /\ table \in Scopes /\ table \in Nat /\ table > 0
    BY WorkspaceAssumption DEF Scopes
  <1>3. \A s \in Scopes : dictionaries[s].entries \in Entries \cup {NoEntries}
    BY DEF WorkspaceInv, DocumentTypes, DictionarySet
  <1>4. ASSUME NEW s \in {0, table}
        PROVE  /\ s \in Saved => Of(s) = dictionaries[s].entries
               /\ s \notin Saved => Of(s) = NoEntries
    BY AllListed DEF ListedEntries
  <1>5. DOMAIN NoEntries = {}
    BY DEF NoEntries
  <1>6. ASSUME NEW s \in {0, table}
        PROVE  Distinct(Of(s))
    <2>1. Of(s) \in Entries \cup {NoEntries}
      BY <1>2, <1>3, <1>4 DEF Saved
    <2> HIDE DEF Of
    <2> QED
      BY <1>5, <2>1, WorkspaceAssumption DEF Distinct
  <1>7. ASSUME NEW s \in {0, table}
        PROVE  /\ s \in Saved => Named(Of(s), id) = Naming(s, id)
               /\ s \notin Saved => Named(Of(s), id) = {}
    BY <1>4, <1>5 DEF Named, Naming
  <1>8. ASSUME NEW s \in {0, table}, NEW t \in Named(Of(s), id)
        PROVE  /\ s \in Saved /\ Of(s) = dictionaries[s].entries
               /\ {dictionaries[s].entries[r] : r \in Naming(s, id)} = {Of(s)[t]}
    <2>1. s \in Saved /\ Of(s) = dictionaries[s].entries /\ Named(Of(s), id) = Naming(s, id)
      BY <1>4, <1>7, <1>8
    <2>2. \A u \in Named(Of(s), id) : u = t
      BY <1>6, <1>8 DEF Named, Distinct
    <2> HIDE DEF Of
    <2> QED
      BY <2>1, <2>2, <1>8
  <1> DEFINE first == Merge(NoEntries, Of(0))
             scopes == {s \in Saved \cap {0, table} : Naming(s, id) # {}}
             top == {s \in scopes : \A u \in scopes : u <= s}
  <1>9. Deciding(table, id) = UNION {{dictionaries[s].entries[r] : r \in Naming(s, id)} : s \in top}
    BY DEF Deciding
  <1>10. \A s \in {0, table} : s \in scopes <=> Named(Of(s), id) # {}
    <2> HIDE DEF Of
    <2> QED
      BY <1>7
  <1>11. /\ id \in DOMAIN first <=> Named(Of(0), id) # {}
         /\ \A t \in Named(Of(0), id) : first[id] = Of(0)[t]
    <2> HIDE DEF Of
    <2> QED
      BY <1>5, <1>6, Merged
  <1>12. /\ id \in DOMAIN merged <=> id \in DOMAIN first \/ Named(Of(table), id) # {}
         /\ Named(Of(table), id) = {} /\ id \in DOMAIN first => merged[id] = first[id]
         /\ \A t \in Named(Of(table), id) : merged[id] = Of(table)[t]
    <2> HIDE DEF Of
    <2> QED
      BY <1>1, <1>6, Merged
  <1> HIDE DEF Of, first
  <1>13. CASE Named(Of(table), id) # {}
    <2>1. PICK t : t \in Named(Of(table), id)
      BY <1>13
    <2>2. top = {table}
      BY <1>2, <1>10, <1>13
    <2>3. Deciding(table, id) = {dictionaries[table].entries[r] : r \in Naming(table, id)}
      BY <1>9, <2>2
    <2> QED
      BY <1>8, <1>12, <2>1, <2>3
  <1>14. CASE Named(Of(table), id) = {} /\ Named(Of(0), id) # {}
    <2>1. PICK t : t \in Named(Of(0), id)
      BY <1>14
    <2>2. top = {0}
      BY <1>2, <1>10, <1>14
    <2>3. Deciding(table, id) = {dictionaries[0].entries[r] : r \in Naming(0, id)}
      BY <1>9, <2>2
    <2> QED
      BY <1>8, <1>11, <1>12, <1>14, <2>1, <2>3
  <1>15. CASE Named(Of(table), id) = {} /\ Named(Of(0), id) = {}
    <2>1. top = {}
      BY <1>10, <1>15
    <2> QED
      BY <1>9, <1>11, <1>12, <1>15, <2>1
  <1> QED
    BY <1>13, <1>14, <1>15

\* A record is given exactly the tags that the most specific dictionaries allow, as long as
\* the tenant has no more dictionaries than one listing returns (normalizeRecordTags), for
\* every set of tables, entry lists and tags.
THEOREM DictionariesDecide == WorkspaceSpec => []TagsFollowDictionaries
  <1>1. ASSUME WorkspaceInv, FewSaved PROVE TagsFollowDictionaries
    <2> SUFFICES ASSUME Cardinality(Saved) <= MaxListed,
                        NEW table \in Tables, NEW tags \in TagLists
                 PROVE  NormalizeRecordTags(table, tags) <=>
                          \/ Saved \cap {0, table} = {}
                          \/ /\ \A r \in tags : \E e \in Deciding(table, Lower(r)) : e.active
                             /\ \A r, u \in tags : r # u =>
                                  /\ Lower(r) # Lower(u)
                                  /\ \A e \in Deciding(table, Lower(r)),
                                        f \in Deciding(table, Lower(u)) : e.group # f.group
      BY DEF TagsFollowDictionaries
    <2>1. PICK merged : merged = ResolveTagDictionary(table).entries
      OBVIOUS
    <2>2. \A id : /\ id \in DOMAIN merged => Deciding(table, id) = {merged[id]}
                  /\ id \notin DOMAIN merged => Deciding(table, id) = {}
      BY <1>1, <2>1, MergedDecides
    <2>3. ResolveTagDictionary(table).found <=> Saved \cap {0, table} # {}
      BY <1>1, AllListed DEF ResolveTagDictionary
    <2>4. NormalizeRecordTags(table, tags) <=>
            (Saved \cap {0, table} # {} => ValidateAssignments(merged, tags))
      BY <2>1, <2>3 DEF NormalizeRecordTags
    <2>5. (\A r \in tags : \E e \in Deciding(table, Lower(r)) : e.active)
            <=> \A r \in tags : Lower(r) \in DOMAIN merged /\ merged[Lower(r)].active
      BY <2>2
    <2>6. ASSUME \A r \in tags : Lower(r) \in DOMAIN merged /\ merged[Lower(r)].active
          PROVE  \A r, u \in tags :
                   (\A e \in Deciding(table, Lower(r)), f \in Deciding(table, Lower(u)) :
                      e.group # f.group)
                   <=> merged[Lower(r)].group # merged[Lower(u)].group
      BY <2>2, <2>6
    <2>7. ValidateAssignments(merged, tags) <=>
            /\ \A r \in tags : \E e \in Deciding(table, Lower(r)) : e.active
            /\ \A r, u \in tags : r # u =>
                 /\ Lower(r) # Lower(u)
                 /\ \A e \in Deciding(table, Lower(r)), f \in Deciding(table, Lower(u)) :
                      e.group # f.group
      BY <2>5, <2>6 DEF ValidateAssignments
    <2> QED
      BY <2>4, <2>7
  <1>2. WorkspaceSpec => []FewSaved
    BY FewStarts, FewStay, WorkspaceInvariant, PTL DEF WorkspaceSpec
  <1> QED
    BY <1>1, <1>2, WorkspaceInvariant, PTL
-----------------------------------------------------------------------------
(* Induction over numbers, from the least element of a set of them. *)

LEMMA LeastNatural ==
  ASSUME NEW T, T \subseteq Nat, T # {}
  PROVE  \E x \in T : \A y \in T : x <= y
  <1>1. PICK x \in T : \A y \in T : ~(<<y, x>> \in OpToRel(<, Nat))
    BY WFMin, NatLessThanWellFounded, Zenon
  <1>2. \A y \in T : <<y, x>> \in Nat \X Nat
    OBVIOUS
  <1>3. \A y \in T : ~(y < x)
    BY <1>1, <1>2 DEF OpToRel
  <1> QED
    BY <1>3

LEMMA SetInduction ==
  ASSUME NEW S, 0 \in S, \A n \in Nat : n \in S => n + 1 \in S
  PROVE  \A n \in Nat : n \in S
  <1> SUFFICES ASSUME Nat \ S # {} PROVE FALSE
    OBVIOUS
  <1>1. PICK x \in Nat \ S : \A y \in Nat \ S : x <= y
    BY LeastNatural
  <1>2. x # 0
    OBVIOUS
  <1>3. x - 1 \in Nat /\ x - 1 \in S
    BY <1>1, <1>2
  <1> QED
    BY <1>3
-----------------------------------------------------------------------------
(* RecordQuery: the order of a view.  A record is compared by the vector of its sort *)
(* values, lexicographically.                                                       *)

SortSet == [field : {"id", "value"}, direction : {"asc", "desc"}]
Vector(sorts, f, id) == [i \in 1 .. Len(sorts) |-> IF sorts[i].field = "id" THEN id ELSE f[id]]
Less(sorts, a, b) ==
  \E i \in 1 .. Len(sorts) :
    /\ \A j \in 1 .. i - 1 : a[j] = b[j]
    /\ Precedes(a[i], b[i], sorts[i])
ById(sorts) == \E i \in 1 .. Len(sorts) : sorts[i].field = "id"

LEMMA SortsOfView ==
  ASSUME NEW v \in InitialViews \cup LaterViews
  PROVE  ViewSorts(v) \in Seq(SortSet) /\ Len(ViewSorts(v)) \in Nat \ {0} /\ ById(ViewSorts(v))
  <1>1. v.sorts \in Seq(SortSet) /\ Len(v.sorts) \in Nat
    BY QueryAssumption DEF SortSet
  <1>2. CASE \E i \in 1 .. Len(v.sorts) : v.sorts[i].field = "id"
    BY <1>1, <1>2 DEF ViewSorts, ById
  <1>3. CASE ~ \E i \in 1 .. Len(v.sorts) : v.sorts[i].field = "id"
    <2> DEFINE s == [field |-> "id", direction |-> "asc"]
    <2>1. ViewSorts(v) = Append(v.sorts, s)
      BY <1>3 DEF ViewSorts
    <2>2. s \in SortSet /\ s.field = "id"
      BY DEF SortSet
    <2> HIDE DEF s
    <2>3. /\ Append(v.sorts, s) \in Seq(SortSet) /\ Len(Append(v.sorts, s)) = Len(v.sorts) + 1
          /\ Append(v.sorts, s)[Len(v.sorts) + 1] = s
      BY <1>1, <2>2
    <2> QED
      BY <1>1, <2>1, <2>2, <2>3 DEF ById
  <1> QED
    BY <1>2, <1>3

LEMMA LessIrreflexive ==
  ASSUME NEW sorts \in Seq(SortSet), NEW a \in [1 .. Len(sorts) -> Int]
  PROVE  ~Less(sorts, a, a)
  BY DEF Less, Precedes

LEMMA LessTransitive ==
  ASSUME NEW sorts \in Seq(SortSet), NEW a \in [1 .. Len(sorts) -> Int],
         NEW b \in [1 .. Len(sorts) -> Int], NEW c \in [1 .. Len(sorts) -> Int],
         Less(sorts, a, b), Less(sorts, b, c)
  PROVE  Less(sorts, a, c)
  <1>1. PICK i \in 1 .. Len(sorts) : /\ \A k \in 1 .. i - 1 : a[k] = b[k]
                                     /\ Precedes(a[i], b[i], sorts[i])
    BY DEF Less
  <1>2. PICK j \in 1 .. Len(sorts) : /\ \A k \in 1 .. j - 1 : b[k] = c[k]
                                     /\ Precedes(b[j], c[j], sorts[j])
    BY DEF Less
  <1>3. CASE i < j
    <2>1. b[i] = c[i] /\ \A k \in 1 .. i - 1 : a[k] = c[k]
      BY <1>1, <1>2, <1>3
    <2> QED
      BY <1>1, <2>1 DEF Less
  <1>4. CASE j < i
    <2>1. a[j] = b[j] /\ \A k \in 1 .. j - 1 : a[k] = c[k]
      BY <1>1, <1>2, <1>4
    <2> QED
      BY <1>2, <2>1 DEF Less
  <1>5. CASE i = j
    <2>1. \A k \in 1 .. i - 1 : a[k] = c[k]
      BY <1>1, <1>2, <1>5
    <2>2. a[i] \in Int /\ b[i] \in Int /\ c[i] \in Int
      OBVIOUS
    <2>3. Precedes(a[i], c[i], sorts[i])
      BY <1>1, <1>2, <1>5, <2>2 DEF Precedes
    <2> QED
      BY <2>1, <2>3 DEF Less
  <1> QED
    BY <1>3, <1>4, <1>5

LEMMA LessTotal ==
  ASSUME NEW sorts \in Seq(SortSet), NEW a \in [1 .. Len(sorts) -> Int],
         NEW b \in [1 .. Len(sorts) -> Int], a # b
  PROVE  Less(sorts, a, b) \/ Less(sorts, b, a)
  <1> DEFINE T == {k \in 1 .. Len(sorts) : a[k] # b[k]}
  <1>1. T # {} /\ T \subseteq Nat
    OBVIOUS
  <1> HIDE DEF T
  <1>2. PICK i \in T : \A k \in T : i <= k
    BY <1>1, LeastNatural
  <1>3. i \in 1 .. Len(sorts) /\ a[i] # b[i] /\ a[i] \in Int /\ b[i] \in Int
    BY <1>2 DEF T
  <1>4. \A k \in 1 .. i - 1 : a[k] = b[k]
    BY <1>2, <1>3 DEF T
  <1>5. Precedes(a[i], b[i], sorts[i]) \/ Precedes(b[i], a[i], sorts[i])
    BY <1>3 DEF Precedes
  <1> QED
    BY <1>3, <1>4, <1>5 DEF Less

LEMMA LessAsymmetric ==
  ASSUME NEW sorts \in Seq(SortSet), NEW a \in [1 .. Len(sorts) -> Int],
         NEW b \in [1 .. Len(sorts) -> Int], Less(sorts, a, b)
  PROVE  ~Less(sorts, b, a)
  BY LessTransitive, LessIrreflexive

\* What does not exceed a bound is below what does.
LEMMA LessAcross ==
  ASSUME NEW sorts \in Seq(SortSet), NEW a \in [1 .. Len(sorts) -> Int],
         NEW b \in [1 .. Len(sorts) -> Int], NEW c \in [1 .. Len(sorts) -> Int],
         ~Less(sorts, b, a), Less(sorts, b, c)
  PROVE  Less(sorts, a, c)
  <1>1. a = b \/ Less(sorts, a, b)
    BY LessTotal
  <1> QED
    BY <1>1, LessTransitive

\* The values of a table: the field of each record, or Absent.
Values == Nat \cup {Absent}

LEMMA VectorTyped ==
  ASSUME NEW sorts \in Seq(SortSet), NEW f, NEW id \in Nat, f[id] \in Values
  PROVE  Vector(sorts, f, id) \in [1 .. Len(sorts) -> Int]
  BY DEF Vector, Values, Absent

\* The id is among the sorts, so two records never tie.
LEMMA NoTies ==
  ASSUME NEW sorts \in Seq(SortSet), ById(sorts), NEW f,
         NEW x \in Nat, NEW y \in Nat, x # y, f[x] \in Values, f[y] \in Values
  PROVE  Less(sorts, Vector(sorts, f, x), Vector(sorts, f, y))
         \/ Less(sorts, Vector(sorts, f, y), Vector(sorts, f, x))
  <1>1. PICK i \in 1 .. Len(sorts) : sorts[i].field = "id"
    BY DEF ById
  <1>2. Vector(sorts, f, x)[i] = x /\ Vector(sorts, f, y)[i] = y
    BY <1>1 DEF Vector
  <1>3. Vector(sorts, f, x) # Vector(sorts, f, y)
    BY <1>2
  <1> QED
    BY <1>3, VectorTyped, LessTotal
-----------------------------------------------------------------------------
(* Every finite set of records has a list in the order of the view. *)

Below(sorts, f, x, y) == Less(sorts, Vector(sorts, f, x), Vector(sorts, f, y))
Lists(sorts, f, list, ids) ==
  /\ \A id \in ids : \E i \in DOMAIN list : list[i] = id
  /\ \A i, j \in DOMAIN list : i < j => list[i] # list[j] /\ ~Below(sorts, f, list[j], list[i])

LEMMA LastOne ==
  ASSUME NEW sorts \in Seq(SortSet), NEW f, NEW T, T \subseteq Nat, \A x \in T : f[x] \in Values,
         IsFiniteSet(T), T # {}
  PROVE  \E x \in T : \A y \in T : ~Below(sorts, f, x, y)
  <1> DEFINE Above(x) == {y \in T : Below(sorts, f, x, y)}
             N == {Cardinality(Above(x)) : x \in T}
  <1>1. \A x \in T : IsFiniteSet(Above(x)) /\ Cardinality(Above(x)) \in Nat
    <2> TAKE x \in T
    <2>1. Above(x) \subseteq T
      OBVIOUS
    <2> HIDE DEF Above
    <2> QED
      BY <2>1, FS_Subset, FS_CardinalityType
  <1>2. N # {} /\ N \subseteq Nat
    <2> HIDE DEF Above
    <2> QED
      BY <1>1
  <1> HIDE DEF N
  <1>3. PICK n \in N : \A k \in N : n <= k
    BY <1>2, LeastNatural
  <1>4. PICK x \in T : n = Cardinality(Above(x))
    BY DEF N
  <1>5. \A y \in T : Cardinality(Above(x)) <= Cardinality(Above(y))
    BY <1>3, <1>4 DEF N
  <1>6. ASSUME NEW y \in T, Below(sorts, f, x, y) PROVE FALSE
    <2>1. Above(y) \subseteq Above(x)
      <3> SUFFICES ASSUME NEW z \in T, Below(sorts, f, y, z) PROVE Below(sorts, f, x, z)
        OBVIOUS
      <3>1. /\ Vector(sorts, f, x) \in [1 .. Len(sorts) -> Int]
            /\ Vector(sorts, f, y) \in [1 .. Len(sorts) -> Int]
            /\ Vector(sorts, f, z) \in [1 .. Len(sorts) -> Int]
        BY VectorTyped
      <3> QED
        BY <1>6, <3>1, LessTransitive DEF Below
    <2>2. y \in Above(x)
      BY <1>6
    <2>3. y \notin Above(y)
      <3>1. Vector(sorts, f, y) \in [1 .. Len(sorts) -> Int]
        BY VectorTyped
      <3> QED
        BY <3>1, LessIrreflexive DEF Below
    <2> HIDE DEF Above
    <2>4. Above(y) # Above(x)
      BY <2>2, <2>3
    <2>5. Cardinality(Above(y)) < Cardinality(Above(x))
      BY <1>1, <2>1, <2>4, FS_Subset
    <2> QED
      BY <1>1, <1>5, <2>5
  <1> QED
    BY <1>6

LEMMA ListExists ==
  ASSUME NEW sorts \in Seq(SortSet), NEW f, NEW D, D \subseteq Nat, \A x \in D : f[x] \in Values,
         NEW T, T \subseteq D, IsFiniteSet(T)
  PROVE  \E list \in [1 .. Cardinality(T) -> T] : Lists(sorts, f, list, T)
  <1> DEFINE Listable(U) == \E list \in [1 .. Cardinality(U) -> U] : Lists(sorts, f, list, U)
             S == {n \in Nat : \A U \in SUBSET D :
                     IsFiniteSet(U) /\ Cardinality(U) = n => Listable(U)}
  <1>1. 0 \in S
    <2> SUFFICES ASSUME NEW U \in SUBSET D, IsFiniteSet(U), Cardinality(U) = 0 PROVE Listable(U)
      OBVIOUS
    <2>1. U = {}
      BY FS_EmptySet
    <2> DEFINE e == [i \in 1 .. 0 |-> 0]
    <2>2. DOMAIN e = {} /\ e \in [1 .. Cardinality(U) -> U]
      BY <2>1
    <2> HIDE DEF e
    <2>3. Lists(sorts, f, e, U)
      BY <2>1, <2>2 DEF Lists
    <2> QED
      BY <2>2, <2>3
  <1>2. ASSUME NEW n \in Nat, n \in S PROVE n + 1 \in S
    <2> SUFFICES ASSUME NEW U \in SUBSET D, IsFiniteSet(U), Cardinality(U) = n + 1
                 PROVE  Listable(U)
      OBVIOUS
    <2>1. U # {}
      BY FS_EmptySet
    <2>2. PICK x \in U : \A y \in U : ~Below(sorts, f, x, y)
      BY <2>1, LastOne
    <2> DEFINE R == U \ {x}
    <2>3. R \in SUBSET D /\ IsFiniteSet(R) /\ Cardinality(R) = n
      <3>1. IsFiniteSet(U \ {x}) /\ Cardinality(U \ {x}) = Cardinality(U) - 1
        BY FS_RemoveElement
      <3> QED
        BY <3>1
    <2>4. PICK list \in [1 .. n -> R] : Lists(sorts, f, list, R)
      <3>1. Listable(R)
        BY <1>2, <2>3
      <3> QED
        BY <2>3, <3>1
    <2> HIDE DEF R
    <2> DEFINE more == [i \in 1 .. n + 1 |-> IF i = n + 1 THEN x ELSE list[i]]
    <2>5. /\ DOMAIN more = 1 .. n + 1 /\ more[n + 1] = x
          /\ \A i \in 1 .. n : more[i] = list[i] /\ list[i] \in R
      OBVIOUS
    <2>6. more \in [1 .. n + 1 -> U]
      BY <2>5 DEF R
    <2> HIDE DEF more
    <2>7. Lists(sorts, f, more, U)
      <3>1. \A id \in U : \E i \in DOMAIN more : more[i] = id
        <4> TAKE id \in U
        <4>1. CASE id = x
          BY <2>5, <4>1
        <4>2. CASE id # x
          <5>1. PICK i \in 1 .. n : list[i] = id
            BY <2>4, <4>2 DEF Lists, R
          <5> QED
            BY <2>5, <5>1
        <4> QED
          BY <4>1, <4>2
      <3>2. ASSUME NEW i \in 1 .. n + 1, NEW j \in 1 .. n + 1, i < j
            PROVE  more[i] # more[j] /\ ~Below(sorts, f, more[j], more[i])
        <4>1. i \in 1 .. n /\ more[i] = list[i] /\ list[i] \in U /\ list[i] # x
          BY <2>5, <3>2 DEF R
        <4>2. CASE j = n + 1
          BY <2>2, <2>5, <4>1, <4>2
        <4>3. CASE j # n + 1
          <5>1. j \in 1 .. n
            BY <4>3
          <5> QED
            BY <2>4, <2>5, <3>2, <4>1, <5>1 DEF Lists
        <4> QED
          BY <4>2, <4>3
      <3> QED
        BY <2>5, <3>1, <3>2 DEF Lists
    <2> QED
      BY <2>6, <2>7
  <1>3. Cardinality(T) \in Nat
    BY FS_CardinalityType
  <1>4. Cardinality(T) \in S
    <2> HIDE DEF S
    <2> QED
      BY <1>1, <1>2, <1>3, SetInduction
  <1> HIDE DEF Listable
  <1>5. Listable(T)
    BY <1>4
  <1> QED
    BY <1>5 DEF Listable
-----------------------------------------------------------------------------
(* What a reader has been given so far. *)

Views == InitialViews \cup LaterViews
Row == [id : Nat, value : Values]
Place(rows, id) == {i \in 1 .. Len(rows) : rows[i].id = id}

\* Every record has the values that the view sorts by.
Present(sorts, f) == \A id \in DOMAIN f : Vector(sorts, f, id) \in [1 .. Len(sorts) -> Nat]
\* A steady record was given once at most, and steady records in the order of the view.
GivenOnce(rows, steady) == \A id \in steady : \A i, j \in Place(rows, id) : i = j
GivenInOrder(sorts, f, rows, steady) ==
  \A id, other \in steady :
    \A i \in Place(rows, id), j \in Place(rows, other) : i < j => Below(sorts, f, id, other)
\* Between two pages a steady record was given if and only if the cursor is not below it.
GivenToCursor(sorts, filter, f, rows, steady, cursor) ==
  \A id \in steady :
    /\ Place(rows, id) # {} => ~Less(sorts, cursor, Vector(sorts, f, id))
    /\ Matches(f[id], filter) /\ ~Less(sorts, cursor, Vector(sorts, f, id)) => Place(rows, id) # {}
GivenAll(filter, f, rows, steady) ==
  \A id \in steady : Matches(f[id], filter) => Place(rows, id) # {}

Covered(sorts, filter, f, rows, steady, cursor, step) ==
  /\ steady \subseteq DOMAIN f
  /\ cursor = NoCursor \/ cursor \in [1 .. Len(sorts) -> Nat]
  /\ GivenOnce(rows, steady)
  /\ GivenInOrder(sorts, f, rows, steady)
  /\ step = "page" /\ cursor = NoCursor => rows = <<>>
  /\ step = "page" /\ cursor # NoCursor => GivenToCursor(sorts, filter, f, rows, steady, cursor)
  /\ step \in {"audit", "answer", "complete"} => GivenAll(filter, f, rows, steady)

ReaderSteps == {"idle", "page", "audit", "answer", "complete", "refused"}
ReaderSet ==
  [step : ReaderSteps, kind : {"list", "export"}, view : Views, cursor : Seq(Int),
   rows : Seq(Row), steady : SUBSET Nat, odd : BOOLEAN]

QueryTypes == records \in Generations /\ view \in Views /\ reader \in [Readers -> ReaderSet]

\* An export keeps to the limit, and is audited before it is answered.
ExportOk(rd) ==
  /\ rd.step \in {"audit", "answer"} => rd.kind = "export"
  /\ rd.kind = "export" => Len(rd.rows) <= MaxRows
Audited(r) == reader[r].step = "answer" => AuditEntryForExport(r) \in exports
ExportInv == \A r \in Readers : ExportOk(reader[r]) /\ Audited(r)

\* A coherent listing is of the view as it is, and a coherent reading is complete so far.
ReadOk(f, v, rd) ==
  rd.step # "idle" /\ rd.odd = FALSE =>
    /\ rd.step = "page" /\ rd.kind = "list" => rd.view = v
    /\ Present(ViewSorts(rd.view), f)
    /\ Covered(ViewSorts(rd.view), rd.view.filter, f, rd.rows, rd.steady, rd.cursor, rd.step)
ReadInv == \A r \in Readers : ReadOk(records, view, reader[r])

-----------------------------------------------------------------------------
(* A page. *)

LEMMA RecordsTyped ==
  ASSUME records \in Generations
  PROVE  /\ DOMAIN records \subseteq Nat /\ IsFiniteSet(DOMAIN records)
         /\ \A id \in DOMAIN records : records[id] \in Values
  <1>1. PICK ids \in SUBSET RecordIds : IsFiniteSet(ids) /\ records \in [ids -> FieldValues \cup {Absent}]
    BY DEF Generations
  <1>2. RecordIds \subseteq Nat /\ FieldValues \subseteq Nat
    BY QueryAssumption
  <1> QED
    BY <1>1, <1>2 DEF Values

LEMMA OrderedIsBelow ==
  ASSUME NEW sorts \in Seq(SortSet), NEW a, NEW b
  PROVE  Ordered(sorts, a, b) <=> Below(sorts, records, a, b)
  <1>1. \A i \in 1 .. Len(sorts) : /\ SortValue(a, sorts[i]) = Vector(sorts, records, a)[i]
                                   /\ SortValue(b, sorts[i]) = Vector(sorts, records, b)[i]
    BY DEF SortValue, Vector
  <1>2. \A i \in 1 .. Len(sorts) : \A j \in 1 .. i - 1 : j \in 1 .. Len(sorts)
    OBVIOUS
  <1> QED
    BY <1>1, <1>2 DEF Ordered, Below, Less

LEMMA CursorIsVector ==
  ASSUME NEW sorts, NEW id
  PROVE  Cursor(sorts, id) = Vector(sorts, records, id)
  BY DEF Cursor, Vector, SortValue

\* A record is after the cursor when the cursor is below it, if neither lacks a value.
LEMMA AfterIsBelow ==
  ASSUME NEW sorts \in Seq(SortSet), NEW cursor \in [1 .. Len(sorts) -> Nat], NEW id,
         cursor # NoCursor, Vector(sorts, records, id) \in [1 .. Len(sorts) -> Nat]
  PROVE  AfterCursor(sorts, cursor, id) <=> Less(sorts, cursor, Vector(sorts, records, id))
  <1>1. \A i \in 1 .. Len(sorts) : SortValue(id, sorts[i]) = Vector(sorts, records, id)[i]
    BY DEF SortValue, Vector
  <1>2. \A i \in 1 .. Len(sorts) : \A j \in 1 .. i - 1 : j \in 1 .. Len(sorts)
    OBVIOUS
  <1>3. ASSUME NEW i \in 1 .. Len(sorts)
        PROVE  Beyond(Vector(sorts, records, id)[i], cursor[i], sorts[i])
                 <=> Precedes(cursor[i], Vector(sorts, records, id)[i], sorts[i])
    BY DEF Beyond, Absent
  <1> QED
    BY <1>1, <1>2, <1>3 DEF AfterCursor, Less

LEMMA InOrderLists ==
  ASSUME records \in Generations, NEW sorts \in Seq(SortSet), NEW ids, ids \subseteq DOMAIN records
  PROVE  /\ IsFiniteSet(ids) /\ Cardinality(ids) \in Nat
         /\ InOrder(sorts, ids) \in [1 .. Cardinality(ids) -> ids]
         /\ Lists(sorts, records, InOrder(sorts, ids), ids)
  <1>1. /\ DOMAIN records \subseteq Nat /\ IsFiniteSet(DOMAIN records)
        /\ \A id \in DOMAIN records : records[id] \in Values
    BY RecordsTyped
  <1>2. IsFiniteSet(ids) /\ Cardinality(ids) \in Nat
    BY <1>1, FS_Subset, FS_CardinalityType
  <1>3. \E list \in [1 .. Cardinality(ids) -> ids] : Lists(sorts, records, list, ids)
    BY <1>1, <1>2, ListExists
  <1>4. ASSUME NEW list
        PROVE  Lists(sorts, records, list, ids) <=>
                 /\ \A id \in ids : \E i \in DOMAIN list : list[i] = id
                 /\ \A i, j \in DOMAIN list : i < j =>
                      list[i] # list[j] /\ ~Ordered(sorts, list[j], list[i])
    BY OrderedIsBelow DEF Lists
  <1>5. \E list \in [1 .. Cardinality(ids) -> ids] :
          /\ \A id \in ids : \E i \in DOMAIN list : list[i] = id
          /\ \A i, j \in DOMAIN list : i < j => list[i] # list[j] /\ ~Ordered(sorts, list[j], list[i])
    BY <1>3, <1>4
  <1>6. PICK l : l = InOrder(sorts, ids)
    OBVIOUS
  <1>7. /\ l \in [1 .. Cardinality(ids) -> ids]
        /\ \A id \in ids : \E i \in DOMAIN l : l[i] = id
        /\ \A i, j \in DOMAIN l : i < j => l[i] # l[j] /\ ~Ordered(sorts, l[j], l[i])
    BY <1>5, <1>6, Zenon DEF InOrder
  <1> QED
    BY <1>2, <1>4, <1>6, <1>7

Shorter(m, n) == IF m < n THEN m ELSE n

LEMMA PageFacts ==
  ASSUME records \in Generations, NEW v \in Views, NEW cursor
  PROVE  \E n \in Nat : \E list \in [1 .. n -> Selected(v, cursor)] :
           /\ Lists(ViewSorts(v), records, list, Selected(v, cursor))
           /\ Page(v, cursor).items \in Seq(Row)
           /\ Len(Page(v, cursor).items) = Shorter(n, PageSize)
           /\ \A i \in 1 .. Shorter(n, PageSize) : Page(v, cursor).items[i].id = list[i]
           /\ Page(v, cursor).next =
                IF n > PageSize THEN Vector(ViewSorts(v), records, list[PageSize]) ELSE NoCursor
  <1> DEFINE T == Selected(v, cursor)
             n == Cardinality(T)
             sorts == ViewSorts(v)
             list == InOrder(sorts, T)
             m == Shorter(n, PageSize)
  <1>1. sorts \in Seq(SortSet) /\ T \subseteq DOMAIN records
    BY SortsOfView DEF Views, Selected
  <1> HIDE DEF T, sorts
  <1>2. n \in Nat /\ list \in [1 .. n -> T] /\ Lists(sorts, records, list, T)
    BY <1>1, InOrderLists
  <1>3. PageSize \in Nat \ {0}
    BY QueryAssumption
  <1> HIDE DEF n, list
  <1>4. Len(list) = n
    BY <1>2
  <1>5. m \in Nat /\ m <= n /\ m <= PageSize
    BY <1>2, <1>3 DEF Shorter
  <1> DEFINE items == [i \in 1 .. m |-> [id |-> list[i], value |-> records[list[i]]]]
             next == IF n > PageSize THEN Cursor(sorts, list[PageSize]) ELSE NoCursor
  <1>6. Page(v, cursor) = [items |-> items, next |-> next]
    BY <1>4 DEF Page, sorts, list, T, Shorter
  <1>7. \A i \in 1 .. m : list[i] \in DOMAIN records /\ records[list[i]] \in Values /\ list[i] \in Nat
    BY <1>1, <1>2, <1>5, RecordsTyped
  <1>8. items \in Seq(Row) /\ Len(items) = m
    <2>1. \A i \in 1 .. m : [id |-> list[i], value |-> records[list[i]]] \in Row
      BY <1>7 DEF Row
    <2>2. items \in [1 .. m -> Row]
      BY <2>1
    <2> HIDE DEF items
    <2> QED
      BY <1>5, <2>2
  <1>9. \A i \in 1 .. m : items[i].id = list[i]
    OBVIOUS
  <1>10. next = IF n > PageSize THEN Vector(sorts, records, list[PageSize]) ELSE NoCursor
    BY CursorIsVector
  <1> HIDE DEF items, next
  <1>11. Page(v, cursor).items = items /\ Page(v, cursor).next = next
    BY <1>6
  <1> HIDE DEF m
  <1> QED
    BY <1>2, <1>8, <1>9, <1>10, <1>11 DEF m, T, sorts
-----------------------------------------------------------------------------
(* A reading goes on. *)

\* Writes leave the steady records alone.
LEMMA CoveredLasts ==
  ASSUME NEW sorts, NEW filter, NEW f, NEW rows, NEW steady, NEW cursor, NEW step,
         Covered(sorts, filter, f, rows, steady, cursor, step),
         NEW g, NEW kept, kept \subseteq steady, kept \subseteq DOMAIN g,
         \A id \in kept : g[id] = f[id]
  PROVE  Covered(sorts, filter, g, rows, kept, cursor, step)
  <1>1. \A id \in kept : Vector(sorts, g, id) = Vector(sorts, f, id)
    BY DEF Vector
  <1>2. GivenOnce(rows, kept)
    BY DEF Covered, GivenOnce
  <1>3. GivenInOrder(sorts, g, rows, kept)
    BY <1>1 DEF Covered, GivenInOrder, Below
  <1>4. GivenToCursor(sorts, filter, f, rows, steady, cursor)
          => GivenToCursor(sorts, filter, g, rows, kept, cursor)
    BY <1>1 DEF GivenToCursor
  <1>5. GivenAll(filter, f, rows, steady) => GivenAll(filter, g, rows, kept)
    BY DEF GivenAll
  <1> QED
    BY <1>2, <1>3, <1>4, <1>5 DEF Covered

LEMMA CoveredMoves ==
  ASSUME NEW sorts, NEW filter, NEW f, NEW rows, NEW steady, NEW cursor, NEW step,
         Covered(sorts, filter, f, rows, steady, cursor, step),
         NEW next, \/ next = "refused"
                   \/ step \in {"audit", "answer"} /\ next \in {"answer", "complete"}
  PROVE  Covered(sorts, filter, f, rows, steady, cursor, next)
  BY DEF Covered

LEMMA Joined ==
  ASSUME NEW s \in Seq(Row), NEW t \in Seq(Row)
  PROVE  /\ s \o t \in Seq(Row) /\ Len(s \o t) = Len(s) + Len(t)
         /\ \A i \in 1 .. Len(s) : (s \o t)[i] = s[i]
         /\ \A i \in 1 .. Len(t) : (s \o t)[Len(s) + i] = t[i]
  <1>1. s \o t \in Seq(Row)
    OBVIOUS
  <1>2. Len(s \o t) = Len(s) + Len(t)
    OBVIOUS
  <1>3. \A i \in 1 .. Len(s) : (s \o t)[i] = s[i]
    OBVIOUS
  <1>4. \A i \in 1 .. Len(t) : (s \o t)[Len(s) + i] = t[i]
    OBVIOUS
  <1> QED
    BY <1>1, <1>2, <1>3, <1>4

\* A page gives the steady records between the cursor and the next one.
LEMMA CoveredPage ==
  ASSUME NEW sorts \in Seq(SortSet), Len(sorts) # 0, ById(sorts), NEW filter,
         NEW f, DOMAIN f \subseteq Nat, \A id \in DOMAIN f : f[id] \in Values, Present(sorts, f),
         NEW rows \in Seq(Row), NEW steady, NEW cursor,
         Covered(sorts, filter, f, rows, steady, cursor, "page"),
         NEW T, T = {id \in DOMAIN f : /\ Matches(f[id], filter)
                                       /\ \/ cursor = NoCursor
                                          \/ Less(sorts, cursor, Vector(sorts, f, id))},
         NEW n \in Nat, NEW list \in [1 .. n -> T], Lists(sorts, f, list, T),
         NEW items \in Seq(Row), Len(items) = Shorter(n, PageSize),
         \A i \in 1 .. Shorter(n, PageSize) : items[i].id = list[i],
         NEW next,
         next = IF n > PageSize THEN Vector(sorts, f, list[PageSize]) ELSE NoCursor,
         NEW last \in {"audit", "complete"}
  PROVE  Covered(sorts, filter, f, rows \o items, steady, next,
                 IF next # NoCursor THEN "page" ELSE last)
  <1> DEFINE V(id) == Vector(sorts, f, id)
             L == Len(rows)
             m == Shorter(n, PageSize)
             all == rows \o items
  <1>1. PageSize \in Nat \ {0} /\ L \in Nat
    BY QueryAssumption
  <1>2. m \in Nat /\ m <= n /\ m <= PageSize
    BY <1>1 DEF Shorter
  <1>3. /\ all \in Seq(Row) /\ Len(all) = L + m
        /\ \A i \in 1 .. L : all[i] = rows[i]
        /\ \A i \in 1 .. m : all[L + i] = items[i]
    <2>1. /\ rows \o items \in Seq(Row) /\ Len(rows \o items) = Len(rows) + Len(items)
          /\ \A i \in 1 .. Len(rows) : (rows \o items)[i] = rows[i]
          /\ \A i \in 1 .. Len(items) : (rows \o items)[Len(rows) + i] = items[i]
      BY Joined
    <2> HIDE DEF all
    <2> QED
      BY <2>1, Zenon DEF all
  <1>4. Len(sorts) \in Nat \ {0}
    OBVIOUS
  <1>5. \A id \in DOMAIN f : V(id) \in [1 .. Len(sorts) -> Int] /\ V(id) \in [1 .. Len(sorts) -> Nat]
    BY DEF Present
  <1>6. \A i \in 1 .. n : list[i] \in DOMAIN f /\ list[i] \in T
    OBVIOUS
  <1> HIDE DEF m, L, all
  <1>7. ASSUME NEW id
        PROVE  \A i \in Place(all, id) : \/ i \in Place(rows, id)
                                         \/ i > L /\ i - L \in 1 .. m /\ list[i - L] = id
    <2> TAKE i \in Place(all, id)
    <2>1. i \in 1 .. L + m /\ all[i].id = id
      BY <1>3 DEF Place
    <2>2. CASE i <= L
      BY <1>1, <1>3, <2>1, <2>2 DEF Place, L
    <2>3. CASE i > L
      <3>1. i - L \in 1 .. m /\ L + (i - L) = i
        BY <1>1, <1>2, <2>1, <2>3
      <3>2. all[i] = items[i - L]
        BY <1>3, <3>1
      <3>3. items[i - L].id = list[i - L]
        BY <3>1 DEF m
      <3> QED
        BY <2>1, <2>3, <3>1, <3>2, <3>3
    <2> QED
      BY <1>1, <2>1, <2>2, <2>3
  <1>8. ASSUME NEW id
        PROVE  /\ Place(rows, id) \subseteq Place(all, id)
               /\ \A i \in Place(rows, id) : i \in 1 .. L
               /\ \A k \in 1 .. m : list[k] = id => L + k \in Place(all, id)
    <2>1. \A i \in Place(rows, id) : i \in 1 .. L /\ rows[i].id = id
      BY DEF Place, L
    <2>2. \A i \in Place(rows, id) : i \in 1 .. L + m /\ all[i].id = id
      BY <1>1, <1>2, <1>3, <2>1
    <2>3. ASSUME NEW k \in 1 .. m, list[k] = id
          PROVE  L + k \in Place(all, id)
      <3>1. L + k \in 1 .. L + m /\ all[L + k] = items[k] /\ items[k].id = id
        BY <1>1, <1>2, <1>3, <2>3 DEF m
      <3> QED
        BY <1>3, <3>1 DEF Place
    <2> QED
      BY <1>3, <2>1, <2>2, <2>3 DEF Place
  \* What was given before is below what the page gives.
  <1>9. ASSUME NEW id \in steady, Place(rows, id) # {}, NEW k \in 1 .. n
        PROVE  id # list[k] /\ Less(sorts, V(id), V(list[k]))
    <2>1. cursor # NoCursor
      <3>1. CASE cursor = NoCursor
        <4>1. rows = <<>>
          BY <3>1 DEF Covered
        <4> QED
          BY <1>9, <4>1 DEF Place
      <3> QED
        BY <3>1
    <2>2. cursor \in [1 .. Len(sorts) -> Nat] /\ cursor \in [1 .. Len(sorts) -> Int]
      BY <2>1 DEF Covered
    <2>3. ~Less(sorts, cursor, V(id))
      BY <1>9, <2>1 DEF Covered, GivenToCursor
    <2>4. Less(sorts, cursor, V(list[k])) /\ V(list[k]) \in [1 .. Len(sorts) -> Int]
      BY <1>5, <1>6, <2>1
    <2>5. V(id) \in [1 .. Len(sorts) -> Int]
      BY <1>5 DEF Covered
    <2> HIDE DEF V
    <2> QED
      BY <2>2, <2>3, <2>4, <2>5, LessAcross
  \* The page is in order.
  <1>10. ASSUME NEW i \in 1 .. n, NEW j \in 1 .. n, i < j
         PROVE  list[i] # list[j] /\ Less(sorts, V(list[i]), V(list[j]))
    <2>1. list[i] # list[j] /\ ~Less(sorts, V(list[j]), V(list[i]))
      BY <1>10 DEF Lists, Below
    <2>2. /\ list[i] \in Nat /\ list[j] \in Nat
          /\ f[list[i]] \in Values /\ f[list[j]] \in Values
      BY <1>6
    <2> QED
      BY <2>1, <2>2, NoTies
  <1>11. \A i, j \in 1 .. n : list[i] = list[j] => i = j
    <2> TAKE i, j \in 1 .. n
    <2>1. i < j \/ j < i \/ i = j
      OBVIOUS
    <2> QED
      BY <1>10, <2>1
  <1>12. steady \subseteq DOMAIN f
    BY DEF Covered
  <1> HIDE DEF V
  <1>13. GivenOnce(all, steady)
    <2> SUFFICES ASSUME NEW id \in steady, NEW i \in Place(all, id), NEW j \in Place(all, id)
                 PROVE  i = j
      BY DEF GivenOnce
    <2>1. CASE i \in Place(rows, id) /\ j \in Place(rows, id)
      BY <2>1 DEF Covered, GivenOnce
    <2>2. CASE Place(rows, id) # {} /\ (i \notin Place(rows, id) \/ j \notin Place(rows, id))
      <3>1. PICK k \in 1 .. m : list[k] = id
        BY <1>7, <2>2
      <3>2. k \in 1 .. n
        BY <1>2, <3>1
      <3> QED
        BY <1>9, <2>2, <3>1, <3>2
    <2>3. CASE Place(rows, id) = {}
      <3>1. /\ i - L \in 1 .. m /\ list[i - L] = id /\ j - L \in 1 .. m /\ list[j - L] = id
        BY <1>7, <2>3
      <3>2. i \in Int /\ j \in Int /\ i - L \in 1 .. n /\ j - L \in 1 .. n
        BY <1>1, <1>2, <3>1 DEF Place
      <3>3. i - L = j - L
        BY <1>11, <3>1, <3>2
      <3> QED
        BY <1>1, <3>2, <3>3
    <2> QED
      BY <2>1, <2>2, <2>3
  <1>14. GivenInOrder(sorts, f, all, steady)
    <2> SUFFICES ASSUME NEW id \in steady, NEW other \in steady,
                        NEW i \in Place(all, id), NEW j \in Place(all, other), i < j
                 PROVE  Less(sorts, V(id), V(other))
      BY DEF GivenInOrder, Below, V
    <2>1. i \in Int /\ j \in Int
      BY DEF Place
    <2>2. CASE i \in Place(rows, id) /\ j \in Place(rows, other)
      BY <2>2 DEF Covered, GivenInOrder, Below, V
    <2>3. CASE i \in Place(rows, id) /\ j \notin Place(rows, other)
      <3>1. j - L \in 1 .. n /\ list[j - L] = other
        BY <1>2, <1>7, <2>3
      <3> QED
        BY <1>9, <2>3, <3>1
    <2>4. CASE i \notin Place(rows, id) /\ j \in Place(rows, other)
      BY <1>1, <1>7, <1>8, <2>1, <2>4
    <2>5. CASE i \notin Place(rows, id) /\ j \notin Place(rows, other)
      <3>1. /\ i - L \in 1 .. n /\ list[i - L] = id /\ j - L \in 1 .. n /\ list[j - L] = other
            /\ i - L < j - L
        BY <1>1, <1>2, <1>7, <2>1, <2>5
      <3> QED
        BY <1>10, <3>1
    <2> QED
      BY <2>2, <2>3, <2>4, <2>5
  \* A steady record that matches was given before, or is of the list.
  <1>15. ASSUME NEW id \in steady, Matches(f[id], filter)
         PROVE  Place(rows, id) # {} \/ \E k \in 1 .. n : list[k] = id
    <2>1. CASE id \in T
      BY <2>1 DEF Lists
    <2>2. CASE id \notin T
      <3>1. cursor # NoCursor /\ ~Less(sorts, cursor, Vector(sorts, f, id))
        BY <1>12, <1>15, <2>2
      <3> QED
        BY <1>15, <3>1 DEF Covered, GivenToCursor
    <2> QED
      BY <2>1, <2>2
  <1>16. CASE n > PageSize
    <2> DEFINE x == list[PageSize]
    <2>1. PageSize \in 1 .. n /\ m = PageSize /\ next = V(x) /\ x \in DOMAIN f
      BY <1>1, <1>6, <1>16 DEF Shorter, m, V
    <2>2. next # NoCursor /\ next \in [1 .. Len(sorts) -> Nat]
      <3>1. next \in [1 .. Len(sorts) -> Nat]
        BY <1>5, <2>1
      <3> QED
        <4>1. 1 \in DOMAIN next
          BY <1>4, <3>1
        <4>2. DOMAIN NoCursor = {}
          BY DEF NoCursor
        <4> QED
          BY <3>1, <4>1, <4>2
    <2> HIDE DEF x
    <2>3. ASSUME NEW id \in steady, Place(all, id) # {}
          PROVE  ~Less(sorts, next, V(id))
      <3>1. V(id) \in [1 .. Len(sorts) -> Int] /\ V(x) \in [1 .. Len(sorts) -> Int]
        BY <1>5, <1>12, <2>1
      <3>2. CASE Place(rows, id) # {}
        <4>1. Less(sorts, V(id), V(x))
          BY <1>9, <2>1, <3>2 DEF x
        <4> QED
          BY <2>1, <3>1, <4>1, LessAsymmetric
      <3>3. CASE Place(rows, id) = {}
        <4>1. PICK k \in 1 .. m : list[k] = id
          BY <1>7, <2>3, <3>3
        <4>2. CASE k = PageSize
          BY <2>1, <3>1, <4>1, <4>2, LessIrreflexive DEF x
        <4>3. CASE k # PageSize
          <5>1. k \in 1 .. n /\ k < PageSize
            BY <1>1, <1>2, <2>1, <4>3
          <5>2. Less(sorts, V(id), V(x))
            BY <1>10, <2>1, <4>1, <5>1 DEF x
          <5> QED
            BY <2>1, <3>1, <5>2, LessAsymmetric
        <4> QED
          BY <4>2, <4>3
      <3> QED
        BY <3>2, <3>3
    <2>4. ASSUME NEW id \in steady, Matches(f[id], filter), ~Less(sorts, next, V(id))
          PROVE  Place(all, id) # {}
      <3>1. CASE Place(rows, id) # {}
        BY <1>8, <3>1
      <3>2. CASE Place(rows, id) = {}
        <4>1. PICK k \in 1 .. n : list[k] = id
          BY <1>15, <2>4, <3>2
        <4>2. ~(PageSize < k)
          BY <1>10, <2>1, <2>4, <4>1 DEF x
        <4>3. k \in 1 .. m
          BY <1>1, <2>1, <4>2
        <4> QED
          BY <1>8, <4>1, <4>3
      <3> QED
        BY <3>1, <3>2
    <2>5. GivenToCursor(sorts, filter, f, all, steady, next)
      BY <2>3, <2>4 DEF GivenToCursor, V
    <2> QED
      BY <1>12, <1>13, <1>14, <2>2, <2>5 DEF Covered, all
  <1>17. CASE ~(n > PageSize)
    <2>1. next = NoCursor /\ m = n
      BY <1>1, <1>17 DEF m, Shorter
    <2>2. GivenAll(filter, f, all, steady)
      <3> SUFFICES ASSUME NEW id \in steady, Matches(f[id], filter)
                   PROVE  Place(all, id) # {}
        BY DEF GivenAll
      <3> QED
        BY <1>8, <1>15, <2>1
    <2> QED
      BY <1>12, <1>13, <1>14, <2>1, <2>2 DEF Covered, all
  <1> QED
    BY <1>16, <1>17
-----------------------------------------------------------------------------
(* The columns of an export. *)

ColumnSet == STRING
Chosen(columns, n, f) ==
  /\ f \in [0 .. n -> Seq(ColumnSet)] /\ f[0] = <<>>
  /\ \A i \in 1 .. n : f[i] = IF columns[i] \in Forbidden \/ Contains(f[i - 1], columns[i])
                              THEN f[i - 1] ELSE Append(f[i - 1], columns[i])

LEMMA OneMoreColumn ==
  ASSUME NEW s \in Seq(ColumnSet), NEW x \in ColumnSet
  PROVE  Append(s, x) \in Seq(ColumnSet)
  OBVIOUS

LEMMA ChosenExists ==
  ASSUME NEW columns \in Seq(ColumnSet)
  PROVE  \E f : Chosen(columns, Len(columns), f)
  <1> DEFINE S == {n \in Nat : n <= Len(columns) => \E f : Chosen(columns, n, f)}
  <1>1. 0 \in S
    <2> DEFINE e == [i \in 0 .. 0 |-> <<>>]
    <2>1. <<>> \in Seq(ColumnSet)
      OBVIOUS
    <2>2. e \in [0 .. 0 -> Seq(ColumnSet)] /\ e[0] = <<>> /\ 1 .. 0 = {}
      BY <2>1
    <2> HIDE DEF e
    <2>3. Chosen(columns, 0, e)
      BY <2>2 DEF Chosen
    <2> QED
      BY <2>3
  <1>2. ASSUME NEW n \in Nat, n \in S PROVE n + 1 \in S
    <2> SUFFICES ASSUME n + 1 <= Len(columns) PROVE \E f : Chosen(columns, n + 1, f)
      OBVIOUS
    <2>1. PICK f : Chosen(columns, n, f)
      BY <1>2
    <2>2. f[n] \in Seq(ColumnSet) /\ columns[n + 1] \in ColumnSet
      BY <2>1 DEF Chosen
    <2> DEFINE x == IF columns[n + 1] \in Forbidden \/ Contains(f[n], columns[n + 1])
                    THEN f[n] ELSE Append(f[n], columns[n + 1])
    <2>3. x \in Seq(ColumnSet)
      <3>1. Append(f[n], columns[n + 1]) \in Seq(ColumnSet)
        BY <2>2, OneMoreColumn
      <3> QED
        BY <2>2, <3>1
    <2> HIDE DEF x
    <2> DEFINE g == [i \in 0 .. n + 1 |-> IF i = n + 1 THEN x ELSE f[i]]
    <2>4. /\ g \in [0 .. n + 1 -> Seq(ColumnSet)] /\ g[n + 1] = x
          /\ \A i \in 0 .. n : g[i] = f[i]
      BY <2>1, <2>3 DEF Chosen
    <2> HIDE DEF g
    <2>5. ASSUME NEW i \in 1 .. n + 1
          PROVE  g[i] = IF columns[i] \in Forbidden \/ Contains(g[i - 1], columns[i])
                        THEN g[i - 1] ELSE Append(g[i - 1], columns[i])
      <3>1. CASE i = n + 1
        <4>1. g[i] = x /\ g[i - 1] = f[n]
          BY <2>4, <3>1
        <4> QED
          BY <3>1, <4>1 DEF x
      <3>2. CASE i # n + 1
        <4>1. i \in 1 .. n /\ g[i] = f[i] /\ g[i - 1] = f[i - 1]
          BY <2>4, <3>2
        <4> QED
          BY <2>1, <4>1 DEF Chosen
      <3> QED
        BY <3>1, <3>2
    <2>6. g[0] = <<>>
      BY <2>1, <2>4 DEF Chosen
    <2>7. Chosen(columns, n + 1, g)
      BY <2>4, <2>5, <2>6 DEF Chosen
    <2> QED
      BY <2>7
  <1>3. Len(columns) \in Nat
    OBVIOUS
  <1>4. Len(columns) \in S
    <2> HIDE DEF S
    <2> QED
      BY <1>1, <1>2, <1>3, SetInduction
  <1> QED
    BY <1>3, <1>4

LEMMA AllowedColumns ==
  ASSUME NEW columns \in Seq(ColumnSet)
  PROVE  Allowed(columns) \in Seq(ColumnSet)
  <1> DEFINE L == Len(columns)
             Next(f, i) == IF i = 0 THEN <<>>
                           ELSE IF columns[i] \in Forbidden \/ Contains(f[i - 1], columns[i])
                           THEN f[i - 1] ELSE Append(f[i - 1], columns[i])
             m == CHOOSE f : f = [i \in 0 .. L |-> Next(f, i)]
  <1>1. L \in Nat
    OBVIOUS
  <1>2. PICK f : Chosen(columns, L, f)
    BY ChosenExists
  <1>3. f = [i \in 0 .. L |-> Next(f, i)]
    <2>1. f = [i \in 0 .. L |-> f[i]]
      BY <1>2 DEF Chosen
    <2>2. \A i \in 0 .. L : f[i] = Next(f, i)
      <3> TAKE i \in 0 .. L
      <3>1. CASE i = 0
        BY <1>2, <3>1 DEF Chosen
      <3>2. CASE i # 0
        <4>1. i \in 1 .. L
          BY <1>1, <3>2
        <4> QED
          BY <1>2, <3>2, <4>1 DEF Chosen
      <3> QED
        BY <3>1, <3>2
    <2> HIDE DEF Next
    <2> QED
      BY <2>1, <2>2, Zenon
  <1>4. m = [i \in 0 .. L |-> Next(m, i)]
    BY <1>3, Zenon
  <1>5. Allowed(columns) = m[L]
    BY Zenon DEF Allowed
  <1> HIDE DEF m
  <1> DEFINE S == {n \in Nat : n <= L => m[n] \in Seq(ColumnSet)}
  <1>6. \A i \in 0 .. L : m[i] = Next(m, i)
    <2> HIDE DEF Next
    <2> QED
      BY <1>4, Zenon
  <1>7. 0 \in S
    <2>1. <<>> \in Seq(ColumnSet)
      OBVIOUS
    <2>2. m[0] = <<>>
      BY <1>1, <1>6
    <2> QED
      BY <2>1, <2>2
  <1>8. ASSUME NEW n \in Nat, n \in S PROVE n + 1 \in S
    <2> SUFFICES ASSUME n + 1 <= L PROVE m[n + 1] \in Seq(ColumnSet)
      OBVIOUS
    <2>1. /\ n + 1 \in 0 .. L /\ n + 1 # 0 /\ (n + 1) - 1 = n /\ m[n] \in Seq(ColumnSet)
          /\ columns[n + 1] \in ColumnSet
      BY <1>1, <1>8
    <2>2. \/ m[n + 1] = m[n] \/ m[n + 1] = Append(m[n], columns[n + 1])
      BY <1>6, <2>1
    <2> QED
      BY <2>1, <2>2, OneMoreColumn
  <1>9. L \in S
    <2> HIDE DEF S
    <2> QED
      BY <1>1, <1>7, <1>8, SetInduction
  <1> QED
    BY <1>1, <1>5, <1>9

\* Every row of an export has a column for the id of its record.
LEMMA IdIsExported ==
  ASSUME NEW v \in Views
  PROVE  Len(ExportColumns(v)) \in Nat /\ \E c \in 1 .. Len(ExportColumns(v)) : ExportColumns(v)[c] = "id"
  <1> DEFINE a == Allowed(v.columns)
  <1>1. a \in Seq(ColumnSet)
    <2>1. v.columns \in Seq(ColumnSet)
      BY QueryAssumption DEF Views, ColumnSet
    <2> QED
      BY <2>1, AllowedColumns
  <1> HIDE DEF a
  <1>2. CASE Contains(a, "id")
    <2>1. ExportColumns(v) = a
      BY <1>2 DEF ExportColumns, a
    <2> QED
      BY <1>1, <1>2, <2>1 DEF Contains
  <1>3. CASE ~Contains(a, "id")
    <2>1. ExportColumns(v) = <<"id">> \o a
      BY <1>3 DEF ExportColumns, a
    <2>2. <<"id">> \in Seq({"id"}) /\ a \in Seq(ColumnSet \cup {"id"}) /\ <<"id">> \in Seq(ColumnSet \cup {"id"})
      BY <1>1
    <2>3. Len(<<"id">> \o a) = Len(a) + 1 /\ Len(a) \in Nat
      BY <1>1, <2>2
    <2>4. (<<"id">> \o a)[1] = "id"
      BY <2>2
    <2> QED
      BY <2>1, <2>3, <2>4
  <1> QED
    BY <1>2, <1>3

LEMMA Encoded ==
  ASSUME NEW v \in Views, NEW rows \in Seq(Row)
  PROVE  /\ Len(Encode(rows, ExportColumns(v))) = Len(rows)
         /\ \A i \in 1 .. Len(rows) : \E c \in 1 .. Len(ExportColumns(v)) :
              Encode(rows, ExportColumns(v))[i][c] = {rows[i].id}
  <1> DEFINE columns == ExportColumns(v)
             body == Encode(rows, columns)
  <1>1. Len(columns) \in Nat /\ \E c \in 1 .. Len(columns) : columns[c] = "id"
    BY IdIsExported
  <1> HIDE DEF columns
  <1>2. body = [i \in 1 .. Len(rows) |-> [c \in 1 .. Len(columns) |-> ExportValue(rows[i], columns[c])]]
    BY DEF Encode, columns
  <1> HIDE DEF body
  <1>3. Len(body) = Len(rows)
    BY <1>2
  <1>4. PICK c \in 1 .. Len(columns) : columns[c] = "id"
    BY <1>1
  <1>5. \A i \in 1 .. Len(rows) : body[i][c] = ExportValue(rows[i], "id")
    BY <1>2, <1>4
  <1>6. \A row : ExportValue(row, "id") = {row.id}
    BY DEF ExportValue
  <1> QED
    BY <1>3, <1>4, <1>5, <1>6 DEF columns, body
-----------------------------------------------------------------------------
(* The steps of a reader. *)

QueryInv == QueryTypes /\ ExportInv /\ DeliveredIsAudited /\ ReadInv

\* The other readers see nothing of a step that leaves the table and the view alone.
LEMMA OthersRead ==
  ASSUME QueryInv, NEW r \in Readers, \A q \in Readers \ {r} : reader'[q] = reader[q],
         reader' \in [Readers -> ReaderSet], UNCHANGED <<records, view>>, exports \subseteq exports',
         ExportOk(reader'[r]), Audited(r)', ReadOk(records, view, reader'[r])
  PROVE  QueryTypes' /\ ExportInv' /\ ReadInv'
  <1>1. QueryTypes'
    BY DEF QueryInv, QueryTypes
  <1>2. ExportInv'
    <2> SUFFICES ASSUME NEW q \in Readers PROVE ExportOk(reader'[q]) /\ Audited(q)'
      BY DEF ExportInv
    <2>1. CASE q = r
      BY <2>1
    <2>2. CASE q # r
      <3>1. reader'[q] = reader[q] /\ ExportOk(reader[q]) /\ Audited(q)
        BY <2>2 DEF QueryInv, ExportInv
      <3>2. Audited(q)'
        BY <3>1 DEF Audited, AuditEntryForExport
      <3> QED
        BY <3>1, <3>2
    <2> QED
      BY <2>1, <2>2
  <1>3. ReadInv'
    <2> SUFFICES ASSUME NEW q \in Readers PROVE ReadOk(records, view, reader'[q])
      BY DEF ReadInv
    <2> QED
      BY DEF QueryInv, ReadInv
  <1> QED
    BY <1>1, <1>2, <1>3

LEMMA DeliveredStays ==
  ASSUME DeliveredIsAudited, exports \subseteq exports', UNCHANGED delivered
  PROVE  DeliveredIsAudited'
  BY DEF DeliveredIsAudited

LEMMA EmptyPlaces ==
  ASSUME NEW id
  PROVE  Place(<<>>, id) = {}
  BY DEF Place

\* Without a record that lacks the field sorted by, every record has its sort values.
LEMMA NoneLacks ==
  ASSUME records \in Generations, NEW v \in Views, ~Lacks(v)
  PROVE  Present(ViewSorts(v), records)
  <1> SUFFICES ASSUME NEW id \in DOMAIN records
               PROVE  Vector(ViewSorts(v), records, id) \in [1 .. Len(ViewSorts(v)) -> Nat]
    BY DEF Present
  <1>1. id \in Nat /\ records[id] \in Values
    BY RecordsTyped
  <1>2. ViewSorts(v) \in Seq(SortSet)
    BY SortsOfView DEF Views
  <1>3. CASE records[id] # Absent
    <2>1. records[id] \in Nat
      BY <1>1, <1>3 DEF Values
    <2> QED
      BY <1>1, <1>2, <2>1 DEF Vector
  <1>4. CASE records[id] = Absent
    <2>1. v.sorts \in Seq(SortSet)
      BY QueryAssumption DEF SortSet, Views
    <2>2. \A i \in 1 .. Len(v.sorts) : v.sorts[i].field = "id"
      BY <1>4 DEF Lacks
    <2>3. \A i \in 1 .. Len(ViewSorts(v)) : ViewSorts(v)[i].field = "id"
      <3>1. CASE ViewSorts(v) = v.sorts
        BY <2>2, <3>1
      <3>2. CASE ViewSorts(v) # v.sorts
        <4> DEFINE s == [field |-> "id", direction |-> "asc"]
        <4>1. ViewSorts(v) = Append(v.sorts, s)
          BY <3>2 DEF ViewSorts
        <4>2. s \in SortSet /\ s.field = "id"
          BY DEF SortSet
        <4> HIDE DEF s
        <4>3. /\ Len(Append(v.sorts, s)) = Len(v.sorts) + 1
              /\ Append(v.sorts, s)[Len(v.sorts) + 1] = s
              /\ \A i \in 1 .. Len(v.sorts) : Append(v.sorts, s)[i] = v.sorts[i]
          BY <2>1, <4>2
        <4>4. \A i \in 1 .. Len(v.sorts) + 1 : i = Len(v.sorts) + 1 \/ i \in 1 .. Len(v.sorts)
          BY <2>1
        <4> QED
          BY <2>2, <4>1, <4>2, <4>3, <4>4
      <3> QED
        BY <3>1, <3>2
    <2> QED
      BY <1>1, <1>2, <2>3 DEF Vector
  <1> QED
    BY <1>3, <1>4

LEMMA StartKeeps ==
  ASSUME QueryInv, NEW r \in Readers, StartList(r) \/ StartExport(r)
  PROVE  QueryInv'
  <1>1. PICK kind \in {"list", "export"} : reader' = [reader EXCEPT ![r] = Reading(kind)]
    BY DEF StartList, StartExport
  <1>2. UNCHANGED <<records, view, exports, delivered>>
    BY DEF StartList, StartExport
  <1> DEFINE n == Reading(kind)
  <1>3. /\ n.step = "page" /\ n.kind = kind /\ n.view = view /\ n.cursor = NoCursor
        /\ n.rows = <<>> /\ n.steady = DOMAIN records /\ n.odd = Lacks(view)
    BY DEF Reading, NotReading
  <1>4. n \in ReaderSet
    <2>1. view \in Views /\ DOMAIN records \subseteq Nat
      BY RecordsTyped DEF QueryInv, QueryTypes
    <2>2. NoCursor \in Seq(Int) /\ <<>> \in Seq(Row)
      BY DEF NoCursor
    <2>3. NotReading \in ReaderSet
      BY <2>1, <2>2 DEF NotReading, ReaderSet, ReaderSteps
    <2>4. PICK lacks \in BOOLEAN : lacks = Lacks(view)
      BY DEF Lacks
    <2>5. n = [NotReading EXCEPT !.step = "page", !.kind = kind, !.steady = DOMAIN records,
                                 !.odd = lacks]
      BY <2>4 DEF Reading
    <2> HIDE DEF n
    <2> QED
      BY <2>1, <2>3, <2>5 DEF ReaderSet, ReaderSteps
  <1> HIDE DEF n
  <1>5. /\ reader' \in [Readers -> ReaderSet] /\ reader'[r] = n
        /\ \A q \in Readers \ {r} : reader'[q] = reader[q]
    BY <1>1, <1>4 DEF QueryInv, QueryTypes, n
  <1>6. ExportOk(n)
    <2>1. Len(<<>>) <= MaxRows
      BY QueryAssumption
    <2> QED
      BY <1>3, <2>1 DEF ExportOk
  <1>7. Audited(r)'
    BY <1>3, <1>5 DEF Audited
  <1>8. ReadOk(records, view, n)
    <2> SUFFICES ASSUME n.odd = FALSE
                 PROVE  /\ Present(ViewSorts(view), records)
                        /\ Covered(ViewSorts(view), view.filter, records, <<>>, DOMAIN records,
                                   NoCursor, "page")
      BY <1>3 DEF ReadOk
    <2>1. Present(ViewSorts(view), records)
      BY <1>3, NoneLacks DEF QueryInv, QueryTypes
    <2> QED
      BY <2>1, EmptyPlaces DEF Covered, GivenOnce, GivenInOrder
  <1>9. QueryTypes' /\ ExportInv' /\ ReadInv'
    BY <1>2, <1>5, <1>6, <1>7, <1>8, OthersRead
  <1> QED
    BY <1>2, <1>9, DeliveredStays DEF QueryInv

LEMMA PageTyped ==
  ASSUME records \in Generations, NEW v \in Views, NEW cursor
  PROVE  Page(v, cursor).items \in Seq(Row) /\ Page(v, cursor).next \in Seq(Int)
  <1>0. PICK n \in Nat : \E list \in [1 .. n -> Selected(v, cursor)] :
          /\ Page(v, cursor).items \in Seq(Row)
          /\ Page(v, cursor).next =
               IF n > PageSize THEN Vector(ViewSorts(v), records, list[PageSize]) ELSE NoCursor
    BY PageFacts
  <1>1. PICK list \in [1 .. n -> Selected(v, cursor)] :
          /\ Page(v, cursor).items \in Seq(Row)
          /\ Page(v, cursor).next =
               IF n > PageSize THEN Vector(ViewSorts(v), records, list[PageSize]) ELSE NoCursor
    BY <1>0
  <1>2. PageSize \in Nat \ {0}
    BY QueryAssumption
  <1>3. CASE n > PageSize
    <2>1. list[PageSize] \in DOMAIN records
      BY <1>2, <1>3 DEF Selected
    <2>2. ViewSorts(v) \in Seq(SortSet) /\ Len(ViewSorts(v)) \in Nat
      BY SortsOfView DEF Views
    <2>3. Vector(ViewSorts(v), records, list[PageSize]) \in [1 .. Len(ViewSorts(v)) -> Int]
      BY <2>1, <2>2, RecordsTyped, VectorTyped
    <2> QED
      BY <1>1, <1>3, <2>2, <2>3
  <1>4. CASE ~(n > PageSize)
    BY <1>1, <1>4 DEF NoCursor
  <1> QED
    BY <1>1, <1>3, <1>4

\* A page of a coherent reading leaves it complete so far.
LEMMA PageReads ==
  ASSUME records \in Generations, NEW rd \in ReaderSet, rd.step = "page", rd.odd = FALSE,
         ReadOk(records, view, rd), NEW last \in {"audit", "complete"}
  PROVE  LET page == Page(rd.view, rd.cursor)
         IN  Covered(ViewSorts(rd.view), rd.view.filter, records, rd.rows \o page.items, rd.steady,
                     page.next, IF page.next # NoCursor THEN "page" ELSE last)
  <1> DEFINE v == rd.view
             cursor == rd.cursor
             sorts == ViewSorts(v)
             page == Page(v, cursor)
             T == Selected(v, cursor)
  <1>1. v \in Views /\ rd.rows \in Seq(Row)
    BY DEF ReaderSet
  <1>2. sorts \in Seq(SortSet) /\ Len(sorts) \in Nat \ {0} /\ ById(sorts)
    BY <1>1, SortsOfView DEF Views
  <1>3. /\ DOMAIN records \subseteq Nat /\ \A id \in DOMAIN records : records[id] \in Values
    BY RecordsTyped
  <1>4. /\ Present(sorts, records)
        /\ Covered(sorts, v.filter, records, rd.rows, rd.steady, cursor, "page")
    BY DEF ReadOk
  <1>4a. PICK n \in Nat : \E list \in [1 .. n -> T] :
           /\ Lists(sorts, records, list, T)
           /\ page.items \in Seq(Row)
           /\ Len(page.items) = Shorter(n, PageSize)
           /\ \A i \in 1 .. Shorter(n, PageSize) : page.items[i].id = list[i]
           /\ page.next = IF n > PageSize THEN Vector(sorts, records, list[PageSize]) ELSE NoCursor
    BY <1>1, PageFacts
  <1>5. PICK list \in [1 .. n -> T] :
           /\ Lists(sorts, records, list, T)
           /\ page.items \in Seq(Row)
           /\ Len(page.items) = Shorter(n, PageSize)
           /\ \A i \in 1 .. Shorter(n, PageSize) : page.items[i].id = list[i]
           /\ page.next = IF n > PageSize THEN Vector(sorts, records, list[PageSize]) ELSE NoCursor
    BY <1>4a
  <1>6. T = {id \in DOMAIN records : /\ Matches(records[id], v.filter)
                                     /\ \/ cursor = NoCursor
                                        \/ Less(sorts, cursor, Vector(sorts, records, id))}
    <2>1. ASSUME NEW id \in DOMAIN records
          PROVE  AfterCursor(sorts, cursor, id) <=>
                   \/ cursor = NoCursor
                   \/ Less(sorts, cursor, Vector(sorts, records, id))
      <3>1. CASE cursor = NoCursor
        BY <3>1 DEF AfterCursor
      <3>2. CASE cursor # NoCursor
        <4>1. cursor \in [1 .. Len(sorts) -> Nat]
          BY <1>4, <3>2 DEF Covered
        <4>2. Vector(sorts, records, id) \in [1 .. Len(sorts) -> Nat]
          BY <1>4 DEF Present
        <4> HIDE DEF sorts, cursor
        <4> QED
          BY <1>2, <3>2, <4>1, <4>2, AfterIsBelow
      <3> QED
        BY <3>1, <3>2
    <2> HIDE DEF cursor
    <2> QED
      BY <2>1 DEF Selected
  <1>7. PICK f, S, U, filter, c, rows, steady, items, next :
          /\ f = records /\ S = sorts /\ U = T /\ filter = v.filter /\ c = cursor
          /\ rows = rd.rows /\ steady = rd.steady /\ items = page.items /\ next = page.next
    OBVIOUS
  <1> HIDE DEF page, T, cursor, sorts, v
  <1>8. S \in Seq(SortSet) /\ Len(S) # 0 /\ ById(S)
    BY <1>2, <1>7
  <1>9. /\ DOMAIN f \subseteq Nat /\ \A id \in DOMAIN f : f[id] \in Values
        /\ Present(S, f) /\ Covered(S, filter, f, rows, steady, c, "page")
    BY <1>3, <1>4, <1>7
  <1>10. U = {id \in DOMAIN f : /\ Matches(f[id], filter)
                                /\ c = NoCursor \/ Less(S, c, Vector(S, f, id))}
    BY <1>6, <1>7
  <1>11. /\ rows \in Seq(Row) /\ items \in Seq(Row) /\ list \in [1 .. n -> U]
         /\ Lists(S, f, list, U) /\ Len(items) = Shorter(n, PageSize)
         /\ \A i \in 1 .. Shorter(n, PageSize) : items[i].id = list[i]
         /\ next = IF n > PageSize THEN Vector(S, f, list[PageSize]) ELSE NoCursor
    BY <1>1, <1>5, <1>7
  <1>12. Covered(S, filter, f, rows \o items, steady, next, IF next # NoCursor THEN "page" ELSE last)
    BY <1>8, <1>9, <1>10, <1>11, CoveredPage
  <1> QED
    BY <1>7, <1>12 DEF page, sorts, v, cursor

LEMMA TakeKeeps ==
  ASSUME QueryInv, NEW r \in Readers, reader[r].step = "page", NEW v \in Views,
         reader[r].odd = FALSE => v = reader[r].view,
         NEW last \in {"audit", "complete"}, Take(r, Page(v, reader[r].cursor), last),
         reader[r].kind = "export" =>
           Len(reader[r].rows) + Len(Page(v, reader[r].cursor).items) <= MaxRows,
         last = "audit" => reader[r].kind = "export",
         UNCHANGED <<records, view, exports, delivered>>
  PROVE  QueryInv'
  <1>1. PICK rd, items, next : /\ rd = reader[r] /\ items = Page(v, reader[r].cursor).items
                               /\ next = Page(v, reader[r].cursor).next
    OBVIOUS
  <1>2. PICK step : step = IF next # NoCursor THEN "page" ELSE last
    OBVIOUS
  <1>3. rd \in ReaderSet
    BY <1>1 DEF QueryInv, QueryTypes
  <1>4. items \in Seq(Row) /\ next \in Seq(Int) /\ step \in {"page", "audit", "complete"}
        /\ (step = "page" \/ step = last)
    BY <1>1, <1>2, PageTyped DEF QueryInv, QueryTypes
  <1>5. reader' = [reader EXCEPT ![r].rows = @ \o items, ![r].cursor = next, ![r].step = step]
    BY <1>1, <1>2 DEF Take
  <1>6. rd.rows \in Seq(Row) /\ rd.rows \o items \in Seq(Row)
        /\ Len(rd.rows \o items) = Len(rd.rows) + Len(items)
    BY <1>3, <1>4, Joined DEF ReaderSet
  <1>7. PICK n : n = reader'[r]
    OBVIOUS
  <1>8. n = [rd EXCEPT !.rows = rd.rows \o items, !.cursor = next, !.step = step]
    BY <1>1, <1>5, <1>7 DEF QueryInv, QueryTypes
  <1>9. /\ n.rows = rd.rows \o items /\ n.cursor = next /\ n.step = step
        /\ n.kind = rd.kind /\ n.view = rd.view /\ n.steady = rd.steady /\ n.odd = rd.odd
    BY <1>3, <1>8 DEF ReaderSet
  <1>10. n \in ReaderSet
    <2>1. step \in ReaderSteps
      BY <1>4 DEF ReaderSteps
    <2> QED
      BY <1>3, <1>4, <1>6, <1>8, <2>1 DEF ReaderSet
  <1>11. /\ reader' \in [Readers -> ReaderSet]
         /\ \A q \in Readers \ {r} : reader'[q] = reader[q]
    BY <1>5, <1>7, <1>10 DEF QueryInv, QueryTypes
  <1>12. ExportOk(n)
    BY <1>1, <1>4, <1>6, <1>9 DEF ExportOk
  <1>13. Audited(r)'
    BY <1>4, <1>7, <1>9 DEF Audited
  <1>14. ReadOk(records, view, n)
    <2> SUFFICES ASSUME rd.odd = FALSE
                 PROVE  /\ n.step = "page" /\ n.kind = "list" => n.view = view
                        /\ Present(ViewSorts(n.view), records)
                        /\ Covered(ViewSorts(n.view), n.view.filter, records, n.rows, n.steady,
                                   n.cursor, n.step)
      BY <1>9 DEF ReadOk
    <2>1. ReadOk(records, view, rd) /\ rd.step = "page" /\ v = rd.view
      BY <1>1 DEF QueryInv, ReadInv
    <2>2. (rd.kind = "list" => rd.view = view) /\ Present(ViewSorts(rd.view), records)
      BY <2>1 DEF ReadOk
    <2>3. items = Page(rd.view, rd.cursor).items /\ next = Page(rd.view, rd.cursor).next
      BY <1>1, <2>1
    <2>4. Covered(ViewSorts(rd.view), rd.view.filter, records, rd.rows \o items, rd.steady, next, step)
      BY <1>2, <1>3, <2>1, <2>3, PageReads DEF QueryInv, QueryTypes
    <2> QED
      BY <1>9, <2>2, <2>4
  <1>15. QueryTypes' /\ ExportInv' /\ ReadInv'
    BY <1>7, <1>11, <1>12, <1>13, <1>14, OthersRead
  <1> QED
    BY <1>15, DeliveredStays DEF QueryInv

\* A reader moves on without a page.
LEMMA MoveKeeps ==
  ASSUME QueryInv, NEW r \in Readers, NEW step, reader' = [reader EXCEPT ![r].step = step],
         \/ reader[r].step # "idle" /\ step = "refused"
         \/ reader[r].step = "audit" /\ step = "answer" /\ AuditEntryForExport(r) \in exports'
         \/ reader[r].step = "answer" /\ step = "complete",
         UNCHANGED <<records, view>>, exports \subseteq exports'
  PROVE  QueryTypes' /\ ExportInv' /\ ReadInv'
  <1>1. PICK rd, n : rd = reader[r] /\ n = reader'[r]
    OBVIOUS
  <1>2. rd \in ReaderSet /\ step \in ReaderSteps
    BY <1>1 DEF QueryInv, QueryTypes, ReaderSteps
  <1>3. n = [rd EXCEPT !.step = step]
    BY <1>1 DEF QueryInv, QueryTypes
  <1>4. /\ n \in ReaderSet /\ n.step = step /\ n.rows = rd.rows /\ n.cursor = rd.cursor
        /\ n.kind = rd.kind /\ n.view = rd.view /\ n.steady = rd.steady /\ n.odd = rd.odd
    BY <1>2, <1>3 DEF ReaderSet
  <1>5. /\ reader' \in [Readers -> ReaderSet]
        /\ \A q \in Readers \ {r} : reader'[q] = reader[q]
    BY <1>1, <1>4 DEF QueryInv, QueryTypes
  <1>6. ExportOk(n)
    <2>1. ExportOk(rd)
      BY <1>1 DEF QueryInv, ExportInv
    <2> QED
      BY <1>1, <1>4, <2>1 DEF ExportOk
  <1>7. Audited(r)'
    <2> SUFFICES ASSUME step = "answer" PROVE AuditEntryForExport(r)' \in exports'
      BY <1>1, <1>4 DEF Audited
    <2>1. AuditEntryForExport(r)' = AuditEntryForExport(r)
      BY <1>1, <1>4 DEF AuditEntryForExport
    <2> QED
      BY <2>1
  <1>8. ReadOk(records, view, n)
    <2>1. ReadOk(records, view, rd)
      BY <1>1 DEF QueryInv, ReadInv
    <2> SUFFICES ASSUME rd.odd = FALSE
                 PROVE  /\ Present(ViewSorts(rd.view), records)
                        /\ Covered(ViewSorts(rd.view), rd.view.filter, records, rd.rows, rd.steady,
                                   rd.cursor, step)
      BY <1>1, <1>4 DEF ReadOk
    <2>2. /\ Present(ViewSorts(rd.view), records)
          /\ Covered(ViewSorts(rd.view), rd.view.filter, records, rd.rows, rd.steady,
                     rd.cursor, rd.step)
      BY <1>1, <2>1 DEF ReadOk
    <2> QED
      BY <1>1, <2>2, CoveredMoves
  <1> QED
    BY <1>1, <1>5, <1>6, <1>7, <1>8, OthersRead
LEMMA ListPageKeeps ==
  ASSUME QueryInv, NEW r \in Readers, ListPage(r)
  PROVE  QueryInv'
  <1>1. /\ reader[r].step = "page" /\ reader[r].kind = "list"
        /\ UNCHANGED <<records, view, exports, delivered>>
    BY DEF ListPage
  <1>2. CASE Take(r, Page(view, reader[r].cursor), "complete")
    <2>1. view \in Views
      BY DEF QueryInv, QueryTypes
    <2>2. reader[r].odd = FALSE => view = reader[r].view
      BY <1>1 DEF QueryInv, ReadInv, ReadOk
    <2> QED
      BY <1>1, <1>2, <2>1, <2>2, TakeKeeps
  <1>3. CASE Refuse(r)
    <2>1. QueryTypes' /\ ExportInv' /\ ReadInv'
      BY <1>1, <1>3, MoveKeeps DEF Refuse
    <2> QED
      BY <1>1, <2>1, DeliveredStays DEF QueryInv
  <1> QED
    BY <1>2, <1>3 DEF ListPage

LEMMA ExportPageKeeps ==
  ASSUME QueryInv, NEW r \in Readers, ExportPage(r)
  PROVE  QueryInv'
  <1>1. /\ reader[r].step = "page" /\ reader[r].kind = "export"
        /\ UNCHANGED <<records, view, exports, delivered>>
    BY DEF ExportPage
  <1>2. PICK v : v = reader[r].view
    OBVIOUS
  <1>3. CASE /\ Len(reader[r].rows) + Len(Page(v, reader[r].cursor).items) <= MaxRows
             /\ Take(r, Page(v, reader[r].cursor), "audit")
    <2>1. v \in Views
      BY <1>2 DEF QueryInv, QueryTypes, ReaderSet
    <2> QED
      BY <1>1, <1>2, <1>3, <2>1, TakeKeeps
  <1>4. CASE Refuse(r)
    <2>1. QueryTypes' /\ ExportInv' /\ ReadInv'
      BY <1>1, <1>4, MoveKeeps DEF Refuse
    <2> QED
      BY <1>1, <2>1, DeliveredStays DEF QueryInv
  <1> QED
    BY <1>2, <1>3, <1>4 DEF ExportPage

LEMMA FailKeeps ==
  ASSUME QueryInv, NEW r \in Readers, Fail(r)
  PROVE  QueryInv'
  <1>1. /\ reader[r].step # "idle" /\ reader' = [reader EXCEPT ![r].step = "refused"]
        /\ UNCHANGED <<records, view, exports, delivered>>
    BY DEF Fail, Refuse
  <1>2. QueryTypes' /\ ExportInv' /\ ReadInv'
    BY <1>1, MoveKeeps
  <1> QED
    BY <1>1, <1>2, DeliveredStays DEF QueryInv

LEMMA AppendExportKeeps ==
  ASSUME QueryInv, NEW r \in Readers, AppendExportAudit(r)
  PROVE  QueryInv'
  <1>1. /\ reader[r].step = "audit" /\ reader' = [reader EXCEPT ![r].step = "answer"]
        /\ AuditEntryForExport(r) \in exports' /\ exports \subseteq exports'
        /\ UNCHANGED <<records, view, delivered>>
    BY DEF AppendExportAudit
  <1>2. QueryTypes' /\ ExportInv' /\ ReadInv'
    BY <1>1, MoveKeeps
  <1> QED
    BY <1>1, <1>2, DeliveredStays DEF QueryInv

LEMMA AnswerKeeps ==
  ASSUME QueryInv, NEW r \in Readers, AnswerExport(r)
  PROVE  QueryInv'
  <1>1. /\ reader[r].step = "answer" /\ reader' = [reader EXCEPT ![r].step = "complete"]
        /\ UNCHANGED <<records, view, exports>>
    BY DEF AnswerExport
  <1>2. QueryTypes' /\ ExportInv' /\ ReadInv'
    BY <1>1, MoveKeeps
  <1>3. PICK v, rows : v = reader[r].view /\ rows = reader[r].rows
    OBVIOUS
  <1>4. v \in Views /\ rows \in Seq(Row)
    BY <1>3 DEF QueryInv, QueryTypes, ReaderSet
  <1>5. PICK body, columns : body = Encode(rows, ExportColumns(v)) /\ columns = ExportColumns(v)
    OBVIOUS
  <1>6. /\ Len(body) = Len(rows)
        /\ \A i \in 1 .. Len(body) : \E c \in 1 .. Len(columns) : body[i][c] = {rows[i].id}
    <2>1. /\ Len(Encode(rows, ExportColumns(v))) = Len(rows)
          /\ \A i \in 1 .. Len(rows) : \E c \in 1 .. Len(ExportColumns(v)) :
               Encode(rows, ExportColumns(v))[i][c] = {rows[i].id}
      BY <1>4, Encoded
    <2> QED
      BY <1>5, <2>1
  <1>7. Len(rows) <= MaxRows
    BY <1>1, <1>3 DEF QueryInv, ExportInv, ExportOk
  <1>8. PICK e : e = AuditEntryForExport(r)
    OBVIOUS
  <1>9. e \in exports /\ e.reader = r /\ e.hash = body /\ e.count = Len(rows) /\ e.fieldSet = columns
    BY <1>1, <1>3, <1>5, <1>8 DEF QueryInv, ExportInv, Audited, AuditEntryForExport
  <1>10. PICK d : d = [reader |-> r, body |-> body, columns |-> columns, rows |-> rows]
    OBVIOUS
  <1>11. d.reader = r /\ d.body = body /\ d.columns = columns /\ d.rows = rows
    BY <1>10
  <1>12. delivered' = delivered \cup {d}
    BY <1>3, <1>5, <1>10 DEF AnswerExport
  <1>13. DeliveredIsAudited'
    <2> SUFFICES ASSUME NEW g \in delivered'
                 PROVE  /\ \E x \in exports : /\ x.reader = g.reader /\ x.hash = g.body
                                              /\ x.count = Len(g.body) /\ x.fieldSet = g.columns
                        /\ Len(g.body) <= MaxRows
                        /\ \A i \in 1 .. Len(g.body) :
                             \E c \in 1 .. Len(g.columns) : g.body[i][c] = {g.rows[i].id}
      BY <1>1 DEF DeliveredIsAudited
    <2>1. CASE g = d
      BY <1>6, <1>7, <1>9, <1>11, <2>1
    <2>2. CASE g # d
      BY <1>12, <2>2 DEF QueryInv, DeliveredIsAudited
    <2> QED
      BY <2>1, <2>2
  <1> QED
    BY <1>2, <1>13 DEF QueryInv
-----------------------------------------------------------------------------
(* What happens to the table and the view meanwhile. *)

\* A reader whose steady records are untouched reads on.
LEMMA TouchedReads ==
  ASSUME NEW f, NEW g, NEW v, NEW rd \in ReaderSet, NEW n \in ReaderSet, NEW ids,
         ReadOk(f, v, rd), rd.step # "idle",
         n.step = rd.step, n.kind = rd.kind, n.view = rd.view, n.cursor = rd.cursor,
         n.rows = rd.rows, n.steady = rd.steady \ ids, n.odd = FALSE => rd.odd = FALSE,
         \A id \in DOMAIN f \ ids : id \in DOMAIN g /\ g[id] = f[id],
         n.odd = FALSE => \A id \in DOMAIN g : \/ id \in DOMAIN f /\ g[id] = f[id]
                                               \/ id \in Nat /\ g[id] \in Nat
  PROVE  ReadOk(g, v, n)
  <1> SUFFICES ASSUME n.odd = FALSE
               PROVE  /\ n.step = "page" /\ n.kind = "list" => n.view = v
                      /\ Present(ViewSorts(n.view), g)
                      /\ Covered(ViewSorts(n.view), n.view.filter, g, n.rows, n.steady, n.cursor,
                                 n.step)
    BY DEF ReadOk
  <1>1. PICK sorts : sorts = ViewSorts(rd.view)
    OBVIOUS
  <1>2. sorts \in Seq(SortSet)
    BY <1>1, SortsOfView DEF ReaderSet, Views
  <1>3. /\ rd.step = "page" /\ rd.kind = "list" => rd.view = v
        /\ Present(sorts, f)
        /\ Covered(sorts, rd.view.filter, f, rd.rows, rd.steady, rd.cursor, rd.step)
    BY <1>1 DEF ReadOk
  <1>4. Present(sorts, g)
    <2> SUFFICES ASSUME NEW id \in DOMAIN g
                 PROVE  Vector(sorts, g, id) \in [1 .. Len(sorts) -> Nat]
      BY DEF Present
    <2>1. CASE id \in DOMAIN f /\ g[id] = f[id]
      <3>1. Vector(sorts, g, id) = Vector(sorts, f, id)
        BY <2>1 DEF Vector
      <3> QED
        BY <1>3, <2>1, <3>1 DEF Present
    <2>2. CASE id \in Nat /\ g[id] \in Nat
      BY <1>2, <2>2 DEF Vector
    <2> QED
      BY <2>1, <2>2
  <1>5. rd.steady \subseteq DOMAIN f
    BY <1>3 DEF Covered
  <1>6. /\ n.steady \subseteq rd.steady /\ n.steady \subseteq DOMAIN g
        /\ \A id \in n.steady : g[id] = f[id]
    BY <1>5
  <1>7. Covered(sorts, rd.view.filter, g, rd.rows, n.steady, rd.cursor, rd.step)
    BY <1>3, <1>6, CoveredLasts
  <1> QED
    BY <1>1, <1>3, <1>4, <1>7

LEMMA TouchKeeps ==
  ASSUME QueryInv, NEW ids, NEW odd \in BOOLEAN, Touch(ids, odd), records' \in Generations,
         \A id \in DOMAIN records \ ids : id \in DOMAIN records' /\ records'[id] = records[id],
         odd = FALSE => \A id \in DOMAIN records' :
           \/ id \in DOMAIN records /\ records'[id] = records[id]
           \/ id \in Nat /\ records'[id] \in Nat,
         UNCHANGED <<view, exports, delivered>>
  PROVE  QueryInv'
  <1>1. PICK g : g = records'
    OBVIOUS
  <1>2. ASSUME NEW r \in Readers
        PROVE  /\ reader'[r] \in ReaderSet /\ ReadOk(g, view, reader'[r])
               /\ reader'[r].step = reader[r].step /\ reader'[r].kind = reader[r].kind
               /\ reader'[r].view = reader[r].view /\ reader'[r].rows = reader[r].rows
    <2>1. PICK rd, n : rd = reader[r] /\ n = reader'[r]
      OBVIOUS
    <2>2. rd \in ReaderSet /\ ReadOk(records, view, rd)
      BY <2>1 DEF QueryInv, QueryTypes, ReadInv
    <2>3. CASE rd.step = "idle"
      <3>1. n = rd
        BY <2>1, <2>3 DEF Touch
      <3> QED
        BY <2>1, <2>2, <2>3, <3>1 DEF ReadOk
    <2>4. CASE rd.step # "idle"
      <3>1. n = [rd EXCEPT !.steady = rd.steady \ ids, !.odd = rd.odd \/ odd]
        BY <2>1, <2>4 DEF Touch
      <3>2. PICK o \in BOOLEAN : o = (rd.odd \/ odd)
        OBVIOUS
      <3>3. o = FALSE => rd.odd = FALSE /\ odd = FALSE
        <4>1. rd.odd \in BOOLEAN
          BY <2>2 DEF ReaderSet
        <4> QED
          BY <3>2, <4>1
      <3>4. n = [rd EXCEPT !.steady = rd.steady \ ids, !.odd = o]
        BY <3>1, <3>2
      <3>5. n \in ReaderSet
        BY <2>2, <3>4 DEF ReaderSet
      <3>6. /\ n.step = rd.step /\ n.kind = rd.kind /\ n.view = rd.view /\ n.cursor = rd.cursor
            /\ n.rows = rd.rows /\ n.steady = rd.steady \ ids /\ n.odd = o
        BY <2>2, <3>4 DEF ReaderSet
      <3>7. ReadOk(g, view, n)
        <4>1. n.odd = FALSE => rd.odd = FALSE
          BY <3>3, <3>6
        <4>2. PICK f, v : f = records /\ v = view
          OBVIOUS
        <4>3. ReadOk(f, v, rd)
          BY <2>2, <4>2
        <4>4. \A id \in DOMAIN f \ ids : id \in DOMAIN g /\ g[id] = f[id]
          BY <1>1, <4>2
        <4>5. n.odd = FALSE => \A id \in DOMAIN g : \/ id \in DOMAIN f /\ g[id] = f[id]
                                                    \/ id \in Nat /\ g[id] \in Nat
          BY <1>1, <3>3, <3>6, <4>2
        <4>6. ReadOk(g, v, n)
          BY <2>2, <2>4, <3>5, <3>6, <4>1, <4>3, <4>4, <4>5, TouchedReads
        <4> QED
          BY <4>2, <4>6
      <3> QED
        BY <2>1, <3>5, <3>6, <3>7
    <2> QED
      BY <2>3, <2>4
  <1>3. reader' \in [Readers -> ReaderSet]
    <2>1. DOMAIN reader' = Readers /\ reader' = [r \in Readers |-> reader'[r]]
      BY DEF Touch
    <2> QED
      BY <1>2, <2>1
  <1>4. QueryTypes'
    BY <1>3 DEF QueryInv, QueryTypes
  <1>5. ExportInv'
    <2> SUFFICES ASSUME NEW r \in Readers PROVE ExportOk(reader'[r]) /\ Audited(r)'
      BY DEF ExportInv
    <2>1. ExportOk(reader[r]) /\ Audited(r)
      BY DEF QueryInv, ExportInv
    <2>2. ExportOk(reader'[r])
      BY <1>2, <2>1 DEF ExportOk
    <2>3. AuditEntryForExport(r)' = AuditEntryForExport(r)
      BY <1>2 DEF AuditEntryForExport
    <2> QED
      BY <1>2, <2>1, <2>2, <2>3 DEF Audited
  <1>6. ReadInv'
    BY <1>1, <1>2 DEF ReadInv
  <1> QED
    BY <1>4, <1>5, <1>6, DeliveredStays DEF QueryInv

LEMMA PutGeneration ==
  ASSUME NEW f \in Generations, NEW id \in RecordIds, NEW value \in FieldValues \cup {Absent}
  PROVE  /\ Put(f, id, value) \in Generations
         /\ DOMAIN Put(f, id, value) = DOMAIN f \cup {id}
         /\ Put(f, id, value)[id] = value
         /\ \A i \in DOMAIN f \ {id} : Put(f, id, value)[i] = f[i]
  <1>1. PICK ids \in SUBSET RecordIds : IsFiniteSet(ids) /\ f \in [ids -> FieldValues \cup {Absent}]
    BY DEF Generations
  <1> DEFINE g == [i \in ids \cup {id} |-> IF i = id THEN value ELSE f[i]]
  <1>2. Put(f, id, value) = g
    BY <1>1 DEF Put
  <1>3. IsFiniteSet(ids \cup {id}) /\ ids \cup {id} \in SUBSET RecordIds
    BY <1>1, FS_AddElement
  <1>4. g \in [ids \cup {id} -> FieldValues \cup {Absent}]
    BY <1>1
  <1>5. /\ DOMAIN g = DOMAIN f \cup {id} /\ g[id] = value
        /\ \A i \in DOMAIN f \ {id} : g[i] = f[i]
    BY <1>1
  <1> HIDE DEF g
  <1>6. g \in Generations
    BY <1>3, <1>4 DEF Generations
  <1> QED
    BY <1>2, <1>5, <1>6

LEMMA PutKeeps ==
  ASSUME QueryInv, NEW id \in RecordIds, NEW value \in FieldValues \cup {Absent},
         NEW odd \in BOOLEAN, odd = FALSE => value # Absent,
         records' = Put(records, id, value), Touch({id}, odd), UNCHANGED <<view, exports, delivered>>
  PROVE  QueryInv'
  <1>1. PICK g : g = Put(records, id, value)
    OBVIOUS
  <1>2. records \in Generations
    BY DEF QueryInv, QueryTypes
  <1>3. /\ g \in Generations /\ DOMAIN g = DOMAIN records \cup {id} /\ g[id] = value
        /\ \A i \in DOMAIN records \ {id} : g[i] = records[i]
    <2>1. PICK f : f = records
      OBVIOUS
    <2>2. f \in Generations
      BY <1>2, <2>1
    <2>3. /\ Put(f, id, value) \in Generations
          /\ DOMAIN Put(f, id, value) = DOMAIN f \cup {id}
          /\ Put(f, id, value)[id] = value
          /\ \A i \in DOMAIN f \ {id} : Put(f, id, value)[i] = f[i]
      BY <2>2, PutGeneration
    <2> QED
      BY <1>1, <2>1, <2>3
  <1>4. odd = FALSE => id \in Nat /\ g[id] \in Nat
    BY <1>3, QueryAssumption
  <1>5. \A i \in DOMAIN records \ {id} : i \in DOMAIN g /\ g[i] = records[i]
    BY <1>3
  <1>6. odd = FALSE => \A i \in DOMAIN g :
          \/ i \in DOMAIN records /\ g[i] = records[i]
          \/ i \in Nat /\ g[i] \in Nat
    BY <1>3, <1>4
  <1> QED
    BY <1>1, <1>3, <1>5, <1>6, TouchKeeps

LEMMA WriteKeeps ==
  ASSUME QueryInv, NEW id \in RecordIds, NEW value \in FieldValues \cup {Absent},
         WriteRecord(id, value)
  PROVE  QueryInv'
  <1>1. PICK odd \in BOOLEAN : odd = (value = Absent)
    OBVIOUS
  <1>2. Touch({id}, odd)
    BY <1>1 DEF WriteRecord
  <1>3. odd = FALSE => value # Absent
    BY <1>1
  <1>4. records' = Put(records, id, value) /\ UNCHANGED <<view, exports, delivered>>
    BY DEF WriteRecord
  <1> QED
    BY <1>2, <1>3, <1>4, PutKeeps

LEMMA SwitchKeeps ==
  ASSUME QueryInv, SwitchPointer
  PROVE  QueryInv'
  <1>1. PICK id \in RecordIds, value \in FieldValues :
          records' = Put(records, id, value) /\ Touch({id}, FALSE)
    BY DEF SwitchPointer
  <1>2. value # Absent /\ UNCHANGED <<view, exports, delivered>>
    <2>1. value \in Nat
      BY QueryAssumption
    <2> QED
      BY <2>1 DEF SwitchPointer, Absent
  <1> QED
    BY <1>1, <1>2, PutKeeps

LEMMA DeleteKeeps ==
  ASSUME QueryInv, NEW id \in RecordIds, DeleteRecord(id)
  PROVE  QueryInv'
  <1>1. PICK g : g = records'
    OBVIOUS
  <1>2. PICK ids \in SUBSET RecordIds :
          IsFiniteSet(ids) /\ records \in [ids -> FieldValues \cup {Absent}]
    BY DEF QueryInv, QueryTypes, Generations
  <1>3. /\ g = [i \in DOMAIN records \ {id} |-> records[i]] /\ Touch({id}, FALSE)
        /\ UNCHANGED <<view, exports, delivered>>
    BY <1>1 DEF DeleteRecord
  <1>4. g \in [ids \ {id} -> FieldValues \cup {Absent}]
    BY <1>2, <1>3
  <1>5. IsFiniteSet(ids \ {id}) /\ ids \ {id} \in SUBSET RecordIds
    BY <1>2, FS_RemoveElement
  <1>6. g \in Generations
    BY <1>4, <1>5 DEF Generations
  <1>7. /\ \A i \in DOMAIN records \ {id} : i \in DOMAIN g /\ g[i] = records[i]
        /\ \A i \in DOMAIN g : i \in DOMAIN records /\ g[i] = records[i]
    BY <1>3
  <1> QED
    BY <1>1, <1>3, <1>6, <1>7, TouchKeeps

LEMMA ViewKeeps ==
  ASSUME QueryInv, UpdateViewDefinition
  PROVE  QueryInv'
  <1>1. view' \in Views /\ UNCHANGED <<records, exports, delivered>>
    BY DEF UpdateViewDefinition, Views
  <1>2. ASSUME NEW r \in Readers
        PROVE  /\ reader'[r] \in ReaderSet /\ ReadOk(records, view', reader'[r])
               /\ reader'[r].step = reader[r].step /\ reader'[r].kind = reader[r].kind
               /\ reader'[r].view = reader[r].view /\ reader'[r].rows = reader[r].rows
    <2>1. PICK rd, n, v : rd = reader[r] /\ n = reader'[r] /\ v = view'
      OBVIOUS
    <2>2. rd \in ReaderSet /\ ReadOk(records, view, rd)
      BY <2>1 DEF QueryInv, QueryTypes, ReadInv
    <2>3. CASE rd.step # "page" \/ rd.kind = "export"
      <3>1. n = rd
        BY <2>1, <2>3 DEF UpdateViewDefinition
      <3> QED
        BY <2>1, <2>2, <2>3, <3>1 DEF ReadOk
    <2>4. CASE ~(rd.step # "page" \/ rd.kind = "export")
      <3>1. n = [rd EXCEPT !.odd = TRUE]
        BY <2>1, <2>4 DEF UpdateViewDefinition
      <3>2. /\ n \in ReaderSet /\ n.step = rd.step /\ n.kind = rd.kind /\ n.view = rd.view
            /\ n.rows = rd.rows /\ n.odd = TRUE
        BY <2>2, <3>1 DEF ReaderSet
      <3> QED
        BY <2>1, <3>2 DEF ReadOk
    <2> QED
      BY <2>3, <2>4
  <1>3. reader' \in [Readers -> ReaderSet]
    <2>1. reader' = [r \in Readers |-> reader'[r]]
      BY DEF UpdateViewDefinition
    <2> QED
      BY <1>2, <2>1
  <1>4. QueryTypes'
    BY <1>1, <1>3 DEF QueryInv, QueryTypes
  <1>5. ExportInv'
    <2> SUFFICES ASSUME NEW r \in Readers PROVE ExportOk(reader'[r]) /\ Audited(r)'
      BY DEF ExportInv
    <2>1. ExportOk(reader[r]) /\ Audited(r)
      BY DEF QueryInv, ExportInv
    <2>2. ExportOk(reader'[r])
      BY <1>2, <2>1 DEF ExportOk
    <2>3. AuditEntryForExport(r)' = AuditEntryForExport(r)
      BY <1>2 DEF AuditEntryForExport
    <2> QED
      BY <1>1, <1>2, <2>1, <2>2, <2>3 DEF Audited
  <1>6. ReadInv'
    BY <1>1, <1>2 DEF ReadInv
  <1> QED
    BY <1>1, <1>4, <1>5, <1>6, DeliveredStays DEF QueryInv
-----------------------------------------------------------------------------
LEMMA QueryStarts == QueryInit => QueryInv
  <1> SUFFICES ASSUME QueryInit PROVE QueryInv
    OBVIOUS
  <1>1. /\ NotReading.step = "idle" /\ NotReading.kind = "list"
    BY DEF NotReading
  <1>2. view \in Views /\ records \in Generations
    BY DEF QueryInit, Views
  <1>3. NotReading \in ReaderSet
    <2>1. NoCursor \in Seq(Int) /\ <<>> \in Seq(Row)
      BY DEF NoCursor
    <2> QED
      BY <1>2, <2>1 DEF NotReading, ReaderSet, ReaderSteps
  <1>4. reader \in [Readers -> ReaderSet] /\ \A r \in Readers : reader[r] = NotReading
    BY <1>3 DEF QueryInit
  <1>5. QueryTypes
    BY <1>2, <1>4 DEF QueryTypes
  <1>6. ExportInv /\ ReadInv
    BY <1>1, <1>4 DEF ExportInv, ExportOk, Audited, ReadInv, ReadOk
  <1>7. DeliveredIsAudited
    BY DEF QueryInit, DeliveredIsAudited
  <1> QED
    BY <1>5, <1>6, <1>7 DEF QueryInv

LEMMA QueryKeeps ==
  ASSUME QueryInv, [QueryNext]_qvars
  PROVE  QueryInv'
  <1>1. ASSUME NEW r \in Readers,
               \/ StartList(r) \/ StartExport(r) \/ ListPage(r) \/ ExportPage(r) \/ Fail(r)
               \/ AppendExportAudit(r) \/ AnswerExport(r)
        PROVE  QueryInv'
    BY <1>1, StartKeeps, ListPageKeeps, ExportPageKeeps, FailKeeps, AppendExportKeeps, AnswerKeeps
  <1>2. ASSUME NEW id \in RecordIds,
               DeleteRecord(id) \/ \E value \in FieldValues \cup {Absent} : WriteRecord(id, value)
        PROVE  QueryInv'
    BY <1>2, DeleteKeeps, WriteKeeps
  <1>3. CASE UpdateViewDefinition \/ SwitchPointer
    BY <1>3, ViewKeeps, SwitchKeeps
  <1>4. CASE UNCHANGED qvars
    <2>1. UNCHANGED <<records, view, reader, exports, delivered>>
      BY <1>4 DEF qvars
    <2>2. QueryTypes'
      BY <2>1 DEF QueryInv, QueryTypes
    <2>3. ExportInv'
      BY <2>1 DEF QueryInv, ExportInv, Audited, AuditEntryForExport
    <2>4. ReadInv'
      BY <2>1 DEF QueryInv, ReadInv
    <2> QED
      BY <2>1, <2>2, <2>3, <2>4, DeliveredStays DEF QueryInv
  <1> QED
    BY <1>1, <1>2, <1>3, <1>4 DEF QueryNext

\* The inductive invariant of the readings: what a reader was given, relative to its cursor,
\* over every interleaving of pages, writes, updates of the view and switches of the read
\* pointer (ListRecords, ExportRecords).
THEOREM QueryInvariant == QuerySpec => []QueryInv
  BY QueryStarts, QueryKeeps, PTL DEF QuerySpec

\* Every export that was answered is in the audit log with its rows, columns and content,
\* keeps to the limit and names the record of each row (ExportRecords), for every set of
\* views, records and readers and any sizes.
THEOREM ExportsAreAudited == QuerySpec => []DeliveredIsAudited
  <1>1. QueryInv => DeliveredIsAudited
    BY DEF QueryInv
  <1> QED
    BY <1>1, QueryInvariant, PTL

\* A record that nothing changes during a coherent reading is returned once and in the order
\* of the view (ListRecords, viewSorts, encodeRecordCursor), for every view, any number of
\* sorts, any page size and any writes between the pages.
THEOREM SteadyRecordsOnce == QuerySpec => []SteadyRecordsReadOnce
  <1>1. ASSUME QueryInv PROVE SteadyRecordsReadOnce
    <2> SUFFICES ASSUME NEW r \in Readers, reader[r].step # "idle", Coherent(r),
                        NEW id \in reader[r].steady
                 PROVE  LET v == reader[r].view IN
                        /\ Cardinality(Places(r, id)) <= 1
                        /\ reader[r].step \in {"audit", "answer", "complete"}
                             /\ Matches(records[id], v.filter) => Places(r, id) # {}
                        /\ \A other \in reader[r].steady :
                             \A i \in Places(r, id), j \in Places(r, other) :
                               i < j => Ordered(ViewSorts(v), id, other)
      BY DEF SteadyRecordsReadOnce
    <2>1. PICK rd, sorts : rd = reader[r] /\ sorts = ViewSorts(reader[r].view)
      OBVIOUS
    <2>2. rd \in ReaderSet /\ ReadOk(records, view, rd)
      BY <1>1, <2>1 DEF QueryInv, QueryTypes, ReadInv
    <2>3. rd.odd = FALSE
      <3>1. rd.odd \in BOOLEAN
        BY <2>2 DEF ReaderSet
      <3> QED
        BY <2>1, <3>1 DEF Coherent
    <2>4. Covered(sorts, rd.view.filter, records, rd.rows, rd.steady, rd.cursor, rd.step)
      BY <2>1, <2>2, <2>3 DEF ReadOk
    <2>5. sorts \in Seq(SortSet)
      BY <2>1, <2>2, SortsOfView DEF ReaderSet, Views
    <2>6. \A x : Places(r, x) = Place(rd.rows, x)
      BY <2>1 DEF Places, Place
    <2>7. Cardinality(Places(r, id)) <= 1
      <3>1. CASE Places(r, id) = {}
        BY <3>1, FS_EmptySet
      <3>2. CASE Places(r, id) # {}
        <4>1. PICK i : i \in Places(r, id)
          BY <3>2
        <4>2. Places(r, id) = {i}
          BY <2>1, <2>4, <2>6, <4>1 DEF Covered, GivenOnce
        <4> QED
          BY <4>2, FS_Singleton
      <3> QED
        BY <3>1, <3>2
    <2>8. reader[r].step \in {"audit", "answer", "complete"}
            /\ Matches(records[id], reader[r].view.filter) => Places(r, id) # {}
      BY <2>1, <2>4, <2>6 DEF Covered, GivenAll
    <2>9. ASSUME NEW other \in reader[r].steady, NEW i \in Places(r, id), NEW j \in Places(r, other),
                 i < j
          PROVE  Ordered(sorts, id, other)
      <3>1. Below(sorts, records, id, other)
        BY <2>1, <2>4, <2>6, <2>9 DEF Covered, GivenInOrder
      <3> QED
        BY <2>5, <3>1, OrderedIsBelow
    <2> QED
      BY <2>1, <2>7, <2>8, <2>9
  <1> QED
    BY <1>1, QueryInvariant, PTL
=============================================================================
