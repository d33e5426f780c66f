--------------------------- MODULE WorkflowBinding ---------------------------
(***************************************************************************)
(* Snapshots that workflows bind to (modules/binding): an operation id and   *)
(* a reference to a projected record give an immutable copy of the record,   *)
(* provided that it still has the schema and the versions the workflow       *)
(* expects.  Meanwhile the projector applies newer events to the record and  *)
(* a rebuild may map its events anew.                                        *)
(*                                                                          *)
(* One tenant, workspace and record; requests have passed authentication,    *)
(* policy and the checks of their shape.  Nothing runs in a transaction.     *)
(***************************************************************************)
EXTENDS Naturals

CONSTANTS
  Workflows,         \* clients of the service
  SnapshotRequests,  \* [operation, schema, record, source, purpose]; source 0: any
  SourceRecords,     \* states of the record: [schema, record, source, data]
  MaxSnapshotCalls,  \* bound: calls of one behaviour
  MaxRecordChanges,  \* bound: changes of the record
  MaxInsertFaults    \* bound: inserts that fail or whose answer is lost

ASSUME BindingAssumption ==
  /\ \A q \in SnapshotRequests : q.record \in Nat \ {0} /\ q.source \in Nat
  /\ \A r \in SourceRecords : r.record \in Nat \ {0} /\ r.source \in Nat
  /\ MaxSnapshotCalls \in Nat /\ MaxRecordChanges \in Nat /\ MaxInsertFaults \in Nat

VARIABLES
  source,     \* the record that the reference resolves to ({} or one)
  past,       \* ghost: every state the record has had
  snapshots,  \* the stored snapshots
  binding,    \* binding[w]: step, request and the snapshot to store ({} or one)
  answers,    \* ghost: [request, snapshot] of every answer
  snapshotCalls, recordChanges, insertFaults

bvars == <<source, past, snapshots, binding, answers, snapshotCalls, recordChanges, insertFaults>>

\* snapshotRequestHash covers everything but the operation.
RequestHash(q) ==
  [schema |-> q.schema, record |-> q.record, source |-> q.source, purpose |-> q.purpose]

\* computeSnapshotHash covers the schema, the versions and the canonical data.
SnapshotHash(r) == r

\* The snapshot built from record r; the id is new.
Snapshot(id, q, r) ==
  [id |-> id, operation |-> q.operation, purpose |-> q.purpose, content |-> r,
   hash |-> SnapshotHash(r), request |-> RequestHash(q)]

BindingInit ==
  /\ source = {} /\ past = {} /\ snapshots = {} /\ answers = {}
  /\ binding = [w \in Workflows |-> {}]
  /\ snapshotCalls = 0 /\ recordChanges = 0 /\ insertFaults = 0

-----------------------------------------------------------------------------
\* GetRecordBySource: what the projector or a rebuild has made of the record.  A
\* rebuild keeps the first of several events with one record version
\* (applyStaging), so the source version may go back.
ChangeRecord(r) ==
  /\ recordChanges < MaxRecordChanges /\ recordChanges' = recordChanges + 1
  /\ r \notin source
  /\ source' = {r} /\ past' = past \cup {r}
  /\ UNCHANGED <<snapshots, binding, answers, snapshotCalls, insertFaults>>

Work(w, step, q, made) ==
  binding' = [binding EXCEPT ![w] = {[step |-> step, request |-> q, made |-> made]}]
Working(w, step, q) == \E b \in binding[w] : b.step = step /\ b.request = q
Return(w) == binding' = [binding EXCEPT ![w] = {}]
Reply(w, q, s) == answers' = answers \cup {[request |-> q, snapshot |-> s]} /\ Return(w)
Deny(w) == Return(w) /\ UNCHANGED answers

\* FindByOperation: the stored snapshot is the answer to the same request only.
Replay(w, q, s) ==
  \/ s.request = RequestHash(q) /\ Reply(w, q, s)
  \/ s.request # RequestHash(q) /\ Deny(w)

CreateSnapshot(w, q) ==
  /\ binding[w] = {}
  /\ snapshotCalls < MaxSnapshotCalls /\ snapshotCalls' = snapshotCalls + 1
  /\ \/ \E s \in snapshots : s.operation = q.operation /\ Replay(w, q, s)
     \/ /\ \A s \in snapshots : s.operation # q.operation
        /\ Work(w, "read", q, {}) /\ UNCHANGED answers
  /\ UNCHANGED <<source, past, snapshots, recordChanges, insertFaults>>

\* The checks of the record that was read.
Fits(q, r) ==
  /\ r.schema = q.schema
  /\ r.record = q.record
  /\ q.source > 0 => r.source = q.source

ReadRecord(w, q) ==
  /\ Working(w, "read", q)
  /\ \/ \E r \in source : Fits(q, r) /\ Work(w, "insert", q, {Snapshot(<<w, snapshotCalls>>, q, r)})
     \/ (\A r \in source : ~Fits(q, r)) /\ Return(w)
  /\ UNCHANGED <<source, past, snapshots, answers, snapshotCalls, recordChanges, insertFaults>>

\* Mutant: when the operation has a snapshot already, the new one is the answer.
InsertAnswersOwn(w, q) ==
  /\ Working(w, "insert", q)
  /\ \E b \in binding[w] : \E s \in b.made :
       /\ snapshots' = snapshots \cup IF \E t \in snapshots : t.operation = q.operation THEN {} ELSE {s}
       /\ Reply(w, q, s)
  /\ UNCHANGED <<source, past, snapshotCalls, recordChanges, insertFaults>>

\* Create: the unique index of operations decides who is first.
InsertSnapshot(w, q) ==
  /\ Working(w, "insert", q)
  /\ \E b \in binding[w] : \E s \in b.made :
       \/ /\ \A t \in snapshots : t.operation # q.operation
          /\ snapshots' = snapshots \cup {s} /\ Reply(w, q, s)
       \/ /\ \E t \in snapshots : t.operation = q.operation
          /\ Work(w, "exists", q, {}) /\ UNCHANGED <<snapshots, answers>>
  /\ UNCHANGED <<source, past, snapshotCalls, recordChanges, insertFaults>>

\* ErrSnapshotExists: the other call's snapshot, if it is for the same request.
FindExisting(w, q) ==
  /\ Working(w, "exists", q)
  /\ \E s \in snapshots : s.operation = q.operation /\ Replay(w, q, s)
  /\ UNCHANGED <<source, past, snapshots, snapshotCalls, recordChanges, insertFaults>>

\* The insert fails, or succeeds without the client knowing.
InsertFails(w, q) ==
  /\ Working(w, "insert", q)
  /\ insertFaults < MaxInsertFaults /\ insertFaults' = insertFaults + 1
  /\ \/ UNCHANGED snapshots
     \/ /\ \A t \in snapshots : t.operation # q.operation
        /\ \E b \in binding[w] : snapshots' = snapshots \cup b.made
  /\ Return(w)
  /\ UNCHANGED <<source, past, answers, snapshotCalls, recordChanges>>

\* GetSnapshot changes nothing; what it returns is what an answer named.
BindingNext ==
  \/ \E r \in SourceRecords : ChangeRecord(r)
  \/ \E w \in Workflows, q \in SnapshotRequests :
       \/ CreateSnapshot(w, q) \/ ReadRecord(w, q) \/ InsertSnapshot(w, q)
       \/ FindExisting(w, q) \/ InsertFails(w, q)

BindingSpec == BindingInit /\ [][BindingNext]_bvars

-----------------------------------------------------------------------------
\* One record, and calls at the steps the service has.
BindingTypeOK ==
  /\ source \subseteq SourceRecords /\ past \subseteq SourceRecords
  /\ \A r, other \in source : r = other
  /\ \A w \in Workflows : \A b \in binding[w] :
       b.step \in {"read", "insert", "exists"} /\ b.request \in SnapshotRequests

\* Whoever asks for an operation, however often and at the same time, is given the
\* one snapshot that GetSnapshot will return, also when the record moves on
\* between the calls or an answer is lost.
OneSnapshotPerOperation ==
  \A a, b \in answers :
    /\ a.snapshot \in snapshots
    /\ a.request.operation = b.request.operation => a.snapshot = b.snapshot

\* An answer is what its caller asked for: a state that the record really was in,
\* of the schema and versions expected, though another request may have created it.
AnswerFitsRequest ==
  \A a \in answers :
    /\ a.snapshot.content \in past
    /\ a.snapshot.hash = SnapshotHash(a.snapshot.content)
    /\ a.snapshot.purpose = a.request.purpose
    /\ a.snapshot.content.schema = a.request.schema
    /\ a.snapshot.content.record = a.request.record
    /\ a.request.source \in {0, a.snapshot.content.source}
=============================================================================
