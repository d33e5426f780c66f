---------------------------- MODULE RecordService ----------------------------
(***************************************************************************)
(* Writing records of a CUSTOM table (CreateRecord, UpdateRecord and        *)
(* DeleteRecord of modules/records/service.go with the repository and the   *)
(* receipt store behind them), and announcing each committed write on the   *)
(* record feed that RecordFeed models.                                      *)
(*                                                                          *)
(* One tenant, workspace and table, whose schema is published.  A request   *)
(* has passed authentication, membership and validation of its data, tags   *)
(* and relations; its hash is the request without its key.  The content of  *)
(* a record is its version.                                                 *)
(***************************************************************************)
EXTENDS RecordFeed

CONSTANTS
  Writers,     \* requests handled concurrently
  Keys,        \* idempotency keys
  MaxVersion,  \* bound: record versions
  MaxCalls,    \* bound: requests of one behaviour
  MaxFaults,   \* bound: failed or unacknowledged commits
  WellBehaved  \* TRUE: callers send only versions they have been shown, and
               \* choose a fresh id for each record they create

ASSUME ServiceAssumption ==
  /\ MaxVersion \in Nat /\ MaxCalls \in Nat /\ MaxFaults \in Nat
  /\ WellBehaved \in BOOLEAN

VARIABLES
  record,    \* record[r]: recordVersion of the document (0: none)
  receipts,  \* record_receipts: [op, key, hash, version]
  audit,     \* audit entries, in commit order: [op, record, version, before]
  call,      \* call[w]: step, request, version read before the transaction, and
             \* version that will be announced
  calls, faults

storeVars   == <<record, receipts, audit>>
serviceVars == <<storeVars, call, calls, faults>>
vars        == <<feedVars, serviceVars>>

Operations == {"create", "update", "delete"}
Requests == [op : Operations, key : Keys, record : Records, expected : 0 .. MaxVersion]

NoRequest == [op |-> "none", key |-> "none", record |-> "none", expected |-> 0]
Idle == [step |-> "idle", request |-> NoRequest, existing |-> 0, result |-> 0]

\* recordRequestHash covers the whole request but not its key.
Hash(q) == [op |-> q.op, record |-> q.record, expected |-> q.expected]

\* Whether a request under another key has created r or is about to.
Claimed(r, key) ==
  \/ \E e \in receipts : e.op = "create" /\ e.hash.record = r /\ e.key # key
  \/ \E w \in Writers : /\ call[w].step # "idle" /\ call[w].request.op = "create"
                        /\ call[w].request.record = r /\ call[w].request.key # key

\* What a caller may send: a create carries no version, the others a positive
\* one (parseRecordIfMatch).  A repetition is always in order.
Repeated(q) == \E e \in receipts : e.op = q.op /\ e.key = q.key /\ e.hash = Hash(q)

CreateRequest(q) ==
  /\ q.op = "create" /\ q.expected = 0
  /\ WellBehaved => ~Claimed(q.record, q.key) \/ Repeated(q)

UpdateRequest(q) ==
  /\ q.op = "update" /\ q.expected \in 1 .. MaxVersion - 1
  /\ WellBehaved => q.expected <= record[q.record] \/ Repeated(q)

DeleteRequest(q) ==
  /\ q.op = "delete" /\ q.expected > 0
  /\ WellBehaved => q.expected <= record[q.record] \/ Repeated(q)

Init ==
  /\ FeedInit
  /\ record = [r \in Records |-> 0]
  /\ receipts = {} /\ audit = <<>>
  /\ call = [w \in Writers |-> Idle]
  /\ calls = 0 /\ faults = 0

-----------------------------------------------------------------------------
Found(q) == {e \in receipts : e.op = q.op /\ e.key = q.key}

Request(w) == call[w].request
At(w, step) == call[w].step = step
Go(w, step) == call' = [call EXCEPT ![w].step = step]
Answer(w)   == call' = [call EXCEPT ![w] = Idle]

Begin(w) ==
  /\ At(w, "idle") /\ calls < MaxCalls
  /\ calls' = calls + 1
  /\ \E q \in Requests :
       /\ CreateRequest(q) \/ UpdateRequest(q) \/ DeleteRequest(q)
       /\ call' = [call EXCEPT ![w] = [Idle EXCEPT !.step = "receipt", !.request = q]]
  /\ UNCHANGED <<storeVars, faults, feedVars>>

\* Mutant: a replayed receipt is answered without announcing its record.
ReplaySilently(w) ==
  /\ At(w, "receipt") /\ Found(Request(w)) # {}
  /\ Answer(w)
  /\ UNCHANGED <<storeVars, calls, faults, feedVars>>

\* recordReceipt: a receipt with this request's hash is replayed, its record
\* announced again; one with another hash is a conflict.
ReplayReceipt(w) ==
  /\ At(w, "receipt")
  /\ \E e \in Found(Request(w)) :
       \/ /\ e.hash = Hash(Request(w))
          /\ call' = [call EXCEPT ![w].step = "publish", ![w].result = e.version]
       \/ /\ e.hash # Hash(Request(w))
          /\ Answer(w)
  /\ UNCHANGED <<storeVars, calls, faults, feedVars>>

NoReceipt(w) ==
  /\ At(w, "receipt") /\ Found(Request(w)) = {}
  /\ Go(w, IF Request(w).op = "create" THEN "commit" ELSE "read")
  /\ UNCHANGED <<storeVars, calls, faults, feedVars>>

\* GetRecord, outside the transaction.
ReadExisting(w) ==
  LET found == record[Request(w).record]
  IN
  /\ At(w, "read")
  /\ \/ found = 0 /\ Answer(w)
     \/ found > 0 /\ call' = [call EXCEPT ![w].step = "commit", ![w].existing = found]
  /\ UNCHANGED <<storeVars, calls, faults, feedVars>>

\* Whether the repository accepts the write: the insert finds no document, the
\* update and the delete find the expected version.
Matches(q) == record[q.record] = q.expected

\* The repository's writes.
InsertRecord(q) == Matches(q) /\ record' = [record EXCEPT ![q.record] = 1]
ReplaceRecord(q) == Matches(q) /\ record' = [record EXCEPT ![q.record] = @ + 1]

\* Mutant: the delete ignores the version it was asked to delete.
RemoveAny(q) == record' = [record EXCEPT ![q.record] = 0]

RemoveRecord(q) == Matches(q) /\ record' = [record EXCEPT ![q.record] = 0]

\* Mutant: receipts without their unique index.
CompleteTwice(w, version) ==
  LET q == Request(w)
  IN
  /\ audit' = Append(audit, [op |-> q.op, record |-> q.record, version |-> version,
                             before |-> call[w].existing, expected |-> q.expected])
  /\ receipts' = receipts \cup
       {[op |-> q.op, key |-> q.key, hash |-> Hash(q), version |-> version]}

\* completeRecord: audit entry and receipt, with the version they name, join
\* the transaction; the unique index of the receipts aborts it if the key is
\* taken.
CompleteRecord(w, version) ==
  LET q == Request(w)
  IN
  /\ Found(q) = {}
  /\ audit' = Append(audit, [op |-> q.op, record |-> q.record, version |-> version,
                             before |-> call[w].existing, expected |-> q.expected])
  /\ receipts' = receipts \cup
       {[op |-> q.op, key |-> q.key, hash |-> Hash(q), version |-> version]}

CreateRecord(w) ==
  Request(w).op = "create" /\ InsertRecord(Request(w)) /\ CompleteRecord(w, 1)

UpdateRecord(w) ==
  /\ Request(w).op = "update" /\ ReplaceRecord(Request(w))
  /\ CompleteRecord(w, record'[Request(w).record])

\* A delete completes with the document that was read before the transaction.
DeleteRecord(w) ==
  /\ Request(w).op = "delete" /\ RemoveRecord(Request(w))
  /\ CompleteRecord(w, call[w].existing)

\* recordTransaction.
Transaction(w) ==
  At(w, "commit") /\ (CreateRecord(w) \/ UpdateRecord(w) \/ DeleteRecord(w))

Commit(w) ==
  /\ Transaction(w)
  /\ call' = [call EXCEPT ![w].step = "publish", ![w].result = audit'[Len(audit')].version]
  /\ UNCHANGED <<calls, faults, feedVars>>

\* The commit reaches MongoDB and its answer is lost: the service reports an
\* error without announcing the change, and the caller repeats the request.
CommitUnacknowledged(w) ==
  /\ faults < MaxFaults /\ faults' = faults + 1
  /\ Transaction(w)
  /\ call' = [call EXCEPT ![w].step = "receipt", ![w].existing = 0]
  /\ UNCHANGED <<calls, feedVars>>

\* The transaction aborts: RECORD_EXISTS, a stale version, a taken key.
Abort(w) ==
  /\ At(w, "commit")
  /\ ~Matches(Request(w)) \/ Found(Request(w)) # {}
  /\ Answer(w)
  /\ UNCHANGED <<storeVars, calls, faults, feedVars>>

\* MongoDB, the audit log or the receipt store fails.
Fail(w) ==
  /\ faults < MaxFaults /\ faults' = faults + 1
  /\ call[w].step \in {"read", "commit"}
  /\ Answer(w)
  /\ UNCHANGED <<storeVars, calls, feedVars>>

\* publishRecordChange, after the transaction.
PublishRecordChange(w) ==
  LET q == Request(w)
  IN
  /\ At(w, "publish") /\ nextID < MaxEvents
  /\ Publish(<<q.op, q.record, call[w].result>>, Watched, q.record)
  /\ Answer(w)
  /\ UNCHANGED <<handlerVars, clientVars, process, storeVars, calls, faults>>

\* The process stops with the calls it was handling.
Restart ==
  /\ FeedRestart
  /\ call' = [w \in Writers |-> Idle]
  /\ UNCHANGED <<storeVars, calls, faults>>

Next ==
  \/ FeedStep(record) /\ UNCHANGED serviceVars
  \/ \E w \in Writers :
       \/ Begin(w) \/ ReplayReceipt(w) \/ NoReceipt(w) \/ ReadExisting(w)
       \/ Commit(w) \/ CommitUnacknowledged(w) \/ Abort(w) \/ Fail(w)
       \/ PublishRecordChange(w)
  \/ Restart

Spec == Init /\ [][Next]_vars

-----------------------------------------------------------------------------
(* Properties.                                                               *)

\* Documents, calls, connections and clients have the shape the code gives them,
\* and the history is within its limit.
TypeOK ==
  /\ record \in [Records -> 0 .. MaxVersion]
  /\ call \in [Writers -> [step : {"idle", "receipt", "read", "commit", "publish"},
                            request : Requests \cup {NoRequest}, existing : 0 .. MaxVersion,
                            result : 0 .. MaxVersion]]
  /\ pc \in [Clients -> {"off", "admitted", "streaming"}]
  /\ subscribers \subseteq Clients
  /\ cursor \in [Clients -> 0 .. MaxEvents]
  /\ known \in [Clients -> [Records -> 0 .. MaxVersion]]
  /\ nextID = Len(log) /\ Len(history) <= HistoryLimit

\* A key takes effect at most once: one receipt per operation and key, and as
\* many audit entries as receipts, whatever is repeated, lost or raced.
OneEffectPerKey ==
  /\ \A e, f \in receipts : e.op = f.op /\ e.key = f.key => e = f
  /\ Len(audit) = Cardinality(receipts)

\* Where the first n entries of log a mention r, and the version they leave it with (none
\* when they leave no document).
Mentions(a, r, n) == {i \in 1 .. n : a[i].record = r}
Standing(a, r, n) ==
  {a[i].version : i \in {i \in Mentions(a, r, n) :
                           a[i].op # "delete" /\ \A j \in Mentions(a, r, n) : j <= i}}

\* The audit log tells the history of every record: an entry is a create where the
\* entries before it leave no document, or an update or a delete of the version that
\* they leave, which is the one the caller named; and they leave the record as it is.
AuditIsTheHistory ==
  /\ \A i \in DOMAIN audit :
       LET e == audit[i]
           standing == Standing(audit, e.record, i - 1)
       IN  /\ e.op = "create" => standing = {} /\ e.version = 1
           /\ e.op # "create" => standing = {e.before} /\ e.before = e.expected
           /\ e.op = "update" => e.version = e.before + 1
  /\ \A r \in Records : Standing(audit, r, Len(audit)) = {record[r]} \ {0}

\* A client that follows the stream is up to date: once no write is under way
\* and nothing is left to be sent to it, the versions it has read are the ones
\* in the table.
IdleClientIsCurrent ==
  \A c \in Clients :
    (/\ pc[c] = "streaming" /\ synced[c] /\ epoch[c] = process
     /\ c \in subscribers /\ Pending(c) = <<>>
     /\ \A w \in Writers : At(w, "idle"))
    => known[c] = record
=============================================================================
