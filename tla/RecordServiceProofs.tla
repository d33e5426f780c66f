------------------------- MODULE RecordServiceProofs -------------------------
(* Proofs about RecordService and the feed it announces its writes on, for every *)
(* set of records, clients, requests under way and keys, and any limits.         *)
EXTENDS RecordService, FiniteSetTheorems, TLAPS

(* The slots of the SSE handler. *)

Busy == {c \in Clients : pc[c] # "off"}

\* The slots are counted, and only clients are connected.
SlotsInv ==
  /\ pc \in [Clients -> {"off", "admitted", "streaming"}]
  /\ subscribers \subseteq Clients
  /\ IsFiniteSet(Busy)
  /\ SlotsAreReturned

\* The subscribers a publication leaves.
LEMMA PublishDrops ==
  ASSUME NEW k, NEW t, NEW r, Publish(k, t, r)
  PROVE  subscribers' \subseteq subscribers
  BY DEF Publish, brokerVars

\* A request is counted in.
LEMMA ConnectKeepsSlots ==
  ASSUME SlotsInv, NEW c \in Clients, Connect(c)
  PROVE  SlotsInv'
  <1>1. /\ pc[c] = "off" /\ pc' = [pc EXCEPT ![c] = "admitted"] /\ subscribers' = subscribers
        /\ connections' = connections + 1 /\ byScope' = byScope + 1
        /\ connections < MaxConnections /\ byScope < MaxPerScope
    BY DEF Connect, brokerVars
  <1>2. Busy' = Busy \cup {c} /\ c \notin Busy
    BY <1>1 DEF SlotsInv, Busy
  <1>3. IsFiniteSet(Busy') /\ Cardinality(Busy') = Cardinality(Busy) + 1
    BY <1>2, FS_AddElement DEF SlotsInv
  <1>4. Cardinality(Busy) \in Nat /\ connections = Cardinality(Busy) /\ byScope = connections
    BY FS_CardinalityType DEF SlotsInv, SlotsAreReturned, Busy
  <1>5. pc' \in [Clients -> {"off", "admitted", "streaming"}]
    BY <1>1 DEF SlotsInv
  <1>6. \A d \in subscribers' : pc'[d] = "streaming"
    BY <1>1 DEF SlotsInv, SlotsAreReturned
  <1>7. connections' <= MaxConnections /\ byScope' <= MaxPerScope /\ byScope' = connections'
    BY <1>1, <1>4, FeedAssumption
  <1> QED
    BY <1>1, <1>3, <1>4, <1>5, <1>6, <1>7 DEF SlotsInv, SlotsAreReturned, Busy

\* The deferred functions count it out again.
LEMMA ReleaseKeepsSlots ==
  ASSUME SlotsInv, NEW c \in Clients, pc[c] # "off", Release(c),
         subscribers' = subscribers \ {c}
  PROVE  SlotsInv'
  <1>1. /\ pc' = [pc EXCEPT ![c] = "off"]
        /\ connections' = connections - 1 /\ byScope' = byScope - 1
    BY DEF Release
  <1>2. Busy' = Busy \ {c} /\ c \in Busy
    BY <1>1 DEF SlotsInv, Busy
  <1>3. IsFiniteSet(Busy') /\ Cardinality(Busy') = Cardinality(Busy) - 1
    BY <1>2, FS_RemoveElement DEF SlotsInv
  <1>4. Cardinality(Busy) \in Nat /\ connections = Cardinality(Busy) /\ byScope = connections
    BY FS_CardinalityType DEF SlotsInv, SlotsAreReturned, Busy
  <1>5. pc' \in [Clients -> {"off", "admitted", "streaming"}]
    BY <1>1 DEF SlotsInv
  <1>6. \A d \in subscribers' : pc'[d] = "streaming"
    BY <1>1 DEF SlotsInv, SlotsAreReturned
  <1>7. connections' <= MaxConnections /\ byScope' <= MaxPerScope /\ byScope' = connections'
    BY <1>1, <1>4, FeedAssumption DEF SlotsInv, SlotsAreReturned
  <1> QED
    BY <1>1, <1>3, <1>4, <1>5, <1>6, <1>7 DEF SlotsInv, SlotsAreReturned, Busy

LEMMA FeedKeepsSlots ==
  ASSUME SlotsInv, NEW content, FeedStep(content)
  PROVE  SlotsInv'
  <1>0. ASSUME UNCHANGED <<pc, connections, byScope>>, subscribers' \subseteq subscribers
        PROVE  SlotsInv'
    BY <1>0 DEF SlotsInv, SlotsAreReturned, Busy
  <1>1. CASE ProjectionPublish
    BY <1>0, <1>1, PublishDrops DEF ProjectionPublish, handlerVars
  <1>2. ASSUME NEW c \in Clients, Connect(c) PROVE SlotsInv'
    BY <1>2, ConnectKeepsSlots
  <1>3. ASSUME NEW c \in Clients, Subscribe(c) PROVE SlotsInv'
    <2>1. /\ pc[c] = "admitted" /\ pc' = [pc EXCEPT ![c] = "streaming"]
          /\ subscribers' = subscribers \cup {c} /\ UNCHANGED <<connections, byScope>>
      BY <1>3 DEF Subscribe
    <2>2. Busy' = Busy
      BY <2>1 DEF SlotsInv, Busy
    <2> QED
      BY <2>1, <2>2 DEF SlotsInv, SlotsAreReturned, Busy
  <1>4. ASSUME NEW c \in Clients, RefuseCursor(c) PROVE SlotsInv'
    <2>1. c \notin subscribers
      BY <1>4 DEF RefuseCursor, SlotsInv, SlotsAreReturned
    <2> QED
      BY <1>4, <2>1, ReleaseKeepsSlots DEF RefuseCursor, brokerVars
  <1>5. ASSUME NEW c \in Clients, Disconnect(c) PROVE SlotsInv'
    BY <1>5, ReleaseKeepsSlots DEF Disconnect
  <1>6. ASSUME NEW c \in Clients,
               WriteReplay(c, content) \/ WriteLive(c, content) \/ Query(c, content) \/ StartAfresh(c)
        PROVE  SlotsInv'
    BY <1>0, <1>6 DEF WriteReplay, WriteLive, Query, StartAfresh, brokerVars, handlerVars
  <1> QED
    BY <1>1, <1>2, <1>3, <1>4, <1>5, <1>6 DEF FeedStep

\* No path through the SSE handler leaks a connection slot or exceeds the limits: early
\* returns, dropped subscribers and restarts included.
THEOREM SlotsReturned == Spec => []SlotsAreReturned
  <1>1. Init => SlotsInv
    <2> SUFFICES ASSUME Init PROVE SlotsInv
      OBVIOUS
    <2>1. Busy = {}
      BY DEF Init, FeedInit, Busy
    <2>2. IsFiniteSet(Busy) /\ Cardinality(Busy) = 0
      BY <2>1, FS_EmptySet
    <2>3. 0 <= MaxConnections /\ 0 <= MaxPerScope
      BY FeedAssumption
    <2>4. connections = Cardinality(Busy) /\ byScope = connections /\ connections = 0
      BY <2>2 DEF Init, FeedInit
    <2>5. SlotsAreReturned
      BY <2>3, <2>4 DEF SlotsAreReturned, Busy, Init, FeedInit
    <2> QED
      BY <2>2, <2>5 DEF Init, FeedInit, SlotsInv
  <1>2. SlotsInv /\ [Next]_vars => SlotsInv'
    <2> SUFFICES ASSUME SlotsInv, [Next]_vars PROVE SlotsInv'
      OBVIOUS
    <2>0. ASSUME UNCHANGED <<pc, connections, byScope>>, subscribers' \subseteq subscribers
          PROVE  SlotsInv'
      BY <2>0 DEF SlotsInv, SlotsAreReturned, Busy
    <2>1. CASE FeedStep(record)
      BY <2>1, FeedKeepsSlots
    <2>2. CASE UNCHANGED feedVars
      BY <2>0, <2>2 DEF feedVars, brokerVars, handlerVars
    <2>3. ASSUME NEW w \in Writers, PublishRecordChange(w) PROVE SlotsInv'
      BY <2>0, <2>3, PublishDrops DEF PublishRecordChange, handlerVars
    <2>4. CASE Restart
      <3>1. Busy' = {}
        BY <2>4 DEF Restart, FeedRestart, Busy
      <3>2. IsFiniteSet(Busy') /\ Cardinality(Busy') = 0
        BY <3>1, FS_EmptySet
      <3>3. 0 <= MaxConnections /\ 0 <= MaxPerScope
        BY FeedAssumption
      <3>4. connections' = Cardinality(Busy') /\ byScope' = connections' /\ connections' = 0
        BY <2>4, <3>2 DEF Restart, FeedRestart
      <3>5. SlotsAreReturned'
        BY <2>4, <3>3, <3>4 DEF SlotsAreReturned, Busy, Restart, FeedRestart
      <3> QED
        BY <2>4, <3>2, <3>5 DEF Restart, FeedRestart, SlotsInv
    <2> QED
      BY <2>1, <2>2, <2>3, <2>4 DEF Next, vars, Begin, ReplayReceipt, NoReceipt, ReadExisting,
         Commit, CommitUnacknowledged, Abort, Fail
  <1>3. SlotsInv => SlotsAreReturned
    BY DEF SlotsInv
  <1> QED
    BY <1>1, <1>2, <1>3, PTL DEF Spec
-----------------------------------------------------------------------------
(* Receipts and audit entries. *)

Hashes == [op : Operations, record : Records, expected : 0 .. MaxVersion]
ReceiptSet == [op : Operations, key : Keys, hash : Hashes, version : Nat]
EntrySet == [op : Operations, record : Records, version : Nat, before : Nat, expected : Nat]
CallSet == [step : {"idle", "receipt", "read", "commit", "publish"},
            request : Requests \cup {NoRequest}, existing : Nat, result : Nat]

ServiceTypes ==
  /\ record \in [Records -> Nat]
  /\ receipts \in SUBSET ReceiptSet
  /\ audit \in Seq(EntrySet)
  /\ call \in [Writers -> CallSet]
  /\ \A w \in Writers : call[w].step # "idle" => call[w].request \in Requests

\* A key has one receipt, and each receipt was written with one audit entry.
EffectInv == ServiceTypes /\ IsFiniteSet(receipts) /\ OneEffectPerKey

LEMMA RequestFields ==
  ASSUME NEW q \in Requests
  PROVE  /\ q.op \in Operations /\ q.key \in Keys /\ q.record \in Records
         /\ q.expected \in 0 .. MaxVersion /\ q.expected \in Nat
         /\ Hash(q) \in Hashes
  BY ServiceAssumption DEF Requests, Hash, Hashes

\* The commits of a create, an update or a delete: the record is at the version that the
\* caller named, and one audit entry and one receipt are written with it.
Committed(w, new, version) ==
  LET q == Request(w)
  IN  /\ Found(q) = {} /\ record[q.record] = q.expected
      /\ record' = [record EXCEPT ![q.record] = new]
      /\ audit' = Append(audit, [op |-> q.op, record |-> q.record, version |-> version,
                                 before |-> call[w].existing, expected |-> q.expected])
      /\ receipts' = receipts \cup
           {[op |-> q.op, key |-> q.key, hash |-> Hash(q), version |-> version]}

LEMMA TransactionCommits ==
  ASSUME ServiceTypes, NEW w \in Writers, Transaction(w)
  PROVE  /\ Request(w) \in Requests /\ call[w].step = "commit"
         /\ \E new, version \in Nat :
              /\ Committed(w, new, version)
              /\ \/ Request(w).op = "create" /\ new = 1 /\ version = 1
                 \/ Request(w).op = "update" /\ new = record[Request(w).record] + 1 /\ version = new
                 \/ Request(w).op = "delete" /\ new = 0 /\ version = call[w].existing
  <1>1. Request(w) \in Requests /\ call[w].step = "commit" /\ call[w].existing \in Nat
    BY DEF Transaction, At, Request, ServiceTypes, CallSet
  <1>2. Request(w).record \in Records /\ record[Request(w).record] \in Nat
    BY <1>1, RequestFields DEF ServiceTypes
  <1>3. CASE CreateRecord(w)
    BY <1>1, <1>3 DEF CreateRecord, InsertRecord, CompleteRecord, Matches, Committed
  <1>4. CASE UpdateRecord(w)
    <2>1. record'[Request(w).record] = record[Request(w).record] + 1
      BY <1>2, <1>4 DEF UpdateRecord, ReplaceRecord, ServiceTypes
    <2> DEFINE v == record[Request(w).record] + 1
    <2>2. CompleteRecord(w, v) /\ v \in Nat
      BY <1>2, <1>4, <2>1 DEF UpdateRecord
    <2>3. Committed(w, v, v)
      BY <1>4, <2>2 DEF UpdateRecord, ReplaceRecord, CompleteRecord, Matches, Committed
    <2> QED
      BY <1>1, <1>4, <2>2, <2>3 DEF UpdateRecord
  <1>5. CASE DeleteRecord(w)
    BY <1>1, <1>5 DEF DeleteRecord, RemoveRecord, CompleteRecord, Matches, Committed
  <1> QED
    BY <1>1, <1>3, <1>4, <1>5 DEF Transaction

\* The calls of the other requests stay as they are.
LEMMA OtherWriters ==
  ASSUME ServiceTypes, NEW w \in Writers, NEW x \in Writers, x # w,
         \/ Begin(w) \/ ReplayReceipt(w) \/ NoReceipt(w) \/ ReadExisting(w) \/ Commit(w)
         \/ CommitUnacknowledged(w) \/ Abort(w) \/ Fail(w) \/ PublishRecordChange(w)
  PROVE  call'[x] = call[x]
  BY DEF Begin, ReplayReceipt, NoReceipt, ReadExisting, Commit, CommitUnacknowledged, Abort, Fail,
     PublishRecordChange, Go, Answer, ServiceTypes

LEMMA IdleType == Idle \in CallSet /\ Idle.step = "idle"
  BY DEF Idle, CallSet

\* What a request does to its own call.
LEMMA OwnCall ==
  ASSUME ServiceTypes, NEW w \in Writers
  PROVE  /\ Begin(w) =>
              \E q \in Requests :
                /\ CreateRequest(q) \/ UpdateRequest(q) \/ DeleteRequest(q)
                /\ call'[w] = [step |-> "receipt", request |-> q, existing |-> 0, result |-> 0]
         /\ ReplayReceipt(w) => \/ call'[w] = Idle
                                \/ \E v \in Nat : call'[w] = [call[w] EXCEPT !.step = "publish", !.result = v]
         /\ NoReceipt(w) => \/ Request(w).op = "create" /\ call'[w] = [call[w] EXCEPT !.step = "commit"]
                            \/ Request(w).op # "create" /\ call'[w] = [call[w] EXCEPT !.step = "read"]
         /\ ReadExisting(w) =>
              \/ call'[w] = Idle
              \/ /\ record[Request(w).record] > 0
                 /\ call'[w] = [call[w] EXCEPT !.step = "commit", !.existing = record[Request(w).record]]
         /\ Abort(w) \/ Fail(w) \/ PublishRecordChange(w) => call'[w] = Idle
         /\ CommitUnacknowledged(w) => call'[w] = [call[w] EXCEPT !.step = "receipt", !.existing = 0]
  <1> USE DEF ServiceTypes
  <1>1. Begin(w) => \E q \in Requests :
                      /\ CreateRequest(q) \/ UpdateRequest(q) \/ DeleteRequest(q)
                      /\ call'[w] = [step |-> "receipt", request |-> q, existing |-> 0, result |-> 0]
    BY DEF Begin, Idle
  <1>2. ReplayReceipt(w) => \/ call'[w] = Idle
                            \/ \E v \in Nat : call'[w] = [call[w] EXCEPT !.step = "publish", !.result = v]
    BY DEF ReplayReceipt, Answer, Found, ReceiptSet
  <1>3. NoReceipt(w) => \/ Request(w).op = "create" /\ call'[w] = [call[w] EXCEPT !.step = "commit"]
                        \/ Request(w).op # "create" /\ call'[w] = [call[w] EXCEPT !.step = "read"]
    BY DEF NoReceipt, Go
  <1>4. ReadExisting(w) =>
              \/ call'[w] = Idle
              \/ /\ record[Request(w).record] > 0
                 /\ call'[w] = [call[w] EXCEPT !.step = "commit", !.existing = record[Request(w).record]]
    BY DEF ReadExisting, Answer
  <1>5. Abort(w) \/ Fail(w) \/ PublishRecordChange(w) => call'[w] = Idle
    BY DEF Abort, Fail, PublishRecordChange, Answer
  <1>6. CommitUnacknowledged(w) => call'[w] = [call[w] EXCEPT !.step = "receipt", !.existing = 0]
    BY DEF CommitUnacknowledged
  <1> QED
    BY <1>1, <1>2, <1>3, <1>4, <1>5, <1>6
\* A committed write keeps the types and adds one receipt and one entry.
LEMMA CommittedKeeps ==
  ASSUME EffectInv, NEW w \in Writers, Request(w) \in Requests, NEW new \in Nat,
         NEW version \in Nat, Committed(w, new, version)
  PROVE  /\ record' \in [Records -> Nat]
         /\ receipts' \in SUBSET ReceiptSet
         /\ audit' \in Seq(EntrySet) /\ Len(audit') = Len(audit) + 1
         /\ audit'[Len(audit')].version = version
         /\ IsFiniteSet(receipts') /\ OneEffectPerKey'
  <1> DEFINE q == Request(w)
             new_receipt == [op |-> q.op, key |-> q.key, hash |-> Hash(q), version |-> version]
             entry == [op |-> q.op, record |-> q.record, version |-> version,
                       before |-> call[w].existing, expected |-> q.expected]
  <1>1. q.op \in Operations /\ q.key \in Keys /\ q.record \in Records /\ q.expected \in Nat
        /\ Hash(q) \in Hashes
    BY RequestFields
  <1>2. call[w].existing \in Nat
    BY DEF EffectInv, ServiceTypes, CallSet
  <1>3. new_receipt \in ReceiptSet /\ entry \in EntrySet
    BY <1>1, <1>2 DEF ReceiptSet, EntrySet
  <1>4. /\ receipts' = receipts \cup {new_receipt} /\ audit' = Append(audit, entry)
        /\ record' = [record EXCEPT ![q.record] = new] /\ Found(q) = {}
    BY DEF Committed
  <1>5. \A e \in receipts : ~(e.op = q.op /\ e.key = q.key)
    BY <1>4 DEF Found
  <1>6. new_receipt \notin receipts /\ new_receipt.op = q.op /\ new_receipt.key = q.key
    BY <1>5
  <1>7. entry.version = version
    OBVIOUS
  <1> HIDE DEF new_receipt, entry
  <1>8. IsFiniteSet(receipts') /\ Cardinality(receipts') = Cardinality(receipts) + 1
    BY <1>4, <1>6, FS_AddElement DEF EffectInv
  <1>9. audit' \in Seq(EntrySet) /\ Len(audit') = Len(audit) + 1 /\ audit'[Len(audit')] = entry
    BY <1>3, <1>4 DEF EffectInv, ServiceTypes
  <1>10. \A e, f \in receipts' : e.op = f.op /\ e.key = f.key => e = f
    BY <1>4, <1>5, <1>6 DEF EffectInv, OneEffectPerKey
  <1>11. OneEffectPerKey'
    BY <1>8, <1>9, <1>10 DEF EffectInv, OneEffectPerKey
  <1> QED
    BY <1>1, <1>3, <1>4, <1>7, <1>8, <1>9, <1>11 DEF EffectInv, ServiceTypes

LEMMA WriterKeepsEffect ==
  ASSUME EffectInv, NEW w \in Writers,
         \/ Begin(w) \/ ReplayReceipt(w) \/ NoReceipt(w) \/ ReadExisting(w) \/ Commit(w)
         \/ CommitUnacknowledged(w) \/ Abort(w) \/ Fail(w) \/ PublishRecordChange(w)
  PROVE  EffectInv'
  <1> USE DEF EffectInv
  <1>C. call[w] \in CallSet /\ (call[w].step # "idle" => call[w].request \in Requests)
    BY DEF ServiceTypes
  <1>F. \E f : call' = [call EXCEPT ![w] = f]
    BY DEF Begin, ReplayReceipt, NoReceipt, ReadExisting, Commit, CommitUnacknowledged, Abort,
       Fail, PublishRecordChange, Go, Answer
  <1>S. ASSUME call'[w] \in CallSet, call'[w].step # "idle" => call'[w].request \in Requests
        PROVE  /\ call' \in [Writers -> CallSet]
               /\ \A x \in Writers : call'[x].step # "idle" => call'[x].request \in Requests
    <2>1. call' \in [Writers -> CallSet]
      BY <1>F, <1>S DEF ServiceTypes
    <2>2. \A x \in Writers : call'[x].step # "idle" => call'[x].request \in Requests
      BY <1>S, OtherWriters DEF ServiceTypes
    <2> QED
      BY <2>1, <2>2
  <1>1. ASSUME UNCHANGED storeVars, call'[w] \in CallSet,
               call'[w].step # "idle" => call'[w].request \in Requests
        PROVE  EffectInv'
    BY <1>1, <1>S DEF ServiceTypes, storeVars, OneEffectPerKey
  <1>2. CASE Begin(w)
    <2>1. PICK q \in Requests :
            call'[w] = [step |-> "receipt", request |-> q, existing |-> 0, result |-> 0]
      BY <1>2, OwnCall
    <2>2. call'[w] \in CallSet /\ call'[w].request \in Requests
      BY <2>1 DEF CallSet
    <2> QED
      BY <1>1, <1>2, <2>2 DEF Begin
  <1>3. CASE ReplayReceipt(w)
    <2>1. call'[w] \in CallSet /\ (call'[w].step # "idle" => call'[w].request \in Requests)
      <3>1. call[w].request \in Requests
        BY <1>3, <1>C DEF ReplayReceipt, At
      <3>2. ASSUME NEW v \in Nat, call'[w] = [call[w] EXCEPT !.step = "publish", !.result = v]
            PROVE  call'[w] \in CallSet /\ call'[w].request \in Requests
        BY <1>C, <3>1, <3>2 DEF CallSet
      <3> QED
        BY <1>3, <3>2, OwnCall, IdleType
    <2> QED
      BY <1>1, <1>3, <2>1 DEF ReplayReceipt
  <1>4. CASE NoReceipt(w)
    <2>1. call'[w] \in CallSet /\ call'[w].request \in Requests
      <3>1. call[w].request \in Requests
        BY <1>4, <1>C DEF NoReceipt, At
      <3>2. ASSUME NEW s \in {"commit", "read"}, call'[w] = [call[w] EXCEPT !.step = s]
            PROVE  call'[w] \in CallSet /\ call'[w].request \in Requests
        BY <1>C, <3>1, <3>2 DEF CallSet
      <3> QED
        BY <1>4, <3>2, OwnCall
    <2> QED
      BY <1>1, <1>4, <2>1 DEF NoReceipt
  <1>5. CASE ReadExisting(w)
    <2>1. call'[w] \in CallSet /\ (call'[w].step # "idle" => call'[w].request \in Requests)
      <3>1. call[w].request \in Requests
        BY <1>5, <1>C DEF ReadExisting, At
      <3>2. record[Request(w).record] \in Nat
        BY <3>1, RequestFields DEF Request, ServiceTypes
      <3>3. ASSUME call'[w] = [call[w] EXCEPT !.step = "commit",
                                              !.existing = record[Request(w).record]]
            PROVE  call'[w] \in CallSet /\ call'[w].request \in Requests
        BY <1>C, <3>1, <3>2, <3>3 DEF CallSet
      <3> QED
        BY <1>5, <3>3, OwnCall, IdleType
    <2> QED
      BY <1>1, <1>5, <2>1 DEF ReadExisting
  <1>6. CASE Abort(w) \/ Fail(w) \/ PublishRecordChange(w)
    BY <1>1, <1>6, OwnCall, IdleType DEF Abort, Fail, PublishRecordChange
  <1>7. ASSUME Transaction(w), \A v \in Nat : audit'[Len(audit')].version = v =>
                 call'[w] \in CallSet /\ call'[w].request \in Requests
        PROVE  EffectInv'
    BY <1>7, <1>S, TransactionCommits, CommittedKeeps DEF ServiceTypes
  <1>8. CASE Commit(w)
    <2>1. Transaction(w) /\ call'[w] = [call[w] EXCEPT !.step = "publish",
                                                       !.result = audit'[Len(audit')].version]
      BY <1>8 DEF Commit, ServiceTypes
    <2>2. call[w].request \in Requests
      BY <1>C, <2>1 DEF Transaction, At
    <2>3. ASSUME NEW v \in Nat, audit'[Len(audit')].version = v
          PROVE  call'[w] \in CallSet /\ call'[w].request \in Requests
      BY <1>C, <2>1, <2>2, <2>3 DEF CallSet
    <2> QED
      BY <1>7, <2>1, <2>3
  <1>9. CASE CommitUnacknowledged(w)
    <2>1. Transaction(w) /\ call'[w] = [call[w] EXCEPT !.step = "receipt", !.existing = 0]
      BY <1>9, OwnCall DEF CommitUnacknowledged
    <2>2. call[w].request \in Requests
      BY <1>C, <2>1 DEF Transaction, At
    <2>3. call'[w] = [step |-> "receipt", request |-> call[w].request, existing |-> 0,
                      result |-> call[w].result]
      BY <1>C, <2>1 DEF CallSet
    <2>4. call'[w] \in CallSet /\ call'[w].request \in Requests
      BY <1>C, <2>2, <2>3 DEF CallSet
    <2> QED
      BY <1>7, <2>1, <2>4
  <1> QED
    BY <1>2, <1>3, <1>4, <1>5, <1>6, <1>8, <1>9
\* Steps of the feed leave the store and the calls alone; a restart forgets the calls.
LEMMA NextOfService ==
  ASSUME [Next]_vars
  PROVE  \/ UNCHANGED <<storeVars, call>>
         \/ Restart
         \/ \E w \in Writers :
              \/ Begin(w) \/ ReplayReceipt(w) \/ NoReceipt(w) \/ ReadExisting(w) \/ Commit(w)
              \/ CommitUnacknowledged(w) \/ Abort(w) \/ Fail(w) \/ PublishRecordChange(w)
  BY DEF Next, vars, serviceVars

LEMMA NextKeepsEffect == EffectInv /\ [Next]_vars => EffectInv'
  <1> SUFFICES ASSUME EffectInv, [Next]_vars PROVE EffectInv'
    OBVIOUS
  <1>1. CASE UNCHANGED <<storeVars, call>>
    BY <1>1 DEF EffectInv, ServiceTypes, OneEffectPerKey, storeVars
  <1>2. CASE Restart
    <2>1. /\ call' \in [Writers -> CallSet]
          /\ \A w \in Writers : call'[w].step # "idle" => call'[w].request \in Requests
      BY <1>2, IdleType DEF Restart
    <2> QED
      BY <1>2, <2>1 DEF Restart, EffectInv, ServiceTypes, OneEffectPerKey, storeVars
  <1> QED
    BY <1>1, <1>2, NextOfService, WriterKeepsEffect

LEMMA InitEffect == Init => EffectInv
  <1> SUFFICES ASSUME Init PROVE EffectInv
    OBVIOUS
  <1>1. IsFiniteSet(receipts) /\ Cardinality(receipts) = 0
    BY FS_EmptySet DEF Init
  <1>2. ServiceTypes
    BY IdleType DEF Init, ServiceTypes
  <1>3. OneEffectPerKey
    BY <1>1 DEF Init, OneEffectPerKey
  <1> QED
    BY <1>1, <1>2, <1>3 DEF EffectInv

LEMMA EffectInvariant == Spec => []EffectInv
  BY InitEffect, NextKeepsEffect, PTL DEF Spec

\* recordReceipt and completeRecord: however requests are repeated, raced or left without
\* an answer, a key takes effect at most once.
THEOREM OneEffect == Spec => []OneEffectPerKey
  <1>1. EffectInv => OneEffectPerKey
    BY DEF EffectInv
  <1> QED
    BY <1>1, EffectInvariant, PTL
-----------------------------------------------------------------------------
(* The audit log as history, when callers send only versions they have been    *)
(* shown and create a record under one key.                                    *)

Created(r) == \E e \in receipts : e.op = "create" /\ e.hash.record = r
Creates(w, r) ==
  call[w].step # "idle" /\ call[w].request.op = "create" /\ call[w].request.record = r

\* A record is created under one key.
OneCreator ==
  /\ \A e, f \in receipts : e.op = "create" /\ f.op = "create" /\ e.hash.record = f.hash.record =>
       e.key = f.key
  /\ \A e \in receipts, w \in Writers : e.op = "create" /\ Creates(w, e.hash.record) =>
       call[w].request.key = e.key
  /\ \A w, x \in Writers, r \in Records : Creates(w, r) /\ Creates(x, r) =>
       call[w].request.key = call[x].request.key

\* A request that may still take effect names a version that the record had, and read
\* one that it had no earlier: versions of a record only grow until it is deleted.
WorkInv(w) ==
  LET q == Request(w)
  IN  call[w].step \in {"receipt", "read", "commit"} =>
        /\ q.op = "create" => q.expected = 0
        /\ q.op # "create" => q.expected > 0
        /\ q.op # "create" /\ Found(q) = {} =>
             /\ Created(q.record)
             /\ record[q.record] = 0 \/ q.expected <= record[q.record]
             /\ call[w].step = "commit" =>
                  /\ q.expected <= call[w].existing
                  /\ record[q.record] = 0 \/ call[w].existing <= record[q.record]

HistoryInv ==
  /\ OneCreator
  /\ \A r \in Records : record[r] > 0 => Created(r)
  /\ \A w \in Writers : WorkInv(w)
  /\ AuditIsTheHistory
\* An appended entry leaves what the earlier entries say, and says where its record stands.
LEMMA Appended ==
  ASSUME NEW a \in Seq(EntrySet), NEW e \in EntrySet
  PROVE  LET b == Append(a, e)
             L == Len(a)
         IN  /\ Len(b) = L + 1 /\ b[L + 1] = e
             /\ \A i \in 1 .. L : b[i] = a[i]
             /\ \A n \in 0 .. L, r \in Records : Standing(b, r, n) = Standing(a, r, n)
             /\ Standing(b, e.record, L + 1) = IF e.op = "delete" THEN {} ELSE {e.version}
             /\ \A r \in Records : r # e.record => Standing(b, r, L + 1) = Standing(a, r, L)
  <1> DEFINE b == Append(a, e)
             L == Len(a)
  <1>1. L \in Nat /\ Len(b) = L + 1 /\ b[L + 1] = e
        /\ \A i \in 1 .. L : b[i] = a[i]
    OBVIOUS
  <1> HIDE DEF b, L
  <1>3. ASSUME NEW n \in 0 .. L, NEW r \in Records PROVE Standing(b, r, n) = Standing(a, r, n)
    <2>1. \A i \in 1 .. n : b[i] = a[i]
      BY <1>1
    <2>2. Mentions(b, r, n) = Mentions(a, r, n) /\ Mentions(a, r, n) \subseteq 1 .. n
      BY <2>1 DEF Mentions
    <2> QED
      BY <2>1, <2>2 DEF Standing
  <1>4. Mentions(b, e.record, L + 1) = Mentions(a, e.record, L) \cup {L + 1}
    BY <1>1 DEF Mentions
  <1>5. \A i \in Mentions(a, e.record, L) : i < L + 1 /\ i \in Nat
    BY <1>1 DEF Mentions
  <1>6. Standing(b, e.record, L + 1) = IF e.op = "delete" THEN {} ELSE {e.version}
    <2>1. \A i \in Mentions(b, e.record, L + 1) :
            (\A j \in Mentions(b, e.record, L + 1) : j <= i) <=> i = L + 1
      <3> SUFFICES ASSUME NEW i \in Mentions(a, e.record, L) \cup {L + 1}
                   PROVE  (\A j \in Mentions(a, e.record, L) \cup {L + 1} : j <= i) <=> i = L + 1
        BY <1>4
      <3>1. CASE i = L + 1
        BY <1>1, <1>5, <3>1
      <3>2. CASE i # L + 1
        <4>1. i < L + 1 /\ i \in Nat
          BY <1>5, <3>2
        <4>2. ~(L + 1 <= i)
          BY <1>1, <4>1
        <4> QED
          BY <3>2, <4>2
      <3> QED
        BY <3>1, <3>2
    <2>2. L + 1 \in Mentions(b, e.record, L + 1)
      BY <1>4
    <2> QED
      BY <1>1, <2>1, <2>2 DEF Standing
  <1>7. ASSUME NEW r \in Records, r # e.record PROVE Standing(b, r, L + 1) = Standing(a, r, L)
    <2>1. Mentions(b, r, L + 1) = Mentions(a, r, L) /\ Mentions(a, r, L) \subseteq 1 .. L
      BY <1>1, <1>7 DEF Mentions
    <2> QED
      BY <1>1, <2>1 DEF Standing
  <1> QED
    BY <1>1, <1>3, <1>6, <1>7 DEF b, L

\* A committed write extends the history, when the document it read before is the one it
\* replaces.
LEMMA HistoryExtended ==
  ASSUME EffectInv, AuditIsTheHistory, NEW w \in Writers, Request(w) \in Requests,
         NEW new \in Nat, NEW version \in Nat, Committed(w, new, version),
         \/ Request(w).op = "create" /\ new = 1 /\ version = 1 /\ Request(w).expected = 0
         \/ /\ Request(w).op = "update" /\ new = record[Request(w).record] + 1 /\ version = new
            /\ call[w].existing = Request(w).expected /\ Request(w).expected > 0
         \/ /\ Request(w).op = "delete" /\ new = 0 /\ version = call[w].existing
            /\ call[w].existing = Request(w).expected /\ Request(w).expected > 0
  PROVE  AuditIsTheHistory'
  <1>1. PICK q \in Requests : q = Request(w)
    OBVIOUS
  <1>2. q.op \in Operations /\ q.record \in Records /\ q.expected \in Nat
    BY RequestFields
  <1>3. PICK x \in Nat : x = call[w].existing
    BY DEF EffectInv, ServiceTypes, CallSet
  <1>4. PICK e \in EntrySet : e = [op |-> q.op, record |-> q.record, version |-> version,
                                    before |-> x, expected |-> q.expected]
    BY <1>2 DEF EntrySet
  <1>5. /\ e.op = q.op /\ e.record = q.record /\ e.version = version
        /\ e.before = x /\ e.expected = q.expected
    BY <1>4
  <1>6. audit \in Seq(EntrySet) /\ record \in [Records -> Nat]
    BY DEF EffectInv, ServiceTypes
  <1>7. PICK L \in Nat : L = Len(audit)
    BY <1>6
  <1>8. /\ audit' = Append(audit, e) /\ record' = [record EXCEPT ![q.record] = new]
        /\ record[q.record] = q.expected
    BY <1>1, <1>3, <1>4 DEF Committed
  <1>9. /\ Len(audit') = L + 1 /\ audit'[L + 1] = e
        /\ \A i \in 1 .. L : audit'[i] = audit[i]
        /\ \A n \in 0 .. L, r \in Records : Standing(audit', r, n) = Standing(audit, r, n)
        /\ Standing(audit', q.record, L + 1) = IF q.op = "delete" THEN {} ELSE {version}
        /\ \A r \in Records : r # q.record => Standing(audit', r, L + 1) = Standing(audit, r, L)
    <2>1. audit' = Append(audit, e) /\ audit \in Seq(EntrySet) /\ L = Len(audit)
      BY <1>6, <1>7, <1>8
    <2>2. LET b == Append(audit, e)
              K == Len(audit)
          IN  /\ Len(b) = K + 1 /\ b[K + 1] = e
              /\ \A i \in 1 .. K : b[i] = audit[i]
              /\ \A n \in 0 .. K, r \in Records : Standing(b, r, n) = Standing(audit, r, n)
              /\ Standing(b, e.record, K + 1) = IF e.op = "delete" THEN {} ELSE {e.version}
              /\ \A r \in Records : r # e.record => Standing(b, r, K + 1) = Standing(audit, r, K)
      BY <2>1, Appended, Zenon
    <2> QED
      BY <1>5, <2>1, <2>2
  <1>10. DOMAIN audit' = 1 .. L + 1 /\ DOMAIN audit = 1 .. L
    BY <1>6, <1>7, <1>8
  <1>11. Standing(audit, q.record, L) = {q.expected} \ {0}
    BY <1>2, <1>7, <1>8 DEF AuditIsTheHistory
  <1>12. ASSUME NEW i \in 1 .. L + 1
         PROVE  LET f == audit'[i]
                    standing == Standing(audit', f.record, i - 1)
                IN  /\ f.op = "create" => standing = {} /\ f.version = 1
                    /\ f.op # "create" => standing = {f.before} /\ f.before = f.expected
                    /\ f.op = "update" => f.version = f.before + 1
    <2>1. CASE i \in 1 .. L
      <3>0. i - 1 \in 0 .. L /\ audit'[i] = audit[i]
        BY <1>9, <2>1
      <3>1. i - 1 \in 0 .. L /\ audit'[i] = audit[i] /\ audit[i].record \in Records
        <4>1. audit[i] \in EntrySet
          BY <1>6, <1>7, <2>1
        <4> QED
          BY <3>0, <4>1 DEF EntrySet
      <3>2. Standing(audit', audit[i].record, i - 1) = Standing(audit, audit[i].record, i - 1)
        BY <1>9, <3>1
      <3> QED
        BY <1>10, <2>1, <3>1, <3>2 DEF AuditIsTheHistory
    <2>2. CASE i = L + 1
      <3>1. i - 1 = L /\ audit'[i] = e
        BY <1>9, <2>2
      <3>2. Standing(audit', q.record, L) = {q.expected} \ {0}
        BY <1>2, <1>9, <1>11
      <3>3. \/ q.op = "create" /\ version = 1 /\ q.expected = 0
            \/ q.op = "update" /\ version = q.expected + 1 /\ x = q.expected /\ q.expected > 0
            \/ q.op = "delete" /\ x = q.expected /\ q.expected > 0
        BY <1>1, <1>3, <1>8
      <3>4. (q.expected > 0 => {q.expected} \ {0} = {q.expected}) /\ {0} \ {0} = {}
        BY <1>2
      <3> QED
        BY <1>5, <3>1, <3>2, <3>3, <3>4
    <2> QED
      BY <2>1, <2>2
  <1>13. ASSUME NEW r \in Records PROVE Standing(audit', r, L + 1) = {record'[r]} \ {0}
    <2>1. CASE r = q.record
      <3>1. record'[r] = new
        BY <1>2, <1>6, <1>8, <2>1
      <3>2. (q.op = "delete" => new = 0) /\ (q.op # "delete" => new = version /\ new > 0)
        BY <1>1, <1>2, <1>8
      <3> QED
        BY <1>9, <2>1, <3>1, <3>2
    <2>2. CASE r # q.record
      BY <1>6, <1>7, <1>8, <1>9, <2>2 DEF AuditIsTheHistory
    <2> QED
      BY <2>1, <2>2
  <1> QED
    BY <1>9, <1>10, <1>12, <1>13 DEF AuditIsTheHistory
\* A create that commits is the first of its record.
LEMMA FirstCreate ==
  ASSUME HistoryInv, NEW w \in Writers, call[w].step # "idle", Request(w).op = "create",
         Found(Request(w)) = {}
  PROVE  ~Created(Request(w).record)
  <1> SUFFICES ASSUME NEW e \in receipts, e.op = "create", e.hash.record = Request(w).record
               PROVE  FALSE
    BY DEF Created
  <1>1. Creates(w, e.hash.record)
    BY DEF Creates, Request
  <1>2. e.key = Request(w).key
    BY <1>1 DEF HistoryInv, OneCreator, Request
  <1> QED
    BY <1>2 DEF Found

\* Requests that were begun before a commit, seen after it.
LEMMA WorkKept ==
  ASSUME EffectInv, HistoryInv, NEW w \in Writers, Request(w) \in Requests, call[w].step = "commit",
         NEW new \in Nat, NEW version \in Nat, Committed(w, new, version),
         \/ Request(w).op = "create"
         \/ Request(w).op # "create" /\ (new = 0 \/ new >= record[Request(w).record]),
         NEW x \in Writers, x # w, call'[x] = call[x]
  PROVE  WorkInv(x)'
  <1>1. /\ receipts \subseteq receipts' /\ record' = [record EXCEPT ![Request(w).record] = new]
        /\ Found(Request(w)) = {}
    BY DEF Committed
  <1>2. record \in [Records -> Nat] /\ call[x] \in CallSet
        /\ (call[x].step # "idle" => call[x].request \in Requests)
    BY DEF EffectInv, ServiceTypes
  <1> SUFFICES ASSUME call[x].step \in {"receipt", "read", "commit"}
               PROVE  WorkInv(x)'
    BY DEF WorkInv
  <1>3. PICK q \in Requests : q = call[x].request
    BY <1>2
  <1>4. q.record \in Records /\ q.expected \in Nat /\ call[x].existing \in Nat
    BY <1>2, RequestFields DEF CallSet
  <1>5. WorkInv(x) /\ Request(x) = q /\ Request(x)' = q
    BY <1>3 DEF HistoryInv, Request
  <1>6. (q.op = "create" => q.expected = 0) /\ (q.op # "create" => q.expected > 0)
    BY <1>5 DEF WorkInv
  <1>7. ASSUME q.op # "create", Found(q)' = {}
        PROVE  /\ Created(q.record)'
               /\ record'[q.record] = 0 \/ q.expected <= record'[q.record]
               /\ call[x].step = "commit" =>
                    /\ q.expected <= call[x].existing
                    /\ record'[q.record] = 0 \/ call[x].existing <= record'[q.record]
    <2>1. Found(q) = {}
      BY <1>1, <1>7 DEF Found
    <2>2. /\ Created(q.record)
          /\ record[q.record] = 0 \/ q.expected <= record[q.record]
          /\ call[x].step = "commit" =>
               /\ q.expected <= call[x].existing
               /\ record[q.record] = 0 \/ call[x].existing <= record[q.record]
      BY <1>5, <1>7, <2>1 DEF WorkInv
    <2>3. Created(q.record)'
      BY <1>1, <2>2 DEF Created
    <2>4. CASE q.record # Request(w).record
      BY <1>1, <1>2, <1>4, <2>2, <2>3, <2>4
    <2>5. CASE q.record = Request(w).record
      <3>1. record'[q.record] = new
        BY <1>1, <1>2, <1>4, <2>5
      <3>2. Request(w).op # "create"
        BY <1>1, <2>2, <2>5, FirstCreate
      <3>3. record[q.record] > 0 \/ new = 0
        BY <1>1, <2>5, <3>2, <1>2, <1>4, RequestFields DEF Committed, HistoryInv, WorkInv
      <3> QED
        BY <1>2, <1>4, <2>2, <2>3, <2>5, <3>1, <3>2, <3>3
    <2> QED
      BY <2>4, <2>5
  <1> QED
    BY <1>5, <1>6, <1>7 DEF WorkInv

\* A committed write keeps one creator per record.
LEMMA CreatorKept ==
  ASSUME EffectInv, HistoryInv, NEW w \in Writers, Request(w) \in Requests, call[w].step = "commit",
         NEW new, NEW version, Committed(w, new, version),
         \A x \in Writers : call'[x].step # "idle" =>
           call[x].step # "idle" /\ call'[x].request = call[x].request
  PROVE  OneCreator'
  <1> DEFINE n == [op |-> Request(w).op, key |-> Request(w).key, hash |-> Hash(Request(w)),
                   version |-> version]
  <1>1. receipts' = receipts \cup {n}
    BY DEF Committed
  <1>2. n.op = Request(w).op /\ n.key = Request(w).key /\ n.hash.record = Request(w).record
    BY DEF Hash
  <1> HIDE DEF n
  <1>3. \A x \in Writers : \A r :
          Creates(x, r)' => Creates(x, r) /\ call'[x].request = call[x].request
    BY DEF Creates
  <1>4. n.op = "create" => Creates(w, n.hash.record) /\ call[w].request.key = n.key
    BY <1>2 DEF Creates, Request
  <1>5. \A e \in receipts : e.op = "create" /\ n.op = "create" /\ e.hash.record = n.hash.record =>
          e.key = n.key
    BY <1>4 DEF HistoryInv, OneCreator
  <1>6. \A x \in Writers : n.op = "create" /\ Creates(x, n.hash.record) => call[x].request.key = n.key
    <2>1. n.hash.record \in Records
      BY <1>2, RequestFields
    <2> QED
      BY <1>4, <2>1 DEF HistoryInv, OneCreator
  <1>7. \A e, f \in receipts' : e.op = "create" /\ f.op = "create" /\ e.hash.record = f.hash.record =>
          e.key = f.key
    BY <1>1, <1>5 DEF HistoryInv, OneCreator
  <1>8. \A e \in receipts', x \in Writers : e.op = "create" /\ Creates(x, e.hash.record)' =>
          call'[x].request.key = e.key
    BY <1>1, <1>3, <1>6 DEF HistoryInv, OneCreator
  <1>9. \A x, y \in Writers, r \in Records : Creates(x, r)' /\ Creates(y, r)' =>
          call'[x].request.key = call'[y].request.key
    BY <1>3 DEF HistoryInv, OneCreator
  <1> QED
    BY <1>7, <1>8, <1>9 DEF OneCreator

\* What is left to show when the documents stay as they are.
LEMMA HistoryStands ==
  ASSUME EffectInv, HistoryInv, UNCHANGED storeVars,
         OneCreator', \A x \in Writers : WorkInv(x)'
  PROVE  HistoryInv'
  <1>1. AuditIsTheHistory'
    <2>1. audit' = audit /\ record' = record /\ AuditIsTheHistory
      BY DEF HistoryInv, storeVars
    <2> QED
      BY <2>1 DEF AuditIsTheHistory
  <1>2. (\A r \in Records : record[r] > 0 => Created(r))'
    BY DEF HistoryInv, Created, storeVars
  <1> QED
    BY <1>1, <1>2 DEF HistoryInv

LEMMA WorkStands ==
  ASSUME HistoryInv, UNCHANGED storeVars, NEW x \in Writers, call'[x] = call[x]
  PROVE  WorkInv(x)'
  BY DEF HistoryInv, WorkInv, Request, Found, Created, storeVars

\* Calls that go on keep their requests.
LEMMA CreatorStands ==
  ASSUME HistoryInv, UNCHANGED storeVars,
         \A x \in Writers : call'[x].step # "idle" =>
           call[x].step # "idle" /\ call'[x].request = call[x].request
  PROVE  OneCreator'
  <1>1. \A x \in Writers : \A r :
          Creates(x, r)' => Creates(x, r) /\ call'[x].request = call[x].request
    BY DEF Creates
  <1>2. receipts' = receipts
    BY DEF storeVars
  <1> QED
    BY <1>1, <1>2 DEF HistoryInv, OneCreator

\* A well-behaved caller begins.
LEMMA BeginKeepsHistory ==
  ASSUME EffectInv, HistoryInv, WellBehaved, NEW w \in Writers, Begin(w)
  PROVE  HistoryInv'
  <1>1. ServiceTypes /\ UNCHANGED storeVars /\ call[w].step = "idle"
    BY DEF EffectInv, Begin, At
  <1>2. PICK q \in Requests :
          /\ CreateRequest(q) \/ UpdateRequest(q) \/ DeleteRequest(q)
          /\ call'[w] = [step |-> "receipt", request |-> q, existing |-> 0, result |-> 0]
    BY <1>1, OwnCall
  <1>3. call'[w].step = "receipt" /\ call'[w].request = q
    BY <1>2
  <1>4. \A x \in Writers : x # w => call'[x] = call[x]
    BY <1>1, OtherWriters
  <1>5. q.record \in Records /\ q.op \in Operations /\ q.expected \in Nat
        /\ record[q.record] \in Nat
    BY <1>1, RequestFields DEF ServiceTypes
  <1>6. receipts' = receipts /\ record' = record
    BY <1>1 DEF storeVars
  <1>7. WorkInv(w)'
    <2>1. Request(w)' = q
      BY <1>3 DEF Request
    <2>2. (q.op = "create" => q.expected = 0) /\ (q.op # "create" => q.expected > 0)
      BY <1>2, <1>5 DEF CreateRequest, UpdateRequest, DeleteRequest
    <2>3. ASSUME q.op # "create", Found(q) = {}
          PROVE  Created(q.record) /\ q.expected <= record[q.record]
      <3>1. ~Repeated(q)
        BY <2>3 DEF Found, Repeated
      <3>2. q.expected <= record[q.record]
        BY <1>2, <2>3, <3>1 DEF CreateRequest, UpdateRequest, DeleteRequest
      <3>3. record[q.record] > 0
        BY <1>5, <2>2, <2>3, <3>2
      <3> QED
        BY <1>5, <3>2, <3>3 DEF HistoryInv
    <2>4. Found(q)' = Found(q) /\ Created(q.record)' = Created(q.record)
      BY <1>6 DEF Found, Created
    <2> QED
      BY <1>3, <1>6, <2>1, <2>2, <2>3, <2>4 DEF WorkInv
  <1>8. OneCreator'
    <2>1. \A x \in Writers : \A r :
          x # w => (Creates(x, r)' <=> Creates(x, r))
      BY <1>4 DEF Creates
    <2>2. \A r : Creates(w, r)' => q.op = "create" /\ r = q.record
      BY <1>3 DEF Creates
    <2>3. ASSUME q.op = "create"
          PROVE  /\ \A e \in receipts : e.op = "create" /\ e.hash.record = q.record => e.key = q.key
                 /\ \A x \in Writers : Creates(x, q.record) => call[x].request.key = q.key
      <3>1. CASE ~Claimed(q.record, q.key)
        BY <3>1 DEF Claimed, Creates
      <3>2. CASE Repeated(q)
        <4>1. PICK e \in receipts : e.op = q.op /\ e.key = q.key /\ e.hash = Hash(q)
          BY <3>2 DEF Repeated
        <4>2. e.hash.record = q.record
          BY <4>1 DEF Hash
        <4> QED
          BY <2>3, <4>1, <4>2 DEF HistoryInv, OneCreator
      <3> QED
        BY <1>2, <2>3, <3>1, <3>2 DEF CreateRequest, UpdateRequest, DeleteRequest
    <2>4. \A e, f \in receipts' : e.op = "create" /\ f.op = "create" /\ e.hash.record = f.hash.record =>
            e.key = f.key
      BY <1>6 DEF HistoryInv, OneCreator
    <2>5. ASSUME NEW e \in receipts', NEW x \in Writers, e.op = "create", Creates(x, e.hash.record)'
          PROVE  call'[x].request.key = e.key
      <3>1. CASE x = w
        BY <1>3, <1>6, <2>2, <2>3, <2>5, <3>1
      <3>2. CASE x # w
        BY <1>4, <1>6, <2>1, <2>5, <3>2 DEF HistoryInv, OneCreator
      <3> QED
        BY <3>1, <3>2
    <2>6. ASSUME NEW x \in Writers, NEW y \in Writers, NEW r \in Records,
                 Creates(x, r)', Creates(y, r)'
          PROVE  call'[x].request.key = call'[y].request.key
      <3>1. CASE x # w /\ y # w
        BY <1>4, <2>1, <2>6, <3>1 DEF HistoryInv, OneCreator
      <3>2. CASE x = w /\ y # w
        BY <1>3, <1>4, <2>1, <2>2, <2>3, <2>6, <3>2
      <3>3. CASE y = w /\ x # w
        BY <1>3, <1>4, <2>1, <2>2, <2>3, <2>6, <3>3
      <3> QED
        BY <3>1, <3>2, <3>3
    <2> QED
      BY <2>4, <2>5, <2>6 DEF OneCreator
  <1>9. \A x \in Writers : WorkInv(x)'
    BY <1>1, <1>4, <1>7, WorkStands
  <1> QED
    BY <1>1, <1>8, <1>9, HistoryStands

\* The steps of a request that write nothing.
LEMMA ReadingKeepsHistory ==
  ASSUME EffectInv, HistoryInv, NEW w \in Writers,
         \/ ReplayReceipt(w) \/ NoReceipt(w) \/ ReadExisting(w) \/ Abort(w) \/ Fail(w)
         \/ PublishRecordChange(w)
  PROVE  HistoryInv'
  <1>1. ServiceTypes /\ UNCHANGED storeVars
    BY DEF EffectInv, ReplayReceipt, NoReceipt, ReadExisting, Abort, Fail, PublishRecordChange
  <1>2. call[w].step # "idle" /\ call[w] \in CallSet /\ Request(w) \in Requests
    BY <1>1 DEF ServiceTypes, Request, ReplayReceipt, NoReceipt, ReadExisting, Abort, Fail,
       PublishRecordChange, At
  <1>3. \A x \in Writers : x # w => call'[x] = call[x]
    BY <1>1, OtherWriters
  <1>4. receipts' = receipts /\ record' = record
    BY <1>1 DEF storeVars
  <1>5. record[Request(w).record] \in Nat /\ Request(w).expected \in Nat
    BY <1>1, <1>2, RequestFields DEF ServiceTypes
  <1>6. ASSUME call'[w] = Idle PROVE HistoryInv'
    <2>1. call'[w].step = "idle"
      BY <1>6, IdleType
    <2>2. WorkInv(w)'
      BY <2>1 DEF WorkInv
    <2> QED
      BY <1>1, <1>3, <2>1, <2>2, HistoryStands, WorkStands, CreatorStands
  <1>7. ASSUME call'[w].request = Request(w), WorkInv(w)' PROVE HistoryInv'
    <2>1. OneCreator'
      BY <1>1, <1>2, <1>3, <1>7, CreatorStands DEF Request
    <2> QED
      BY <1>1, <1>3, <1>7, <2>1, HistoryStands, WorkStands
  <1>8. ASSUME NEW v \in Nat, call'[w] = [call[w] EXCEPT !.step = "publish", !.result = v]
        PROVE  HistoryInv'
    <2>1. call'[w].step = "publish" /\ call'[w].request = Request(w)
      BY <1>2, <1>8 DEF CallSet, Request
    <2>2. WorkInv(w)'
      BY <2>1 DEF WorkInv
    <2> QED
      BY <1>7, <2>1, <2>2
  <1>9. CASE NoReceipt(w)
    <2>1. call[w].step = "receipt"
      BY <1>9 DEF NoReceipt, At
    <2>2. /\ call'[w].request = Request(w)
          /\ \/ Request(w).op = "create" /\ call'[w].step = "commit"
             \/ Request(w).op # "create" /\ call'[w].step = "read"
      BY <1>1, <1>2, <1>9, OwnCall DEF CallSet, Request
    <2>3. Found(Request(w))' = Found(Request(w)) /\ Request(w)' = Request(w)
          /\ Created(Request(w).record)' = Created(Request(w).record)
      BY <1>4, <2>2 DEF Found, Request, Created
    <2>4. WorkInv(w)'
      BY <1>4, <2>1, <2>2, <2>3 DEF HistoryInv, WorkInv
    <2> QED
      BY <1>7, <2>2, <2>4
  <1>10. ASSUME ReadExisting(w), record[Request(w).record] > 0,
                call'[w] = [call[w] EXCEPT !.step = "commit", !.existing = record[Request(w).record]]
         PROVE  HistoryInv'
    <2>1. call[w].step = "read"
      BY <1>10 DEF ReadExisting, At
    <2>2. /\ call'[w].request = Request(w) /\ call'[w].step = "commit"
          /\ call'[w].existing = record[Request(w).record]
      BY <1>2, <1>10 DEF CallSet, Request
    <2>3. Found(Request(w))' = Found(Request(w)) /\ Request(w)' = Request(w)
          /\ Created(Request(w).record)' = Created(Request(w).record)
      BY <1>4, <2>2 DEF Found, Request, Created
    <2>4. WorkInv(w)'
      BY <1>4, <1>5, <1>10, <2>1, <2>2, <2>3 DEF HistoryInv, WorkInv
    <2> QED
      BY <1>7, <2>2, <2>4
  <1> QED
    BY <1>1, <1>6, <1>8, <1>9, <1>10, OwnCall
\* A create, an update or a delete commits.
LEMMA TransactionKeepsHistory ==
  ASSUME EffectInv, HistoryInv, NEW w \in Writers, Transaction(w),
         \A x \in Writers : x # w => call'[x] = call[x],
         call'[w].request = call[w].request, call'[w].step \in {"publish", "receipt"}
  PROVE  HistoryInv'
  <1>0. ServiceTypes
    BY DEF EffectInv
  <1>1. Request(w) \in Requests /\ call[w].step = "commit"
    BY <1>0, TransactionCommits
  <1>2. PICK new \in Nat, version \in Nat :
          /\ Committed(w, new, version)
          /\ \/ Request(w).op = "create" /\ new = 1 /\ version = 1
             \/ Request(w).op = "update" /\ new = record[Request(w).record] + 1 /\ version = new
             \/ Request(w).op = "delete" /\ new = 0 /\ version = call[w].existing
    BY <1>0, TransactionCommits
  <1>3. PICK q \in Requests : q = Request(w)
    BY <1>1
  <1>4. q.record \in Records /\ q.expected \in Nat /\ record[q.record] \in Nat
        /\ call[w].existing \in Nat
    BY <1>0, RequestFields DEF ServiceTypes, CallSet
  <1>5. /\ Found(q) = {} /\ record[q.record] = q.expected
        /\ record' = [record EXCEPT ![q.record] = new]
        /\ receipts' = receipts \cup
             {[op |-> q.op, key |-> q.key, hash |-> Hash(q), version |-> version]}
    BY <1>2, <1>3 DEF Committed
  <1>12. \E e \in receipts' : e.op = q.op /\ e.key = q.key /\ e.hash.record = q.record
    <2> DEFINE e == [op |-> q.op, key |-> q.key, hash |-> Hash(q), version |-> version]
    <2>1. e \in receipts'
      BY <1>5
    <2>2. e.op = q.op /\ e.key = q.key /\ e.hash.record = q.record
      BY DEF Hash
    <2> QED
      BY <2>1, <2>2
  <1>6. /\ q.op = "create" => q.expected = 0
        /\ q.op # "create" => q.expected > 0 /\ call[w].existing = q.expected /\ Created(q.record)
    <2>1. WorkInv(w)
      BY DEF HistoryInv
    <2>2. /\ q.op = "create" => q.expected = 0
          /\ q.op # "create" =>
               /\ q.expected > 0 /\ Created(q.record) /\ q.expected <= call[w].existing
               /\ record[q.record] = 0 \/ call[w].existing <= record[q.record]
      BY <1>1, <1>3, <1>5, <2>1 DEF WorkInv
    <2> QED
      BY <1>4, <1>5, <2>2
  <1>7. AuditIsTheHistory'
    <2>1. AuditIsTheHistory
      BY DEF HistoryInv
    <2> QED
      BY <1>1, <1>2, <1>3, <1>6, <2>1, HistoryExtended
  <1>8. OneCreator'
    BY <1>1, <1>2, CreatorKept
  <1>9. \A x \in Writers : x # w => WorkInv(x)'
    <2>1. \/ Request(w).op = "create"
          \/ Request(w).op # "create" /\ (new = 0 \/ new >= record[Request(w).record])
      BY <1>2, <1>3, <1>4
    <2> QED
      BY <1>1, <1>2, <2>1, WorkKept
  <1>10. WorkInv(w)'
    <2>1. Request(w)' = q
      BY <1>3 DEF Request
    <2>2. Found(q)' # {}
      BY <1>12 DEF Found
    <2> QED
      BY <1>6, <2>1, <2>2 DEF WorkInv
  <1>11. ASSUME NEW r \in Records, record'[r] > 0 PROVE Created(r)'
    <2>1. Created(r) => Created(r)'
      BY <1>5 DEF Created
    <2>2. CASE r # q.record
      BY <1>0, <1>4, <1>5, <1>11, <2>1, <2>2 DEF HistoryInv, ServiceTypes
    <2>3. CASE r = q.record
      <3>1. CASE q.op = "create"
        BY <1>12, <2>3, <3>1 DEF Created
      <3>2. CASE q.op # "create"
        BY <1>6, <2>1, <2>3, <3>2
      <3> QED
        BY <3>1, <3>2
    <2> QED
      BY <2>2, <2>3
  <1> QED
    BY <1>7, <1>8, <1>9, <1>10, <1>11 DEF HistoryInv

LEMMA WriterKeepsHistory ==
  ASSUME EffectInv, HistoryInv, WellBehaved, NEW w \in Writers,
         \/ Begin(w) \/ ReplayReceipt(w) \/ NoReceipt(w) \/ ReadExisting(w) \/ Commit(w)
         \/ CommitUnacknowledged(w) \/ Abort(w) \/ Fail(w) \/ PublishRecordChange(w)
  PROVE  HistoryInv'
  <1>0. ServiceTypes
    BY DEF EffectInv
  <1>1. CASE Commit(w) \/ CommitUnacknowledged(w)
    <2>1. Transaction(w) /\ call[w] \in CallSet
      BY <1>0, <1>1 DEF Commit, CommitUnacknowledged, ServiceTypes
    <2>2. call'[w].request = call[w].request /\ call'[w].step \in {"publish", "receipt"}
      BY <1>0, <1>1, <2>1 DEF Commit, CommitUnacknowledged, ServiceTypes, CallSet
    <2>3. \A x \in Writers : x # w => call'[x] = call[x]
      BY <1>0, <1>1, OtherWriters
    <2> QED
      BY <2>1, <2>2, <2>3, TransactionKeepsHistory
  <1> QED
    BY <1>1, BeginKeepsHistory, ReadingKeepsHistory

LEMMA InitHistory == Init => HistoryInv
  <1> SUFFICES ASSUME Init PROVE HistoryInv
    OBVIOUS
  <1>1. \A w \in Writers : call[w].step = "idle"
    BY IdleType DEF Init
  <1>2. receipts = {} /\ audit = <<>> /\ record = [r \in Records |-> 0]
    BY DEF Init
  <1>3. OneCreator /\ \A w \in Writers : WorkInv(w)
    BY <1>1, <1>2 DEF OneCreator, Creates, WorkInv
  <1>4. ASSUME NEW r \in Records PROVE Standing(audit, r, Len(audit)) = {record[r]} \ {0}
    <2>1. Mentions(audit, r, Len(audit)) = {}
      BY <1>2 DEF Mentions
    <2>2. Standing(audit, r, Len(audit)) = {}
      BY <2>1 DEF Standing
    <2> QED
      BY <1>2, <2>2
  <1>5. DOMAIN audit = {}
    BY <1>2
  <1>6. AuditIsTheHistory
    BY <1>4, <1>5 DEF AuditIsTheHistory
  <1> QED
    BY <1>2, <1>3, <1>6 DEF HistoryInv

LEMMA NextKeepsHistory ==
  ASSUME EffectInv, HistoryInv, WellBehaved, [Next]_vars
  PROVE  HistoryInv'
  <1>1. CASE UNCHANGED <<storeVars, call>>
    <2>1. UNCHANGED storeVars /\ \A x \in Writers : call'[x] = call[x]
      BY <1>1
    <2> QED
      BY <2>1, HistoryStands, WorkStands, CreatorStands
  <1>2. CASE Restart
    <2>1. UNCHANGED storeVars /\ \A x \in Writers : call'[x].step = "idle"
      BY <1>2, IdleType DEF Restart
    <2>2. \A x \in Writers : WorkInv(x)'
      BY <2>1 DEF WorkInv
    <2> QED
      BY <2>1, <2>2, HistoryStands, CreatorStands
  <1> QED
    BY <1>1, <1>2, NextOfService, WriterKeepsHistory

\* The audit log tells the true history of every record, across repeated, raced, failed and
\* unacknowledged writes, when callers send only versions they have been shown and choose a
\* fresh id for each record that they create: the version that UpdateRecord and DeleteRecord
\* read outside the transaction is then the one that the transaction replaces.
THEOREM AuditTellsHistory ==
  ASSUME WellBehaved
  PROVE  Spec => []AuditIsTheHistory
  <1>1. EffectInv /\ HistoryInv /\ [Next]_vars => HistoryInv'
    BY NextKeepsHistory
  <1>2. HistoryInv => AuditIsTheHistory
    BY DEF HistoryInv
  <1> QED
    BY <1>1, <1>2, InitHistory, EffectInvariant, PTL DEF Spec
-----------------------------------------------------------------------------
(* Induction over natural numbers, by way of least elements. *)

LEMMA LeastNatural ==
  ASSUME NEW T, T \subseteq Nat, T # {}
  PROVE  \E x \in T : \A y \in T : x <= y
  <1>1. PICK x \in T : \A y \in T : ~(<<y, x>> \in OpToRel(<, Nat))
    BY WFMin, NatLessThanWellFounded, Zenon
  <1>2. \A y \in T : <<y, x>> \in Nat \X Nat
    OBVIOUS
  <1>3. \A y \in T : ~(y < x)
    BY <1>1, <1>2 DEF OpToRel
  <1> QED
    BY <1>3

LEMMA SetInduction ==
  ASSUME NEW S, 0 \in S, \A n \in Nat : n \in S => n + 1 \in S
  PROVE  \A n \in Nat : n \in S
  <1> SUFFICES ASSUME Nat \ S # {} PROVE FALSE
    OBVIOUS
  <1>1. PICK x \in Nat \ S : \A y \in Nat \ S : x <= y
    BY LeastNatural
  <1>2. x # 0
    OBVIOUS
  <1>3. x - 1 \in Nat /\ x - 1 \in S
    BY <1>1, <1>2
  <1> QED
    BY <1>3
-----------------------------------------------------------------------------
(* The change feed. *)

FeedKeys == (Operations \X Records \X Nat) \cup ({"projection"} \X Projected)
ChangeSet == [id : Nat, key : FeedKeys, table : {Watched, Other}, record : Records \cup {"none"}]

\* Ids are positions of the log, and the history is its last entries.
LogInv ==
  /\ log \in Seq(ChangeSet) /\ nextID = Len(log)
  /\ \A i \in 1 .. nextID : log[i].id = i
  /\ history \in Seq(ChangeSet) /\ Len(history) <= nextID
  /\ Len(history) = 0 => nextID = 0
  /\ \A i \in 1 .. Len(history) : history[i] = log[nextID - Len(history) + i]

\* A cursor that this process issued is not ahead of it, and subscribers stream.
ClientInv ==
  /\ replay \in [Clients -> Seq(ChangeSet)] /\ queue \in [Clients -> Seq(ChangeSet)]
  /\ cursor \in [Clients -> Nat] /\ since \in [Clients -> Nat]
  /\ epoch \in [Clients -> Nat] /\ process \in Nat
  /\ pc \in [Clients -> {"off", "admitted", "streaming"}]
  /\ subscribers \subseteq Clients /\ \A c \in subscribers : pc[c] = "streaming"
  /\ \A c \in Clients :
       /\ epoch[c] <= process
       /\ epoch[c] = process => cursor[c] <= nextID /\ since[c] <= nextID

StreamInv == LogInv /\ ClientInv /\ StreamIsContiguous

\* f[n] is what the loop has collected after n changes of h.
Selected(h, a, n, f) ==
  /\ f \in [0 .. n -> Seq(ChangeSet)]
  /\ f[0] = <<>>
  /\ \A i \in 1 .. n : f[i] = IF Missed(a, h[i]) THEN Append(f[i - 1], h[i]) ELSE f[i - 1]

\* Such a function exists.
LEMMA SelectionExists ==
  ASSUME NEW h \in Seq(ChangeSet), NEW a
  PROVE  \E f : Selected(h, a, Len(h), f)
  <1> DEFINE S == {n \in Nat : n <= Len(h) => \E f : Selected(h, a, n, f)}
  <1>1. 0 \in S
    <2> DEFINE f == [i \in 0 .. 0 |-> <<>>]
    <2>1. f \in [0 .. 0 -> Seq(ChangeSet)] /\ f[0] = <<>>
      OBVIOUS
    <2>2. Selected(h, a, 0, f)
      BY <2>1 DEF Selected
    <2> QED
      BY <2>2
  <1>2. ASSUME NEW n \in Nat, n \in S PROVE n + 1 \in S
    <2> SUFFICES ASSUME n + 1 <= Len(h) PROVE \E f : Selected(h, a, n + 1, f)
      OBVIOUS
    <2>1. PICK f : Selected(h, a, n, f)
      BY <1>2
    <2>2. h[n + 1] \in ChangeSet
      OBVIOUS
    <2> DEFINE next == IF Missed(a, h[n + 1]) THEN Append(f[n], h[n + 1]) ELSE f[n]
               g == [i \in 0 .. n + 1 |-> IF i <= n THEN f[i] ELSE next]
    <2>3. f[n] \in Seq(ChangeSet)
      BY <2>1 DEF Selected
    <2>4. next \in Seq(ChangeSet)
      BY <2>2, <2>3
    <2> HIDE DEF next
    <2>5. g \in [0 .. n + 1 -> Seq(ChangeSet)] /\ g[0] = <<>> /\ g[n + 1] = next
      BY <2>1, <2>4 DEF Selected
    <2>6. \A i \in 0 .. n : g[i] = f[i]
      OBVIOUS
    <2>7. ASSUME NEW i \in 1 .. n + 1
          PROVE  g[i] = IF Missed(a, h[i]) THEN Append(g[i - 1], h[i]) ELSE g[i - 1]
      <3>1. CASE i = n + 1
        BY <2>5, <2>6, <3>1 DEF next
      <3>2. CASE i # n + 1
        <4>1. i \in 1 .. n /\ i - 1 \in 0 .. n /\ i \in 0 .. n
          BY <3>2
        <4>2. f[i] = IF Missed(a, h[i]) THEN Append(f[i - 1], h[i]) ELSE f[i - 1]
          BY <2>1, <4>1 DEF Selected
        <4> QED
          BY <2>6, <4>1, <4>2
      <3> QED
        BY <3>1, <3>2
    <2> HIDE DEF g
    <2>8. Selected(h, a, n + 1, g)
      BY <2>5, <2>7 DEF Selected
    <2> QED
      BY <2>8
  <1> HIDE DEF S
  <1>3. \A n \in Nat : n \in S
    BY <1>1, <1>2, SetInduction
  <1>4. Len(h) \in Nat /\ Len(h) \in S
    BY <1>3
  <1> QED
    BY <1>4 DEF S

\* What the loop of Subscribe collects.
LEMMA ReplaySelects ==
  ASSUME LogInv, NEW a \in Nat
  PROVE  /\ Replay(a) \in Seq(ChangeSet)
         /\ Ascending(Replay(a))
         /\ a > 0 => Elements(Replay(a)) = {x \in Elements(history) : Missed(a, x)}
  <1> DEFINE L == Len(history)
             m == CHOOSE f : f = [i \in 0 .. L |->
                    IF i = 0 THEN <<>>
                    ELSE IF Missed(a, history[i]) THEN Append(f[i - 1], history[i]) ELSE f[i - 1]]
  <1>0. history \in Seq(ChangeSet) /\ L \in Nat
    BY DEF LogInv
  <1>1. PICK f : Selected(history, a, L, f)
    BY <1>0, SelectionExists
  <1>2. f = [i \in 0 .. L |->
                    IF i = 0 THEN <<>>
                    ELSE IF Missed(a, history[i]) THEN Append(f[i - 1], history[i]) ELSE f[i - 1]]
    <2> DEFINE G == [i \in 0 .. L |->
                    IF i = 0 THEN <<>>
                    ELSE IF Missed(a, history[i]) THEN Append(f[i - 1], history[i]) ELSE f[i - 1]]
    <2>1. f = [i \in 0 .. L |-> f[i]]
      BY <1>1 DEF Selected
    <2>2. \A i \in 0 .. L : f[i] = IF i = 0 THEN <<>>
                    ELSE IF Missed(a, history[i]) THEN Append(f[i - 1], history[i]) ELSE f[i - 1]
      <3> TAKE i \in 0 .. L
      <3>1. CASE i = 0
        BY <1>1, <3>1 DEF Selected
      <3>2. CASE i # 0
        <4>1. i \in 1 .. L
          BY <1>0, <3>2
        <4> QED
          BY <1>1, <3>2, <4>1 DEF Selected
      <3> QED
        BY <3>1, <3>2
    <2>3. f = G
      BY <2>1, <2>2, Zenon
    <2> QED
      BY <2>3
  <1>3. m = [i \in 0 .. L |->
                    IF i = 0 THEN <<>>
                    ELSE IF Missed(a, history[i]) THEN Append(m[i - 1], history[i]) ELSE m[i - 1]]
    BY <1>2, Zenon
  <1>4. Replay(a) = IF a = 0 THEN <<>> ELSE m[L]
    BY Zenon DEF Replay
  <1> HIDE DEF m, L
  <1>5. Selected(history, a, L, m)
    <2>1. \A i \in 0 .. L : m[i] = IF i = 0 THEN <<>>
                    ELSE IF Missed(a, history[i]) THEN Append(m[i - 1], history[i]) ELSE m[i - 1]
      BY <1>3, Zenon
    <2>2. m[0] = <<>>
      BY <1>0, <2>1
    <2>3. \A i \in 1 .. L : m[i] = IF Missed(a, history[i]) THEN Append(m[i - 1], history[i]) ELSE m[i - 1]
      BY <1>0, <2>1
    <2> DEFINE S == {n \in Nat : n <= L => m[n] \in Seq(ChangeSet)}
    <2>4. 0 \in S
      <3>1. <<>> \in Seq(ChangeSet)
        OBVIOUS
      <3> QED
        BY <2>2, <3>1
    <2>5. ASSUME NEW n \in Nat, n \in S PROVE n + 1 \in S
      <3> SUFFICES ASSUME n + 1 <= L PROVE m[n + 1] \in Seq(ChangeSet)
        OBVIOUS
      <3>1. n + 1 \in 1 .. L /\ m[n] \in Seq(ChangeSet) /\ history[n + 1] \in ChangeSet
        BY <1>0, <2>5 DEF L
      <3>2. m[n + 1] = IF Missed(a, history[n + 1]) THEN Append(m[n], history[n + 1]) ELSE m[n]
        BY <2>3, <3>1
      <3> QED
        BY <3>1, <3>2
    <2> HIDE DEF S
    <2>6. \A n \in Nat : n \in S
      BY <2>4, <2>5, SetInduction
    <2>7. \A n \in 0 .. L : m[n] \in Seq(ChangeSet)
      BY <1>0, <2>6 DEF S
    <2>8. m = [i \in 0 .. L |-> m[i]]
      BY <1>3, Zenon
    <2>9. m \in [0 .. L -> Seq(ChangeSet)]
      BY <2>7, <2>8
    <2> QED
      BY <2>2, <2>3, <2>9 DEF Selected
  <1> DEFINE Ok(s, n) == /\ Ascending(s)
                         /\ Elements(s) = {x \in {history[i] : i \in 1 .. n} : Missed(a, x)}
             S == {n \in Nat : n <= L => Ok(m[n], n)}
  <1>6. 0 \in S
    BY <1>5 DEF Selected, Ascending, Elements
  <1>7. ASSUME NEW n \in Nat, n \in S PROVE n + 1 \in S
    <2> SUFFICES ASSUME n + 1 <= L PROVE Ok(m[n + 1], n + 1)
      OBVIOUS
    <2> DEFINE s == m[n]
               x == history[n + 1]
    <2>1. /\ n + 1 \in 1 .. L /\ s \in Seq(ChangeSet) /\ x \in ChangeSet /\ Ok(s, n)
          /\ m[n + 1] = IF Missed(a, x) THEN Append(s, x) ELSE s
      <3>1. n + 1 \in 1 .. L /\ n \in 0 .. L /\ (n + 1) - 1 = n
        BY <1>0
      <3>2. s \in Seq(ChangeSet) /\ x \in ChangeSet
        BY <1>0, <1>5, <3>1 DEF L, Selected
      <3>3. Ok(s, n)
        BY <1>0, <1>7, <3>1
      <3>4. m[n + 1] = IF Missed(a, x) THEN Append(s, x) ELSE s
        BY <1>5, <3>1 DEF Selected
      <3> HIDE DEF Ok
      <3> QED
        BY <3>1, <3>2, <3>3, <3>4
    <2>2. \A i \in 1 .. n : history[i].id < x.id
      <3>1. nextID \in Nat /\ L <= nextID
        BY <1>0 DEF LogInv, L
      <3>2. \A i \in 1 .. L : history[i].id = nextID - L + i
        <4> TAKE i \in 1 .. L
        <4>1. nextID - L + i \in 1 .. nextID
          BY <1>0, <3>1
        <4> QED
          BY <4>1 DEF LogInv, L
      <3>3. \A i \in 1 .. n : i \in 1 .. L /\ history[i].id = nextID - L + i
        BY <1>0, <2>1, <3>2
      <3>4. x.id = nextID - L + n + 1
        BY <1>0, <2>1, <3>1, <3>2
      <3> QED
        BY <1>0, <3>1, <3>3, <3>4
    <2>3. {history[i] : i \in 1 .. n + 1} = {history[i] : i \in 1 .. n} \cup {x}
      OBVIOUS
    <2> HIDE DEF s, x
    <2>4. CASE ~Missed(a, x)
      BY <2>1, <2>3, <2>4
    <2>5. CASE Missed(a, x)
      <3>1. /\ Len(Append(s, x)) = Len(s) + 1 /\ Len(s) \in Nat
            /\ \A i \in 1 .. Len(s) : Append(s, x)[i] = s[i]
            /\ Append(s, x)[Len(s) + 1] = x
            /\ DOMAIN s = 1 .. Len(s) /\ DOMAIN Append(s, x) = 1 .. Len(s) + 1
        BY <2>1
      <3>2. Elements(Append(s, x)) = Elements(s) \cup {x}
        BY <3>1 DEF Elements
      <3>3. \A y \in Elements(s) : y.id < x.id
        BY <2>1, <2>2
      <3>4. \A i \in 1 .. Len(s) : s[i].id < x.id
        BY <3>1, <3>3 DEF Elements
      <3>5. Ascending(Append(s, x))
        BY <2>1, <3>1, <3>4 DEF Ascending
      <3>6. Elements(Append(s, x)) = {y \in {history[i] : i \in 1 .. n + 1} : Missed(a, y)}
        BY <2>1, <2>3, <2>5, <3>2
      <3> QED
        BY <2>1, <2>5, <3>5, <3>6
    <2> QED
      BY <2>4, <2>5
  <1> HIDE DEF S
  <1>8. \A n \in Nat : n \in S
    BY <1>6, <1>7, SetInduction
  <1>9. Ok(m[L], L) /\ m[L] \in Seq(ChangeSet)
    <2>1. L \in S /\ m[L] \in Seq(ChangeSet)
      BY <1>0, <1>5, <1>8 DEF Selected
    <2> HIDE DEF Ok
    <2> QED
      BY <1>0, <2>1 DEF S
  <1>10. {history[i] : i \in 1 .. L} = Elements(history)
    BY <1>0 DEF Elements, L
  <1>11. CASE a = 0
    <2>1. Replay(a) = <<>>
      BY <1>4, <1>11
    <2>2. <<>> \in Seq(ChangeSet) /\ DOMAIN <<>> = {}
      OBVIOUS
    <2>3. Ascending(<<>>)
      BY <2>2 DEF Ascending
    <2>4. ~(a > 0)
      BY <1>11
    <2> QED
      BY <2>1, <2>2, <2>3, <2>4, Zenon
  <1>12. CASE a # 0
    BY <1>4, <1>9, <1>10, <1>12
  <1> QED
    BY <1>11, <1>12

LEMMA EmptyStream == <<>> \in Seq(ChangeSet) /\ Ascending(<<>>) /\ Elements(<<>>) = {}
  BY DEF Ascending, Elements

\* The first of the changes that a client is still to be sent, and the rest.
LEMMA HeadAndTail ==
  ASSUME NEW s \in Seq(ChangeSet), s # <<>>, Ascending(s)
  PROVE  /\ Head(s) \in Elements(s) /\ Head(s) \in ChangeSet
         /\ Tail(s) \in Seq(ChangeSet) /\ Ascending(Tail(s))
         /\ Elements(Tail(s)) = {x \in Elements(s) : x.id > Head(s).id}
         /\ Elements(s) = Elements(Tail(s)) \cup {Head(s)}
  <1>1. /\ Len(s) \in Nat /\ Len(s) > 0 /\ DOMAIN s = 1 .. Len(s)
        /\ Head(s) = s[1] /\ Tail(s) \in Seq(ChangeSet)
        /\ DOMAIN Tail(s) = 1 .. Len(s) - 1
        /\ \A i \in 1 .. Len(s) - 1 : Tail(s)[i] = s[i + 1]
        /\ \A i \in 1 .. Len(s) : s[i] \in ChangeSet
    OBVIOUS
  <1>2. Ascending(Tail(s))
    BY <1>1 DEF Ascending
  <1>3. \A i \in 1 .. Len(s) : s[i].id \in Nat
    BY <1>1 DEF ChangeSet
  <1>4. \A i \in 2 .. Len(s) : s[i].id > s[1].id
    BY <1>1, <1>3 DEF Ascending
  <1>5. Elements(Tail(s)) = {s[i] : i \in 2 .. Len(s)}
    <2>1. \A i \in 2 .. Len(s) : i - 1 \in 1 .. Len(s) - 1 /\ Tail(s)[i - 1] = s[i]
      BY <1>1
    <2>2. \A i \in 1 .. Len(s) - 1 : i + 1 \in 2 .. Len(s)
      BY <1>1
    <2>3. Elements(Tail(s)) = {Tail(s)[i] : i \in 1 .. Len(s) - 1}
      BY <1>1 DEF Elements
    <2>4. \A y \in Elements(Tail(s)) : \E i \in 2 .. Len(s) : y = s[i]
      BY <1>1, <2>2, <2>3
    <2>5. \A i \in 2 .. Len(s) : s[i] \in Elements(Tail(s))
      BY <2>1, <2>3
    <2> QED
      BY <2>4, <2>5
  <1>6. Elements(s) = {s[i] : i \in 2 .. Len(s)} \cup {s[1]}
    BY <1>1 DEF Elements
  <1>7. Elements(Tail(s)) = {x \in Elements(s) : x.id > s[1].id}
    BY <1>1, <1>3, <1>4, <1>5, <1>6
  <1>8. Elements(s) = Elements(Tail(s)) \cup {s[1]}
    BY <1>5, <1>6
  <1> QED
    BY <1>1, <1>2, <1>6, <1>7, <1>8

LEMMA Appending ==
  ASSUME NEW s \in Seq(ChangeSet), NEW x \in ChangeSet, Ascending(s),
         \A y \in Elements(s) : y.id < x.id
  PROVE  /\ Append(s, x) \in Seq(ChangeSet) /\ Ascending(Append(s, x))
         /\ Elements(Append(s, x)) = Elements(s) \cup {x}
  <1>1. /\ Len(s) \in Nat
        /\ \A i \in 1 .. Len(s) : Append(s, x)[i] = s[i]
        /\ Append(s, x)[Len(s) + 1] = x /\ Append(s, x) \in Seq(ChangeSet)
        /\ DOMAIN s = 1 .. Len(s) /\ DOMAIN Append(s, x) = 1 .. Len(s) + 1
    OBVIOUS
  <1>2. Elements(Append(s, x)) = Elements(s) \cup {x}
    BY <1>1 DEF Elements
  <1>3. \A i \in 1 .. Len(s) : s[i].id < x.id
    BY <1>1 DEF Elements
  <1>4. Ascending(Append(s, x))
    BY <1>1, <1>3 DEF Ascending
  <1> QED
    BY <1>1, <1>2, <1>4

\* Replay before live.
LEMMA ReplayThenLive ==
  ASSUME NEW s \in Seq(ChangeSet), NEW t \in Seq(ChangeSet)
  PROVE  /\ s \o t \in Seq(ChangeSet)
         /\ s = <<>> => s \o t = t
         /\ s # <<>> => s \o t # <<>> /\ Head(s \o t) = Head(s) /\ Tail(s \o t) = Tail(s) \o t
         /\ \A x \in ChangeSet : s \o Append(t, x) = Append(s \o t, x)
         /\ t = <<>> => s \o t = s
  <1>1. s \o t \in Seq(ChangeSet) /\ (s = <<>> => s \o t = t) /\ (t = <<>> => s \o t = s)
    OBVIOUS
  <1>2. ASSUME s # <<>> PROVE s \o t # <<>> /\ Head(s \o t) = Head(s) /\ Tail(s \o t) = Tail(s) \o t
    BY <1>2
  <1>3. ASSUME NEW x \in ChangeSet PROVE s \o Append(t, x) = Append(s \o t, x)
    OBVIOUS
  <1> QED
    BY <1>1, <1>2, <1>3

LEMMA PublishedNarrows ==
  ASSUME LogInv, NEW n \in Nat, NEW m \in Nat, NEW h \in Published(n, m)
  PROVE  /\ h.id \in Nat /\ n < h.id /\ h.id <= m
         /\ {x \in Published(n, m) : x.id > h.id} = Published(h.id, m)
  <1>1. \A x \in Elements(log) : x.id \in Nat
    BY DEF LogInv, Elements, ChangeSet
  <1> QED
    BY <1>1 DEF Published, Missed

LEMMA PublishedGrows ==
  ASSUME LogInv, NEW x \in ChangeSet, x.id = nextID + 1, log' = Append(log, x),
         NEW n \in Nat, n <= nextID
  PROVE  /\ \A m \in Nat : m <= nextID => Published(n, m)' = Published(n, m)
         /\ \A m \in Nat : m = nextID + 1 =>
              Published(n, m)' = Published(n, nextID) \cup (IF x.table = Watched THEN {x} ELSE {})
  <1>1. nextID \in Nat /\ Elements(log') = Elements(log) \cup {x}
        /\ \A y \in Elements(log) : y.id \in Nat /\ y.id <= nextID
    BY DEF LogInv, Elements, ChangeSet
  <1>2. ASSUME NEW m \in Nat, m <= nextID PROVE Published(n, m)' = Published(n, m)
    BY <1>1, <1>2 DEF Published, Missed
  <1>3. ASSUME NEW m \in Nat, m = nextID + 1
        PROVE  Published(n, m)' = Published(n, nextID) \cup (IF x.table = Watched THEN {x} ELSE {})
    <2>1. Published(n, m)' = {y \in Elements(log) \cup {x} : Missed(n, y) /\ y.id <= m}
      BY <1>1 DEF Published
    <2>2. \A y \in Elements(log) : y.id <= m <=> y.id <= nextID
      BY <1>1, <1>3
    <2>3. x.id <= m /\ (Missed(n, x) <=> x.table = Watched)
      BY <1>1, <1>3 DEF Missed
    <2> QED
      BY <2>1, <2>2, <2>3 DEF Published
  <1> QED
    BY <1>2, <1>3

\* StreamIsContiguous for one client.
Contiguous(c) ==
  /\ Ascending(Pending(c))
  /\ \E m \in Position(c) .. nextID :
       /\ Elements(Pending(c)) = Published(Position(c), m)
       /\ c \in subscribers => m = nextID

LEMMA ContiguousNow ==
  ASSUME NEW c \in Clients, NEW n, n = Position(c)', NEW m \in n .. nextID',
         NEW s, s = Pending(c)', Ascending(s), Elements(s) = Published(n, m)',
         c \in subscribers' => m = nextID'
  PROVE  Contiguous(c)'
  BY DEF Contiguous, Pending, Position, Published

\* Steps that leave the broker alone and what it knows of a client.
LEMMA ContiguousStands ==
  ASSUME NEW c \in Clients, Contiguous(c), UNCHANGED <<log, nextID>>,
         c \in subscribers' => c \in subscribers,
         /\ cursor'[c] = cursor[c] /\ since'[c] = since[c]
         /\ replay'[c] = replay[c] /\ queue'[c] = queue[c]
  PROVE  Contiguous(c)'
  BY DEF Contiguous, Position, Pending, Published

LEMMA StreamStands ==
  ASSUME StreamInv, ClientInv', UNCHANGED <<log, nextID, history, process>>,
         subscribers' \subseteq subscribers,
         \A c \in Clients : pc'[c] = "streaming" =>
           /\ pc[c] = "streaming" /\ epoch'[c] = epoch[c]
           /\ cursor'[c] = cursor[c] /\ since'[c] = since[c]
           /\ replay'[c] = replay[c] /\ queue'[c] = queue[c]
  PROVE  StreamInv'
  <1>1. LogInv'
    BY DEF StreamInv, LogInv
  <1>2. ASSUME NEW c \in Clients, pc'[c] = "streaming", epoch'[c] = process' PROVE Contiguous(c)'
    <2>1. Contiguous(c)
      BY <1>2 DEF StreamInv, StreamIsContiguous, Contiguous
    <2> QED
      BY <1>2, <2>1, ContiguousStands
  <1>3. StreamIsContiguous'
    BY <1>2 DEF StreamIsContiguous, Contiguous
  <1> QED
    BY <1>1, <1>3 DEF StreamInv

\* A change is appended to the history.
LEMMA PublishKeepsLog ==
  ASSUME LogInv, NEW x \in ChangeSet, x.id = nextID + 1,
         nextID' = nextID + 1, history' = Retained(x), log' = Append(log, x)
  PROVE  LogInv'
  <1>1. /\ log' \in Seq(ChangeSet) /\ nextID' = Len(log') /\ nextID \in Nat
        /\ log'[nextID + 1] = x /\ \A i \in 1 .. nextID : log'[i] = log[i]
    BY DEF LogInv
  <1>2. \A i \in 1 .. nextID' : log'[i].id = i
    BY <1>1 DEF LogInv
  <1>3. HistoryLimit \in Nat \ {0} /\ history \in Seq(ChangeSet) /\ Len(history) \in Nat
        /\ Len(history) <= nextID
    BY FeedAssumption DEF LogInv
  <1>4. \A i \in 1 .. Len(history) : history[i] = log[nextID - Len(history) + i]
    BY DEF LogInv
  <1>5. CASE Len(history) = HistoryLimit
    <2>1. history' = Append(Tail(history), x)
      BY <1>5 DEF Retained
    <2>2. /\ Tail(history) \in Seq(ChangeSet) /\ Len(Tail(history)) = Len(history) - 1
          /\ \A i \in 1 .. Len(history) - 1 : Tail(history)[i] = history[i + 1]
      BY <1>3, <1>5
    <2>3. /\ history' \in Seq(ChangeSet) /\ Len(history') = Len(history)
          /\ \A i \in 1 .. Len(history) - 1 : history'[i] = history[i + 1]
          /\ history'[Len(history)] = x
      BY <1>3, <2>1, <2>2
    <2>4. ASSUME NEW i \in 1 .. Len(history') PROVE history'[i] = log'[nextID' - Len(history') + i]
      <3>1. CASE i = Len(history)
        <4>1. nextID' - Len(history') + i = nextID + 1
          BY <1>1, <1>3, <2>3, <3>1
        <4> QED
          BY <1>1, <2>3, <3>1, <4>1
      <3>2. CASE i # Len(history)
        <4>1. i \in 1 .. Len(history) - 1 /\ i + 1 \in 1 .. Len(history)
          BY <1>3, <2>3, <3>2
        <4>2. nextID - Len(history) + (i + 1) \in 1 .. nextID
          BY <1>1, <1>3, <4>1
        <4>3. history'[i] = log[nextID - Len(history) + (i + 1)]
          BY <1>4, <2>3, <4>1
        <4>4. nextID' - Len(history') + i = nextID - Len(history) + (i + 1)
          BY <1>1, <1>3, <2>3, <4>1
        <4> QED
          BY <1>1, <4>2, <4>3, <4>4
      <3> QED
        BY <3>1, <3>2
    <2>5. Len(history') <= nextID' /\ Len(history') # 0
      BY <1>3, <1>5, <1>1, <2>3
    <2> QED
      BY <1>1, <1>2, <2>3, <2>4, <2>5 DEF LogInv
  <1>6. CASE Len(history) # HistoryLimit
    <2>1. history' = Append(history, x)
      BY <1>6 DEF Retained
    <2>3. /\ history' \in Seq(ChangeSet) /\ Len(history') = Len(history) + 1
          /\ \A i \in 1 .. Len(history) : history'[i] = history[i]
          /\ history'[Len(history) + 1] = x
      BY <1>3, <2>1
    <2>4. ASSUME NEW i \in 1 .. Len(history') PROVE history'[i] = log'[nextID' - Len(history') + i]
      <3>1. CASE i = Len(history) + 1
        <4>1. nextID' - Len(history') + i = nextID + 1
          BY <1>1, <1>3, <2>3, <3>1
        <4> QED
          BY <1>1, <2>3, <3>1, <4>1
      <3>2. CASE i # Len(history) + 1
        <4>1. i \in 1 .. Len(history)
          BY <1>3, <2>3, <3>2
        <4>2. nextID - Len(history) + i \in 1 .. nextID
          BY <1>1, <1>3, <4>1
        <4>3. history'[i] = log[nextID - Len(history) + i]
          BY <1>4, <2>3, <4>1
        <4>4. nextID' - Len(history') + i = nextID - Len(history) + i
          BY <1>1, <1>3, <2>3, <4>1
        <4> QED
          BY <1>1, <4>2, <4>3, <4>4
      <3> QED
        BY <3>1, <3>2
    <2>5. Len(history') <= nextID' /\ Len(history') # 0
      BY <1>3, <1>1, <2>3
    <2> QED
      BY <1>1, <1>2, <2>3, <2>4, <2>5 DEF LogInv
  <1> QED
    BY <1>5, <1>6

\* Publish: a change is appended, and sent to those that match and have room for it.
LEMMA PublishKeepsStream ==
  ASSUME StreamInv, NEW k \in FeedKeys, NEW t \in {Watched, Other},
         NEW r \in Records \cup {"none"}, Publish(k, t, r),
         UNCHANGED <<handlerVars, clientVars, process>>
  PROVE  StreamInv'
  <1>0. UNCHANGED <<pc, replay, cursor, since, epoch, process>>
    BY DEF handlerVars, clientVars
  <1>1. CASE UNCHANGED brokerVars
    <2>1. UNCHANGED <<log, nextID, history, queue, subscribers>>
      BY <1>1 DEF brokerVars
    <2>2. ClientInv'
      BY <1>0, <2>1 DEF StreamInv, ClientInv
    <2> QED
      BY <1>0, <2>1, <2>2, StreamStands
  <1>2. CASE ~UNCHANGED brokerVars
    <2>0. nextID \in Nat
      BY DEF StreamInv, LogInv
    <2>a. PICK x : x = RecordChange(k, t, r)
      OBVIOUS
    <2>1. x \in ChangeSet /\ x.id = nextID + 1 /\ x.table = t
      BY <2>0, <2>a DEF RecordChange, ChangeSet
    <2>2. /\ nextID' = nextID + 1 /\ history' = Retained(x) /\ log' = Append(log, x)
          /\ queue' = [c \in Clients |-> IF c \in Deliverable(x) /\ ~Full(c)
                                         THEN Append(queue[c], x) ELSE queue[c]]
          /\ subscribers' = subscribers \ {c \in Deliverable(x) : Full(c)}
      BY <1>2, <2>a DEF Publish
    <2>7. \A c \in Clients : c \in Deliverable(x) <=> c \in subscribers /\ x.table = Watched
      BY DEF Deliverable
    <2>8. ASSUME NEW c \in Clients
          PROVE  /\ c \in Deliverable(x) /\ ~Full(c) => queue'[c] = Append(queue[c], x)
                 /\ ~(c \in Deliverable(x) /\ ~Full(c)) => queue'[c] = queue[c]
      BY <2>2
    <2>3. LogInv'
      BY <2>1, <2>2, PublishKeepsLog DEF StreamInv
    <2>4. ClientInv'
      <3>1. queue' \in [Clients -> Seq(ChangeSet)]
        BY <2>1, <2>2 DEF StreamInv, ClientInv
      <3>2. subscribers' \subseteq subscribers
        BY <2>2
      <3> QED
        BY <1>0, <2>0, <2>2, <3>1, <3>2 DEF StreamInv, ClientInv
    <2>5. ASSUME NEW c \in Clients, pc'[c] = "streaming", epoch'[c] = process' PROVE Contiguous(c)'
      <3>1. Contiguous(c)
        BY <1>0, <2>5 DEF StreamInv, StreamIsContiguous, Contiguous
      <3>2. PICK n : n = Position(c)
        OBVIOUS
      <3>3. n \in Nat /\ n <= nextID /\ n = Position(c)'
        BY <1>0, <2>5, <3>2 DEF Position, StreamInv, ClientInv
      <3>4. PICK m \in n .. nextID :
              /\ Elements(Pending(c)) = Published(n, m)
              /\ c \in subscribers => m = nextID
        BY <3>1, <3>2 DEF Contiguous
      <3>5. /\ Pending(c) \in Seq(ChangeSet) /\ Ascending(Pending(c))
            /\ replay[c] \in Seq(ChangeSet) /\ queue[c] \in Seq(ChangeSet)
        BY <3>1, ReplayThenLive DEF Contiguous, Pending, StreamInv, ClientInv
      <3>6. LogInv /\ m \in Nat /\ m <= nextID
        BY <2>0, <3>3, <3>4 DEF StreamInv
      <3>7. CASE c \in Deliverable(x) /\ ~Full(c)
        <4>1. c \in subscribers /\ x.table = Watched /\ m = nextID
          BY <2>7, <3>4, <3>7
        <4>2. Pending(c)' = Append(Pending(c), x)
          <5>1. queue'[c] = Append(queue[c], x) /\ replay'[c] = replay[c]
            BY <1>0, <2>8, <3>7
          <5>2. PICK u \in Seq(ChangeSet), v \in Seq(ChangeSet) : u = replay[c] /\ v = queue[c]
            BY <3>5
          <5>3. u \o Append(v, x) = Append(u \o v, x)
            BY <2>1, ReplayThenLive
          <5> QED
            BY <5>1, <5>2, <5>3 DEF Pending
        <4>3. \A y \in Elements(Pending(c)) : y.id < x.id
          <5> TAKE y \in Elements(Pending(c))
          <5>1. y \in Published(n, m)
            BY <3>4
          <5>2. y.id \in Nat /\ y.id <= m
            BY <3>3, <3>6, <5>1, PublishedNarrows
          <5> QED
            BY <2>0, <2>1, <3>6, <5>2
        <4>4. Ascending(Append(Pending(c), x))
              /\ Elements(Append(Pending(c), x)) = Elements(Pending(c)) \cup {x}
          BY <2>1, <3>5, <4>3, Appending
        <4>5. PICK l \in Nat : l = nextID + 1
          BY <2>0
        <4>6. Published(n, l)' = Published(n, nextID) \cup {x}
          BY <2>1, <2>2, <3>3, <3>6, <4>1, <4>5, PublishedGrows
        <4>7. l \in n .. nextID' /\ l = nextID'
          BY <2>0, <2>2, <3>3, <4>5
        <4>8. PICK s : s = Append(Pending(c), x)
          OBVIOUS
        <4> QED
          <5>1. s = Pending(c)' /\ Ascending(s) /\ Elements(s) = Published(n, l)'
            BY <3>4, <4>1, <4>2, <4>4, <4>6, <4>8
          <5> QED
            BY <3>3, <4>7, <5>1, ContiguousNow
      <3>8. CASE ~(c \in Deliverable(x) /\ ~Full(c))
        <4>1. PICK s : s = Pending(c)
          OBVIOUS
        <4>2. s = Pending(c)' /\ Ascending(s) /\ Elements(s) = Published(n, m)
          <5>1. queue'[c] = queue[c] /\ replay'[c] = replay[c]
            BY <1>0, <2>8, <3>8
          <5> QED
            BY <3>4, <3>5, <4>1, <5>1 DEF Pending
        <4>3. CASE c \notin subscribers'
          <5>1. Published(n, m)' = Published(n, m)
            BY <2>1, <2>2, <3>3, <3>6, PublishedGrows
          <5>2. m \in n .. nextID'
            BY <2>0, <2>2, <3>3, <3>6
          <5> QED
            BY <3>3, <4>2, <4>3, <5>1, <5>2, ContiguousNow
        <4>4. CASE c \in subscribers'
          <5>1. c \in subscribers /\ x.table # Watched /\ m = nextID
            <6>1. c \in subscribers /\ ~(c \in Deliverable(x) /\ Full(c))
              BY <2>2, <4>4
            <6> QED
              BY <2>7, <3>4, <3>8, <6>1
          <5>2. PICK l \in Nat : l = nextID + 1
            BY <2>0
          <5>3. Published(n, l)' = Published(n, nextID)
            BY <2>1, <2>2, <3>3, <3>6, <5>1, <5>2, PublishedGrows
          <5>4. l \in n .. nextID' /\ l = nextID'
            BY <2>0, <2>2, <3>3, <5>2
          <5> QED
            BY <3>3, <4>2, <5>1, <5>3, <5>4, ContiguousNow
        <4> QED
          BY <4>3, <4>4
      <3> QED
        BY <3>7, <3>8
    <2>6. StreamIsContiguous'
      BY <2>5 DEF StreamIsContiguous, Contiguous
    <2> QED
      BY <2>3, <2>4, <2>6 DEF StreamInv
  <1> QED
    BY <1>1, <1>2

\* Subscribe: a client with a cursor of this process is replayed what it missed, since its
\* cursor does not precede the retained window; one without starts at the newest change.
LEMMA SubscribeKeepsStream ==
  ASSUME StreamInv, NEW c \in Clients, Subscribe(c)
  PROVE  StreamInv'
  <1>1. /\ UNCHANGED <<history, nextID, log, process, cursor>>
        /\ ~CursorExpired(cursor[c])
        /\ replay' = [replay EXCEPT ![c] = Replay(cursor[c])]
        /\ queue' = [queue EXCEPT ![c] = <<>>]
        /\ subscribers' = subscribers \cup {c}
        /\ pc' = [pc EXCEPT ![c] = "streaming"]
        /\ since' = [since EXCEPT ![c] = IF cursor[c] = 0 THEN nextID ELSE since[c]]
        /\ epoch' = [epoch EXCEPT ![c] = IF cursor[c] = 0 THEN process ELSE epoch[c]]
    BY DEF Subscribe
  <1>2. LogInv /\ LogInv' /\ nextID \in Nat
    BY <1>1 DEF StreamInv, LogInv
  <1>3. PICK a \in Nat : a = cursor[c]
    BY DEF StreamInv, ClientInv
  <1>4. /\ Replay(a) \in Seq(ChangeSet) /\ Ascending(Replay(a))
        /\ a > 0 => Elements(Replay(a)) = {x \in Elements(history) : Missed(a, x)}
    BY <1>2, ReplaySelects
  <1>5. /\ replay'[c] = Replay(a) /\ queue'[c] = <<>> /\ cursor'[c] = a
        /\ since'[c] = IF a = 0 THEN nextID ELSE since[c]
        /\ epoch'[c] = IF a = 0 THEN process ELSE epoch[c]
    BY <1>1, <1>3 DEF StreamInv, ClientInv
  <1>6. ClientInv'
    <2>1. /\ replay' \in [Clients -> Seq(ChangeSet)] /\ queue' \in [Clients -> Seq(ChangeSet)]
          /\ cursor' \in [Clients -> Nat] /\ since' \in [Clients -> Nat]
          /\ epoch' \in [Clients -> Nat] /\ process' \in Nat
          /\ pc' \in [Clients -> {"off", "admitted", "streaming"}]
          /\ subscribers' \subseteq Clients /\ \A d \in subscribers' : pc'[d] = "streaming"
      BY <1>1, <1>2, <1>3, <1>4, EmptyStream DEF StreamInv, ClientInv
    <2>2. ASSUME NEW d \in Clients
          PROVE  /\ epoch'[d] <= process'
                 /\ epoch'[d] = process' => cursor'[d] <= nextID' /\ since'[d] <= nextID'
      <3>1. CASE d = c
        BY <1>1, <1>2, <1>3, <1>5, <3>1 DEF StreamInv, ClientInv
      <3>2. CASE d # c
        BY <1>1, <3>2 DEF StreamInv, ClientInv
      <3> QED
        BY <3>1, <3>2
    <2> QED
      BY <2>1, <2>2 DEF ClientInv
  <1>7. ASSUME NEW d \in Clients, d # c, pc'[d] = "streaming", epoch'[d] = process'
        PROVE  Contiguous(d)'
    <2>1. /\ pc[d] = "streaming" /\ epoch[d] = process /\ cursor'[d] = cursor[d]
          /\ since'[d] = since[d] /\ replay'[d] = replay[d] /\ queue'[d] = queue[d]
          /\ (d \in subscribers' => d \in subscribers)
      BY <1>1, <1>7 DEF StreamInv, ClientInv
    <2>2. Contiguous(d)
      BY <2>1 DEF StreamInv, StreamIsContiguous, Contiguous
    <2> QED
      BY <1>1, <2>1, <2>2, ContiguousStands
  <1>8. ASSUME epoch'[c] = process' PROVE Contiguous(c)'
    <2>1. PICK s : s = Pending(c)'
      OBVIOUS
    <2>2. s = Replay(a)
      BY <1>4, <1>5, <2>1, EmptyStream, ReplayThenLive DEF Pending
    <2>3. \A n, m : Published(n, m)' = Published(n, m)
      BY <1>1 DEF Published
    <2>4. PICK n : n = Position(c)'
      OBVIOUS
    <2>5. CASE a = 0
      <3>1. n = nextID /\ n \in Nat /\ n \in n .. nextID'
        BY <1>1, <1>2, <1>5, <2>4, <2>5 DEF Position
      <3>2. s = <<>>
        BY <2>2, <2>5 DEF Replay
      <3>3. Published(n, n) = {}
        <4>1. \A x \in Elements(log) : x.id \in Nat
          BY <1>2 DEF LogInv, Elements, ChangeSet
        <4> QED
          BY <3>1, <4>1 DEF Published, Missed
      <3>4. Ascending(s) /\ Elements(s) = Published(n, n)'
        BY <2>3, <3>2, <3>3, EmptyStream
      <3> QED
        BY <1>1, <2>1, <2>4, <3>1, <3>4, ContiguousNow
    <2>6. CASE a # 0
      <3>1. n = a /\ a > 0 /\ epoch[c] = process /\ a <= nextID
        BY <1>1, <1>3, <1>5, <1>8, <2>4, <2>6 DEF Position, StreamInv, ClientInv
      <3>2. {x \in Elements(history) : Missed(a, x)} = Published(a, nextID)
        <4> DEFINE L == Len(history)
        <4>1. /\ history \in Seq(ChangeSet) /\ L \in Nat /\ log \in Seq(ChangeSet) /\ Len(log) = nextID
              /\ L <= nextID /\ (L = 0 => nextID = 0)
              /\ \A i \in 1 .. L : history[i] = log[nextID - L + i]
              /\ \A i \in 1 .. nextID : log[i].id = i
          BY <1>2 DEF LogInv
        <4>2. L > 0
          BY <1>2, <3>1, <4>1
        <4> HIDE DEF L
        <4>3. history[1].id = nextID - L + 1
          <5>1. 1 \in 1 .. L /\ nextID - L + 1 \in 1 .. nextID
            BY <1>2, <4>1, <4>2
          <5> QED
            BY <4>1, <5>1
        <4>4. history # <<>>
          BY <4>1, <4>2 DEF L
        <4>5. a >= nextID - L
          BY <1>1, <1>2, <1>3, <3>1, <4>1, <4>3, <4>4 DEF CursorExpired
        <4>6. \A i \in 1 .. L : nextID - L + i \in 1 .. nextID /\ log[nextID - L + i].id = nextID - L + i
          BY <1>2, <4>1
        <4>7. Elements(history) \subseteq Elements(log)
          <5>1. \A i \in DOMAIN history : i \in 1 .. L
            BY <4>1 DEF L
          <5>2. \A i \in 1 .. nextID : i \in DOMAIN log
            BY <4>1
          <5> QED
            BY <4>1, <4>6, <5>1, <5>2 DEF Elements
        <4>8. \A x \in Elements(log) : x.id \in Nat /\ x.id <= nextID
          BY <4>1 DEF Elements
        <4>9. ASSUME NEW x \in Elements(log), Missed(a, x) PROVE x \in Elements(history)
          <5>1. PICK i \in 1 .. nextID : x = log[i]
            BY <4>1 DEF Elements
          <5>2. x.id = i /\ i > a
            BY <4>1, <4>9, <5>1 DEF Missed
          <5>3. PICK j \in 1 .. L : i = nextID - L + j
            <6>1. i - (nextID - L) \in 1 .. L /\ i = nextID - L + (i - (nextID - L))
              BY <1>2, <4>1, <4>5, <5>2
            <6> QED
              BY <6>1
          <5>4. x = history[j]
            BY <4>1, <5>1, <5>3
          <5>5. j \in DOMAIN history
            BY <4>1, <5>3 DEF L
          <5> QED
            BY <5>4, <5>5 DEF Elements
        <4> QED
          BY <4>7, <4>8, <4>9 DEF Published
      <3>3. PICK m : m = nextID
        OBVIOUS
      <3>4. m \in n .. nextID' /\ m = nextID'
        BY <1>1, <1>2, <3>1, <3>3
      <3>5. Ascending(s) /\ Elements(s) = Published(n, m)'
        BY <1>4, <2>2, <2>3, <3>1, <3>2, <3>3
      <3> QED
        BY <2>1, <2>4, <3>4, <3>5, ContiguousNow
    <2> QED
      BY <2>5, <2>6
  <1>9. StreamIsContiguous'
    BY <1>7, <1>8 DEF StreamIsContiguous, Contiguous
  <1> QED
    BY <1>2, <1>6, <1>9 DEF StreamInv

\* A client is sent the first of what the handler holds for it.
LEMMA ReceiveKeepsStream ==
  ASSUME StreamInv, NEW c \in Clients, pc[c] = "streaming", Pending(c) # <<>>,
         cursor' = [cursor EXCEPT ![c] = Head(Pending(c)).id],
         Pending(c)' = Tail(Pending(c)),
         replay' \in [Clients -> Seq(ChangeSet)], queue' \in [Clients -> Seq(ChangeSet)],
         \A d \in Clients : d # c => replay'[d] = replay[d] /\ queue'[d] = queue[d],
         UNCHANGED <<history, nextID, log, subscribers, pc, since, epoch, process>>
  PROVE  StreamInv'
  <1>1. PICK s \in Seq(ChangeSet) : s = Pending(c)
    BY ReplayThenLive DEF StreamInv, ClientInv, Pending
  <1>2. LogInv /\ LogInv' /\ nextID \in Nat
    BY DEF StreamInv, LogInv
  <1>3. PICK h : h = Head(s).id
    OBVIOUS
  <1>4. h \in Nat /\ cursor' = [cursor EXCEPT ![c] = h]
    <2>1. Head(s) \in ChangeSet
      BY <1>1
    <2> QED
      BY <1>1, <1>3, <2>1 DEF ChangeSet
  <1>5. ASSUME epoch[c] = process PROVE h <= nextID /\ Contiguous(c)'
    <2>1. Contiguous(c)
      BY <1>5 DEF StreamInv, StreamIsContiguous, Contiguous
    <2>2. PICK n \in Nat : n = Position(c)
      BY DEF Position, StreamInv, ClientInv
    <2>3. PICK m \in n .. nextID :
            /\ Elements(s) = Published(n, m)
            /\ c \in subscribers => m = nextID
      BY <1>1, <2>1, <2>2 DEF Contiguous
    <2>4. Ascending(s) /\ s # <<>> /\ m \in Nat /\ m <= nextID
      BY <1>1, <1>2, <2>1, <2>2, <2>3 DEF Contiguous
    <2>5. /\ Head(s) \in Published(n, m) /\ Ascending(Tail(s))
          /\ Elements(Tail(s)) = {x \in Published(n, m) : x.id > Head(s).id}
      BY <2>3, <2>4, HeadAndTail
    <2>6. /\ h \in Nat /\ n < h /\ h <= m
          /\ Elements(Tail(s)) = Published(h, m)
      BY <1>2, <1>3, <2>2, <2>4, <2>5, PublishedNarrows
    <2>7. h = Position(c)'
      BY <1>4, <2>2, <2>6 DEF Position, StreamInv, ClientInv
    <2>8. Published(h, m)' = Published(h, m)
      BY DEF Published
    <2>9. m \in h .. nextID' /\ h <= nextID
      BY <1>2, <2>4, <2>6
    <2>10. PICK t : t = Tail(s)
      OBVIOUS
    <2>11. t = Pending(c)' /\ Ascending(t) /\ Elements(t) = Published(h, m)'
      BY <1>1, <2>5, <2>6, <2>8, <2>10
    <2>12. c \in subscribers' => m = nextID'
      BY <2>3
    <2> QED
      BY <2>7, <2>9, <2>11, <2>12, ContiguousNow
  <1>6. ClientInv'
    BY <1>2, <1>4, <1>5 DEF StreamInv, ClientInv
  <1>7. ASSUME NEW d \in Clients, pc'[d] = "streaming", epoch'[d] = process', d # c
        PROVE  Contiguous(d)'
    <2>1. Contiguous(d) /\ cursor'[d] = cursor[d]
      BY <1>4, <1>7 DEF StreamInv, StreamIsContiguous, Contiguous, ClientInv
    <2> QED
      BY <1>7, <2>1, ContiguousStands
  <1>8. StreamIsContiguous'
    BY <1>5, <1>7 DEF StreamIsContiguous, Contiguous
  <1> QED
    BY <1>2, <1>6, <1>8 DEF StreamInv

LEMMA FeedKeepsStream ==
  ASSUME StreamInv, NEW content, FeedStep(content)
  PROVE  StreamInv'
  <1> USE DEF StreamInv, ClientInv
  <1>1. CASE ProjectionPublish
    <2>1. PICK event \in Projected : Publish(<<"projection", event>>, Other, "none")
      BY <1>1 DEF ProjectionPublish
    <2>2. <<"projection", event>> \in FeedKeys
      BY DEF FeedKeys
    <2> HIDE DEF StreamInv, ClientInv
    <2> QED
      BY <1>1, <2>1, <2>2, PublishKeepsStream DEF ProjectionPublish
  <1>2. ASSUME NEW c \in Clients, Connect(c) \/ RefuseCursor(c) \/ Disconnect(c)
                                  \/ Query(c, content) \/ StartAfresh(c)
        PROVE  StreamInv'
    <2>1. /\ UNCHANGED <<history, nextID, log, process, since, epoch>>
          /\ subscribers' \subseteq subscribers
          /\ \A d \in Clients : d # c => /\ pc'[d] = pc[d] /\ cursor'[d] = cursor[d]
                                         /\ replay'[d] = replay[d] /\ queue'[d] = queue[d]
          /\ pc'[c] = "streaming" =>
               /\ pc[c] = "streaming" /\ cursor'[c] = cursor[c]
               /\ replay'[c] = replay[c] /\ queue'[c] = queue[c]
      BY <1>2 DEF Connect, RefuseCursor, Disconnect, Query, StartAfresh, brokerVars, handlerVars,
         clientVars, Release
    <2>2. /\ replay' \in [Clients -> Seq(ChangeSet)] /\ queue' \in [Clients -> Seq(ChangeSet)]
          /\ pc' \in [Clients -> {"off", "admitted", "streaming"}]
      BY <1>2, EmptyStream DEF Connect, RefuseCursor, Disconnect, Query, StartAfresh, brokerVars,
         handlerVars, clientVars, Release
    <2>3. cursor' \in [Clients -> Nat] /\ \A d \in Clients : cursor'[d] <= cursor[d]
      <3>1. cursor' = cursor \/ cursor' = [cursor EXCEPT ![c] = 0]
        BY <1>2 DEF Connect, RefuseCursor, Disconnect, Query, StartAfresh, clientVars
      <3>2. cursor \in [Clients -> Nat]
        OBVIOUS
      <3> HIDE DEF StreamInv, ClientInv
      <3>3. CASE cursor' = cursor
        BY <3>2, <3>3
      <3>4. CASE cursor' = [cursor EXCEPT ![c] = 0]
        BY <3>2, <3>4
      <3> QED
        BY <3>1, <3>3, <3>4
    <2>4. \A d \in subscribers' : pc'[d] = "streaming"
      BY <1>2 DEF Connect, RefuseCursor, Disconnect, Query, StartAfresh, brokerVars, handlerVars,
         clientVars, Release
    <2>5. nextID \in Nat
      BY DEF LogInv
    <2>6. ClientInv'
      BY <2>1, <2>2, <2>3, <2>4, <2>5
    <2> HIDE DEF StreamInv, ClientInv
    <2> QED
      BY <2>1, <2>6, StreamStands
  <1>3. ASSUME NEW c \in Clients, Subscribe(c) PROVE StreamInv'
    BY <1>3, SubscribeKeepsStream
  <1>4. ASSUME NEW c \in Clients, WriteReplay(c, content) PROVE StreamInv'
    <2>1. PICK u \in Seq(ChangeSet), v \in Seq(ChangeSet) : u = replay[c] /\ v = queue[c]
      OBVIOUS
    <2>2. /\ pc[c] = "streaming" /\ u # <<>> /\ cursor' = [cursor EXCEPT ![c] = Head(u).id]
          /\ replay' = [replay EXCEPT ![c] = Tail(u)] /\ queue' = queue
          /\ UNCHANGED <<history, nextID, log, subscribers, pc, since, epoch, process>>
      BY <1>4, <2>1 DEF WriteReplay, Receive, brokerVars
    <2>3. Pending(c) # <<>> /\ Head(Pending(c)) = Head(u) /\ Tail(Pending(c)) = Tail(u) \o v
      BY <2>1, <2>2, ReplayThenLive DEF Pending
    <2>4. Pending(c)' = Tail(u) \o v
      BY <2>1, <2>2 DEF Pending
    <2>5. replay' \in [Clients -> Seq(ChangeSet)] /\ queue' \in [Clients -> Seq(ChangeSet)]
          /\ \A d \in Clients : d # c => replay'[d] = replay[d] /\ queue'[d] = queue[d]
      BY <2>2
    <2> HIDE DEF StreamInv, ClientInv
    <2> QED
      BY <2>2, <2>3, <2>4, <2>5, ReceiveKeepsStream
  <1>5. ASSUME NEW c \in Clients, WriteLive(c, content) PROVE StreamInv'
    <2>1. PICK u \in Seq(ChangeSet), v \in Seq(ChangeSet) : u = replay[c] /\ v = queue[c]
      OBVIOUS
    <2>2. /\ pc[c] = "streaming" /\ u = <<>> /\ v # <<>>
          /\ cursor' = [cursor EXCEPT ![c] = Head(v).id]
          /\ queue' = [queue EXCEPT ![c] = Tail(v)] /\ replay' = replay
          /\ UNCHANGED <<history, nextID, log, subscribers, pc, since, epoch, process>>
      BY <1>5, <2>1 DEF WriteLive, Receive, handlerVars
    <2>3. Pending(c) = v
      BY <2>1, <2>2, ReplayThenLive DEF Pending
    <2>4. Pending(c)' = Tail(v)
      <3> HIDE DEF StreamInv, ClientInv
      <3>0. Tail(v) \in Seq(ChangeSet)
        BY <2>2
      <3>1. PICK t \in Seq(ChangeSet) : t = Tail(v)
        BY <3>0
      <3>2. <<>> \o t = t
        OBVIOUS
      <3>3. replay'[c] = <<>> /\ queue'[c] = t
        BY <2>1, <2>2, <3>1 DEF StreamInv, ClientInv
      <3> QED
        BY <3>1, <3>2, <3>3 DEF Pending
    <2>5. replay' \in [Clients -> Seq(ChangeSet)] /\ queue' \in [Clients -> Seq(ChangeSet)]
          /\ \A d \in Clients : d # c => replay'[d] = replay[d] /\ queue'[d] = queue[d]
      BY <2>2
    <2> HIDE DEF StreamInv, ClientInv
    <2> QED
      BY <2>2, <2>3, <2>4, <2>5, ReceiveKeepsStream
  <1> QED
    BY <1>1, <1>2, <1>3, <1>4, <1>5 DEF FeedStep

LEMMA NextKeepsStream ==
  ASSUME EffectInv, StreamInv, [Next]_vars
  PROVE  StreamInv'
  <1>1. CASE FeedStep(record)
    BY <1>1, FeedKeepsStream
  <1>2. CASE UNCHANGED feedVars
    <2>1. UNCHANGED <<brokerVars, handlerVars, clientVars, process>>
      BY <1>2 DEF feedVars
    <2>2. ClientInv'
      BY <2>1 DEF StreamInv, ClientInv, brokerVars, handlerVars, clientVars
    <2> QED
      BY <2>1, <2>2, StreamStands DEF brokerVars, handlerVars, clientVars
  <1>3. ASSUME NEW w \in Writers, PublishRecordChange(w) PROVE StreamInv'
    <2>1. PICK q \in Requests : q = Request(w)
      BY <1>3 DEF PublishRecordChange, At, EffectInv, ServiceTypes, Request
    <2>2. call[w].result \in Nat
      BY DEF EffectInv, ServiceTypes, CallSet
    <2>3. q.op \in Operations /\ q.record \in Records
      BY RequestFields
    <2>4. <<q.op, q.record, call[w].result>> \in FeedKeys
      BY <2>2, <2>3 DEF FeedKeys
    <2>5. PICK k \in FeedKeys : k = <<q.op, q.record, call[w].result>>
      BY <2>4
    <2>6. Publish(k, Watched, q.record) /\ UNCHANGED <<handlerVars, clientVars, process>>
      BY <1>3, <2>1, <2>5 DEF PublishRecordChange
    <2> QED
      BY <2>3, <2>6, PublishKeepsStream
  <1>4. CASE Restart
    <2>1. /\ history' = <<>> /\ nextID' = 0 /\ subscribers' = {} /\ log' = <<>>
          /\ queue' = [c \in Clients |-> <<>>] /\ replay' = [c \in Clients |-> <<>>]
          /\ pc' = [c \in Clients |-> "off"] /\ process' = process + 1
          /\ UNCHANGED <<cursor, since, epoch>>
      BY <1>4 DEF Restart, FeedRestart, clientVars
    <2>2. LogInv'
      BY <2>1 DEF LogInv
    <2>3. ClientInv'
      BY <2>1, EmptyStream DEF StreamInv, ClientInv
    <2>4. StreamIsContiguous'
      BY <2>1 DEF StreamIsContiguous
    <2> QED
      BY <2>2, <2>3, <2>4 DEF StreamInv
  <1>5. ASSUME NEW w \in Writers,
               \/ Begin(w) \/ ReplayReceipt(w) \/ NoReceipt(w) \/ ReadExisting(w) \/ Commit(w)
               \/ CommitUnacknowledged(w) \/ Abort(w) \/ Fail(w)
        PROVE  UNCHANGED feedVars
    BY <1>5 DEF Begin, ReplayReceipt, NoReceipt, ReadExisting, Commit, CommitUnacknowledged,
       Abort, Fail
  <1> QED
    BY <1>1, <1>2, <1>3, <1>4, <1>5 DEF Next, vars

LEMMA InitStream == Init => StreamInv
  <1> SUFFICES ASSUME Init PROVE StreamInv
    OBVIOUS
  <1> USE DEF Init, FeedInit
  <1>1. LogInv
    BY DEF LogInv
  <1>2. ClientInv
    BY EmptyStream DEF ClientInv
  <1>3. StreamIsContiguous
    BY DEF StreamIsContiguous
  <1> QED
    BY <1>1, <1>2, <1>3 DEF StreamInv

LEMMA StreamInvariant == Spec => []StreamInv
  <1>1. EffectInv /\ StreamInv /\ [Next]_vars => StreamInv'
    BY NextKeepsStream
  <1> QED
    BY <1>1, InitStream, EffectInvariant, PTL DEF Spec

\* Subscribe and Publish under feed.mu, and the SSE handler: whatever is published, dropped
\* or replayed, a client that streams is sent every change of its table after its last one,
\* once and in order; one dropped as too slow holds a beginning of them.
THEOREM StreamContiguous == Spec => []StreamIsContiguous
  <1>1. StreamInv => StreamIsContiguous
    BY DEF StreamInv
  <1> QED
    BY <1>1, StreamInvariant, PTL
-----------------------------------------------------------------------------
(* Clients that follow the stream, when callers behave. *)

\* The DedupKey under which the write of a receipt is announced.
FeedKey(e) == <<e.op, e.hash.record, e.version>>
Announced(e) == \E i \in DOMAIN log : log[i].key = FeedKey(e)

\* The request is going to announce the write of the receipt: it has committed it, or it
\* repeats it and will find its receipt.
ToAnnounce(w, e) ==
  LET q == Request(w)
  IN  /\ q.op = e.op /\ q.record = e.hash.record
      /\ \/ At(w, "publish") /\ call[w].result = e.version
         \/ At(w, "receipt") /\ q.key = e.key /\ Hash(q) = e.hash

\* Clients that have read the table and have a position in the log of this process.
Tracked(c) == synced[c] /\ epoch[c] = process /\ (cursor[c] > 0 \/ pc[c] = "streaming")

\* What is announced has been committed.
AnnouncedInv ==
  /\ \A i \in DOMAIN log :
       /\ log[i].table = Watched =>
            \E e \in receipts : log[i].key = FeedKey(e) /\ log[i].record = e.hash.record
       /\ log[i].table # Watched => log[i].key[1] = "projection"
  /\ \A w \in Writers : At(w, "publish") =>
       \E e \in receipts : /\ e.op = Request(w).op /\ e.hash.record = Request(w).record
                           /\ e.version = call[w].result
  /\ \A k \in dedup : \E i \in DOMAIN log : log[i].key = k

\* A document has not been deleted, and is at the newest version that was committed.
VersionsInv ==
  \A e \in receipts :
    LET r == e.hash.record
    IN  /\ Created(r) /\ e.hash.op = e.op
        /\ record[r] > 0 => e.op # "delete" /\ e.version <= record[r]

\* What a client has still to learn of a record.
Owed(c, r) ==
  \/ \E i \in DOMAIN log : Missed(Position(c), log[i]) /\ log[i].record = r
  \/ \E e \in receipts : /\ e.hash.record = r /\ ~Announced(e)
                         /\ \E w \in Writers : ToAnnounce(w, e)

\* What a client has not read of a record is going to be announced to it.
FollowInv ==
  /\ known \in [Clients -> [Records -> Nat]] /\ synced \in [Clients -> BOOLEAN]
  /\ \A c \in Clients, r \in Records : Tracked(c) /\ known[c][r] # record[r] => Owed(c, r)

FollowedInv == AnnouncedInv /\ VersionsInv /\ FollowInv

\* The write that a transaction commits.
LEMMA CommitWrites ==
  ASSUME EffectInv, HistoryInv, NEW w \in Writers, Transaction(w)
  PROVE  \E q \in Requests, new \in Nat, version \in Nat, n \in ReceiptSet :
           /\ q = Request(w) /\ q.record \in Records /\ call[w].step = "commit"
           /\ n.op = q.op /\ n.key = q.key /\ n.hash = Hash(q) /\ n.hash.record = q.record
           /\ n.hash.op = q.op /\ n.version = version /\ n \notin receipts
           /\ receipts' = receipts \cup {n}
           /\ record' = [record EXCEPT ![q.record] = new]
           /\ audit'[Len(audit')].version = version
           /\ q.op = "create" => ~Created(q.record) /\ new = 1 /\ version = 1
           /\ q.op # "create" => Created(q.record) /\ record[q.record] > 0
           /\ q.op = "update" => new = record[q.record] + 1 /\ version = new
           /\ q.op = "delete" => new = 0
           /\ q.op \in Operations
  <1>0. ServiceTypes
    BY DEF EffectInv
  <1>1. Request(w) \in Requests /\ call[w].step = "commit"
    BY <1>0, TransactionCommits
  <1>2. PICK new \in Nat, version \in Nat :
          /\ Committed(w, new, version)
          /\ \/ Request(w).op = "create" /\ new = 1 /\ version = 1
             \/ Request(w).op = "update" /\ new = record[Request(w).record] + 1 /\ version = new
             \/ Request(w).op = "delete" /\ new = 0 /\ version = call[w].existing
    BY <1>0, TransactionCommits
  <1>3. PICK q \in Requests : q = Request(w)
    BY <1>1
  <1>4. q.record \in Records /\ q.op \in Operations /\ q.key \in Keys /\ Hash(q) \in Hashes
    BY RequestFields
  <1>5. PICK n : n = [op |-> q.op, key |-> q.key, hash |-> Hash(q), version |-> version]
    OBVIOUS
  <1>6. /\ n \in ReceiptSet /\ n.op = q.op /\ n.key = q.key /\ n.hash = Hash(q) /\ n.version = version
    BY <1>4, <1>5 DEF ReceiptSet
  <1>7. n.hash.record = q.record /\ n.hash.op = q.op
    BY <1>6 DEF Hash
  <1>8. /\ Found(q) = {} /\ record[q.record] = q.expected
        /\ record' = [record EXCEPT ![q.record] = new] /\ receipts' = receipts \cup {n}
    BY <1>2, <1>3, <1>5 DEF Committed
  <1>9. audit'[Len(audit')].version = version
    BY <1>1, <1>2, CommittedKeeps
  <1>10. n \notin receipts
    BY <1>6, <1>8 DEF Found
  <1>11. q.op = "create" => ~Created(q.record)
    BY <1>1, <1>3, <1>8, FirstCreate
  <1>12. q.op # "create" => Created(q.record) /\ record[q.record] > 0
    <2>1. WorkInv(w)
      BY DEF HistoryInv
    <2> QED
      BY <1>1, <1>3, <1>8, <2>1 DEF WorkInv
  <1> QED
    BY <1>1, <1>2, <1>3, <1>4, <1>6, <1>7, <1>8, <1>9, <1>10, <1>11, <1>12

LEMMA CommitKeepsVersions ==
  ASSUME EffectInv, HistoryInv, VersionsInv, NEW w \in Writers, Transaction(w)
  PROVE  VersionsInv'
  <1>1. PICK q \in Requests, new \in Nat, version \in Nat, n \in ReceiptSet :
           /\ q.record \in Records /\ n.op = q.op /\ n.hash.record = q.record
           /\ n.hash.op = q.op /\ n.version = version
           /\ receipts' = receipts \cup {n}
           /\ record' = [record EXCEPT ![q.record] = new]
           /\ q.op = "create" => ~Created(q.record) /\ new = 1 /\ version = 1
           /\ q.op # "create" => Created(q.record) /\ record[q.record] > 0
           /\ q.op = "update" => new = record[q.record] + 1 /\ version = new
           /\ q.op = "delete" => new = 0
           /\ q.op \in Operations
    BY CommitWrites
  <1>2. record \in [Records -> Nat] /\ receipts \subseteq ReceiptSet
    BY DEF EffectInv, ServiceTypes
  <1>3. \A e \in receipts : e.hash.record \in Records /\ e.version \in Nat
    BY <1>2 DEF ReceiptSet, Hashes
  <1> SUFFICES ASSUME NEW e \in receipts'
               PROVE  /\ Created(e.hash.record)' /\ e.hash.op = e.op
                      /\ record'[e.hash.record] > 0 =>
                           e.op # "delete" /\ e.version <= record'[e.hash.record]
    BY DEF VersionsInv
  <1>4. \A r : Created(r) => Created(r)'
    BY <1>1 DEF Created
  <1>5. q.op \in {"create", "update", "delete"}
    BY <1>1 DEF Operations
  <1>6. CASE e = n
    <2>1. Created(q.record)'
      <3>1. CASE q.op = "create"
        BY <1>1, <3>1 DEF Created
      <3>2. CASE q.op # "create"
        BY <1>1, <1>4, <3>2
      <3> QED
        BY <3>1, <3>2
    <2>2. record'[q.record] = new
      BY <1>1, <1>2
    <2> QED
      BY <1>1, <1>2, <1>5, <1>6, <2>1, <2>2
  <1>7. CASE e \in receipts
    <2>1. /\ Created(e.hash.record) /\ e.hash.op = e.op
          /\ record[e.hash.record] > 0 => e.op # "delete" /\ e.version <= record[e.hash.record]
      BY <1>7 DEF VersionsInv
    <2>2. CASE e.hash.record # q.record
      BY <1>1, <1>2, <1>3, <1>4, <1>7, <2>1, <2>2
    <2>3. CASE e.hash.record = q.record
      <3>1. q.op # "create" /\ record[q.record] > 0
        BY <1>1, <2>1, <2>3
      <3>2. record'[q.record] = new /\ record[q.record] \in Nat
        BY <1>1, <1>2
      <3> QED
        BY <1>1, <1>3, <1>4, <1>5, <1>7, <2>1, <2>3, <3>1, <3>2
    <2> QED
      BY <2>2, <2>3
  <1> QED
    BY <1>1, <1>6, <1>7

\* The key under which a write will be announced is new.
LEMMA FreshKey ==
  ASSUME EffectInv, HistoryInv, VersionsInv, AnnouncedInv, LogInv,
         NEW q \in Requests, NEW n \in ReceiptSet,
         q.record \in Records, n.op = q.op, n.hash.record = q.record, q.op \in Operations,
         q.op = "create" => ~Created(q.record),
         q.op # "create" => record[q.record] > 0,
         q.op = "update" => n.version = record[q.record] + 1
  PROVE  ~Announced(n)
  <1> SUFFICES ASSUME NEW i \in DOMAIN log, log[i].key = FeedKey(n) PROVE FALSE
    BY DEF Announced
  <1>1. q.op \in {"create", "update", "delete"} /\ record[q.record] \in Nat
    BY DEF Operations, EffectInv, ServiceTypes
  <1>2. CASE log[i].table # Watched
    <2>1. log[i].key[1] = "projection"
      BY <1>2 DEF AnnouncedInv
    <2>2. FeedKey(n)[1] = n.op
      BY DEF FeedKey
    <2> QED
      BY <1>1, <2>1, <2>2
  <1>3. CASE log[i].table = Watched
    <2>1. PICK e \in receipts : FeedKey(n) = FeedKey(e)
      BY <1>3 DEF AnnouncedInv
    <2>2. e.op = n.op /\ e.hash.record = n.hash.record /\ e.version = n.version
      BY <2>1 DEF FeedKey
    <2>3. /\ Created(q.record)
          /\ record[q.record] > 0 => e.op # "delete" /\ e.version <= record[q.record]
      BY <2>2 DEF VersionsInv
    <2> QED
      BY <1>1, <2>2, <2>3
  <1> QED
    BY <1>2, <1>3

\* A write is committed: it is going to be announced by its request, or by the repetition
\* of its request that finds the receipt.
LEMMA CommitKeepsFollowed ==
  ASSUME EffectInv, HistoryInv, StreamInv, FollowedInv, NEW w \in Writers,
         Commit(w) \/ CommitUnacknowledged(w)
  PROVE  FollowedInv'
  <1>0. Transaction(w) /\ UNCHANGED feedVars
    BY DEF Commit, CommitUnacknowledged
  <1>1. UNCHANGED <<log, dedup, known, synced, epoch, process, cursor, since, pc>>
    BY <1>0 DEF feedVars, brokerVars, clientVars, handlerVars
  <1>2. VersionsInv'
    BY <1>0, CommitKeepsVersions DEF FollowedInv
  <1>3. PICK q \in Requests, new \in Nat, version \in Nat, n \in ReceiptSet :
           /\ q = Request(w) /\ q.record \in Records /\ call[w].step = "commit"
           /\ n.op = q.op /\ n.key = q.key /\ n.hash = Hash(q) /\ n.hash.record = q.record
           /\ n.version = version /\ receipts' = receipts \cup {n}
           /\ record' = [record EXCEPT ![q.record] = new]
           /\ audit'[Len(audit')].version = version
           /\ q.op = "create" => ~Created(q.record) /\ new = 1 /\ version = 1
           /\ q.op # "create" => Created(q.record) /\ record[q.record] > 0
           /\ q.op = "update" => new = record[q.record] + 1 /\ version = new
           /\ q.op \in Operations
    BY <1>0, CommitWrites
  <1>4. ~Announced(n) /\ ~Announced(n)'
    <2>1. ~Announced(n)
      BY <1>3, FreshKey DEF FollowedInv, StreamInv
    <2> QED
      BY <1>1, <2>1 DEF Announced
  <1>5. call \in [Writers -> CallSet] /\ call[w] \in CallSet
    BY DEF EffectInv, ServiceTypes
  <1>6. /\ call'[w].request = q
        /\ \/ call'[w].step = "publish" /\ call'[w].result = version
           \/ call'[w].step = "receipt"
    <2>1. CASE Commit(w)
      <3>1. call' = [call EXCEPT ![w].step = "publish", ![w].result = version]
        BY <1>3, <2>1 DEF Commit
      <3> QED
        BY <1>3, <1>5, <3>1 DEF CallSet, Request
    <2>2. CASE CommitUnacknowledged(w)
      <3>1. call' = [call EXCEPT ![w].step = "receipt", ![w].existing = 0]
        BY <2>2 DEF CommitUnacknowledged
      <3> QED
        BY <1>3, <1>5, <3>1 DEF CallSet, Request
    <2> QED
      BY <2>1, <2>2
  <1>7. \A x \in Writers : x # w => call'[x] = call[x]
    BY OtherWriters DEF EffectInv
  <1>8. ToAnnounce(w, n)'
    <2>1. Request(w)' = q
      BY <1>6 DEF Request
    <2> QED
      BY <1>3, <1>6, <2>1 DEF ToAnnounce, At
  <1>9. AnnouncedInv'
    <2>1. ASSUME NEW x \in Writers, At(x, "publish")'
          PROVE  \E e \in receipts' : /\ e.op = Request(x)'.op /\ e.hash.record = Request(x)'.record
                                      /\ e.version = call'[x].result
      <3>1. CASE x = w
        BY <1>3, <1>6, <2>1, <3>1 DEF At, Request
      <3>2. CASE x # w
        BY <1>3, <1>7, <2>1, <3>2 DEF At, Request, FollowedInv, AnnouncedInv
      <3> QED
        BY <3>1, <3>2
    <2>2. \A i \in DOMAIN log' :
             /\ log'[i].table = Watched =>
                  \E e \in receipts' : log'[i].key = FeedKey(e) /\ log'[i].record = e.hash.record
             /\ log'[i].table # Watched => log'[i].key[1] = "projection"
      BY <1>1, <1>3 DEF FollowedInv, AnnouncedInv
    <2>3. \A k \in dedup' : \E i \in DOMAIN log' : log'[i].key = k
      BY <1>1 DEF FollowedInv, AnnouncedInv
    <2> QED
      BY <2>1, <2>2, <2>3 DEF AnnouncedInv
  <1>10. ASSUME NEW c \in Clients, NEW r \in Records, Tracked(c)', known'[c][r] # record'[r]
         PROVE  Owed(c, r)'
    <2>1. CASE r = q.record
      BY <1>3, <1>4, <1>8, <2>1 DEF Owed
    <2>2. CASE r # q.record
      <3>1. Tracked(c) /\ known[c][r] # record[r]
        BY <1>1, <1>3, <1>10, <2>2 DEF Tracked, EffectInv, ServiceTypes
      <3>2. Owed(c, r)
        BY <3>1 DEF FollowedInv, FollowInv, Owed
      <3>3. Position(c)' = Position(c)
        BY <1>1 DEF Position
      <3>4. CASE \E i \in DOMAIN log : Missed(Position(c), log[i]) /\ log[i].record = r
        BY <1>1, <3>3, <3>4 DEF Owed
      <3>5. ASSUME NEW e \in receipts, e.hash.record = r, ~Announced(e),
                   NEW x \in Writers, ToAnnounce(x, e)
            PROVE  Owed(c, r)'
        <4>1. x # w
          BY <1>3, <3>5 DEF ToAnnounce, At
        <4>2. ToAnnounce(x, e)' /\ ~Announced(e)' /\ e \in receipts'
          BY <1>1, <1>3, <1>7, <3>5, <4>1 DEF ToAnnounce, At, Request, Announced
        <4> QED
          BY <3>5, <4>2 DEF Owed
      <3> QED
        BY <3>2, <3>4, <3>5 DEF Owed
    <2> QED
      BY <2>1, <2>2
  <1>11. FollowInv'
    BY <1>1, <1>10 DEF FollowedInv, FollowInv, Owed
  <1> QED
    BY <1>2, <1>9, <1>11 DEF FollowedInv

\* A request goes on without writing or announcing: one that repeats a write finds its
\* receipt.
LEMMA CallKeepsFollowed ==
  ASSUME EffectInv, FollowedInv, NEW w \in Writers,
         \/ Begin(w) \/ ReplayReceipt(w) \/ NoReceipt(w) \/ ReadExisting(w) \/ Abort(w) \/ Fail(w)
  PROVE  FollowedInv'
  <1>0. UNCHANGED feedVars /\ UNCHANGED storeVars
    BY DEF Begin, ReplayReceipt, NoReceipt, ReadExisting, Abort, Fail
  <1>1. UNCHANGED <<log, dedup, known, synced, epoch, process, cursor, since, pc, record, receipts>>
    BY <1>0 DEF feedVars, brokerVars, clientVars, handlerVars, storeVars
  <1>2. VersionsInv'
    BY <1>1 DEF FollowedInv, VersionsInv, Created
  <1>3. \A x \in Writers : x # w => call'[x] = call[x]
    BY OtherWriters DEF EffectInv
  <1>4. call \in [Writers -> CallSet] /\ call[w] \in CallSet
    BY DEF EffectInv, ServiceTypes
  <1>5. ASSUME At(w, "publish")'
        PROVE  \E e \in receipts : /\ e.op = Request(w)'.op /\ e.hash.record = Request(w)'.record
                                   /\ e.version = call'[w].result
    <2>1. PICK e \in Found(Request(w)) :
            /\ e.hash = Hash(Request(w)) /\ At(w, "receipt")
            /\ call' = [call EXCEPT ![w].step = "publish", ![w].result = e.version]
      <3>1. ReplayReceipt(w)
        <4>1. call'[w].step = "publish"
          BY <1>5 DEF At
        <4>2. ~Begin(w)
          <5> SUFFICES ASSUME Begin(w) PROVE FALSE
            OBVIOUS
          <5>1. PICK q \in Requests :
                  call'[w] = [step |-> "receipt", request |-> q, existing |-> 0, result |-> 0]
            BY OwnCall DEF EffectInv
          <5> QED
            BY <4>1, <5>1
        <4>3. ~(Abort(w) \/ Fail(w))
          BY <4>1, OwnCall, IdleType DEF EffectInv
        <4>4. ~NoReceipt(w)
          BY <1>4, <4>1 DEF NoReceipt, Go, CallSet
        <4>5. ~ReadExisting(w)
          BY <1>4, <4>1, IdleType DEF ReadExisting, Answer, CallSet
        <4> QED
          BY <4>2, <4>3, <4>4, <4>5
      <3> QED
        BY <1>4, <1>5, <3>1, IdleType DEF ReplayReceipt, Answer, At
    <2>2. e \in receipts /\ e.op = Request(w).op /\ e.hash.record = Request(w).record
      BY <2>1 DEF Found, Hash
    <2>3. call'[w].request = call[w].request /\ call'[w].result = e.version
      BY <1>4, <2>1 DEF CallSet
    <2> QED
      BY <2>2, <2>3 DEF Request
  <1>6. AnnouncedInv'
    <2>1. ASSUME NEW x \in Writers, At(x, "publish")'
          PROVE  \E e \in receipts' : /\ e.op = Request(x)'.op /\ e.hash.record = Request(x)'.record
                                      /\ e.version = call'[x].result
      <3>1. CASE x = w
        BY <1>1, <1>5, <2>1, <3>1
      <3>2. CASE x # w
        BY <1>1, <1>3, <2>1, <3>2 DEF At, Request, FollowedInv, AnnouncedInv
      <3> QED
        BY <3>1, <3>2
    <2> QED
      BY <1>1, <2>1 DEF FollowedInv, AnnouncedInv
  <1>7. ASSUME NEW e \in receipts, ToAnnounce(w, e) PROVE ToAnnounce(w, e)'
    <2>1. PICK q : q = Request(w)
      OBVIOUS
    <2>2. /\ q.op = e.op /\ q.record = e.hash.record
          /\ \/ At(w, "publish")
             \/ At(w, "receipt") /\ q.key = e.key /\ Hash(q) = e.hash
      BY <1>7, <2>1 DEF ToAnnounce
    <2>3. At(w, "receipt") /\ q.key = e.key /\ Hash(q) = e.hash
      BY <2>2 DEF Begin, ReplayReceipt, NoReceipt, ReadExisting, Abort, Fail, At
    <2>4. e \in Found(q)
      BY <2>2, <2>3 DEF Found
    <2>5. ReplayReceipt(w)
      BY <2>1, <2>3, <2>4 DEF Begin, NoReceipt, ReadExisting, Abort, Fail, At
    <2>6. \A f \in Found(q) : f = e
      BY <2>2, <2>3 DEF Found, EffectInv, OneEffectPerKey
    <2>7. call' = [call EXCEPT ![w].step = "publish", ![w].result = e.version]
      BY <2>1, <2>3, <2>5, <2>6 DEF ReplayReceipt
    <2>8. call'[w].step = "publish" /\ call'[w].request = q /\ call'[w].result = e.version
      BY <1>4, <2>1, <2>7 DEF CallSet, Request
    <2> QED
      BY <2>2, <2>8 DEF ToAnnounce, At, Request
  <1>8. ASSUME NEW c \in Clients, NEW r \in Records, Tracked(c)', known'[c][r] # record'[r]
        PROVE  Owed(c, r)'
    <2>1. Tracked(c) /\ known[c][r] # record[r] /\ Position(c)' = Position(c)
      BY <1>1, <1>8 DEF Tracked, Position
    <2>2. Owed(c, r)
      BY <2>1 DEF FollowedInv, FollowInv, Owed
    <2>3. CASE \E i \in DOMAIN log : Missed(Position(c), log[i]) /\ log[i].record = r
      BY <1>1, <2>1, <2>3 DEF Owed
    <2>4. ASSUME NEW e \in receipts, e.hash.record = r, ~Announced(e),
                 NEW x \in Writers, ToAnnounce(x, e)
          PROVE  Owed(c, r)'
      <3>1. ToAnnounce(x, e)'
        <4>1. CASE x = w
          BY <1>7, <2>4, <4>1
        <4>2. CASE x # w
          BY <1>3, <2>4, <4>2 DEF ToAnnounce, At, Request
        <4> QED
          BY <4>1, <4>2
      <3>2. ~Announced(e)' /\ e \in receipts'
        BY <1>1, <2>4 DEF Announced
      <3> QED
        BY <2>4, <3>1, <3>2 DEF Owed
    <2> QED
      BY <2>2, <2>3, <2>4 DEF Owed
  <1>9. FollowInv'
    BY <1>1, <1>8 DEF FollowedInv, FollowInv, Owed
  <1> QED
    BY <1>2, <1>6, <1>9 DEF FollowedInv

\* A publication: what a client was owed as an announcement to come is now in the log, and
\* a suppressed one had been announced before.
LEMMA PublishKeepsFollowed ==
  ASSUME EffectInv, StreamInv, FollowedInv,
         NEW k, NEW t \in {Watched, Other}, NEW r0 \in Records \cup {"none"}, Publish(k, t, r0),
         UNCHANGED <<handlerVars, clientVars, process, storeVars>>,
         t = Watched => \E e \in receipts : k = FeedKey(e) /\ r0 = e.hash.record,
         t # Watched => k[1] = "projection",
         \A x \in Writers, e \in receipts : ToAnnounce(x, e) =>
           FeedKey(e) = k \/ ToAnnounce(x, e)',
         \A x \in Writers : call'[x] = call[x] \/ call'[x].step # "publish"
  PROVE  FollowedInv'
  <1>1. UNCHANGED <<known, synced, epoch, process, cursor, since, pc, record, receipts>>
    BY DEF clientVars, handlerVars, storeVars
  <1>2. VersionsInv'
    BY <1>1 DEF FollowedInv, VersionsInv, Created
  <1>3. LogInv /\ nextID \in Nat
    BY DEF StreamInv, LogInv
  <1>4. \A x \in Writers : At(x, "publish")' =>
          \E e \in receipts' : /\ e.op = Request(x)'.op /\ e.hash.record = Request(x)'.record
                               /\ e.version = call'[x].result
    BY <1>1 DEF At, Request, FollowedInv, AnnouncedInv
  <1>5. ASSUME NEW c \in Clients, NEW r \in Records, Tracked(c)', known'[c][r] # record'[r]
        PROVE  Owed(c, r) /\ Position(c)' = Position(c) /\ Position(c) \in Nat /\ Position(c) <= nextID
    <2>1. Tracked(c) /\ known[c][r] # record[r] /\ Position(c)' = Position(c)
      BY <1>1, <1>5 DEF Tracked, Position
    <2>2. Position(c) \in Nat /\ Position(c) <= nextID
      BY <1>3, <2>1 DEF Tracked, Position, StreamInv, ClientInv
    <2> QED
      BY <2>1, <2>2 DEF FollowedInv, FollowInv, Owed
  <1>7. ASSUME \A c \in Clients, r \in Records : Tracked(c)' /\ known'[c][r] # record'[r] => Owed(c, r)'
        PROVE  FollowInv'
    BY <1>1, <1>7 DEF FollowedInv, FollowInv, Owed
  <1>8. CASE k \in dedup
    <2>1. UNCHANGED <<log, dedup>>
      BY <1>8 DEF Publish, brokerVars
    <2>2. AnnouncedInv'
      BY <1>1, <1>4, <2>1 DEF FollowedInv, AnnouncedInv
    <2>3. \E i \in DOMAIN log : log[i].key = k
      BY <1>8 DEF FollowedInv, AnnouncedInv
    <2>4. ASSUME NEW c \in Clients, NEW r \in Records, Tracked(c)', known'[c][r] # record'[r]
          PROVE  Owed(c, r)'
      <3>1. CASE \E i \in DOMAIN log : Missed(Position(c), log[i]) /\ log[i].record = r
        BY <1>5, <2>1, <2>4, <3>1 DEF Owed
      <3>2. ASSUME NEW e \in receipts, e.hash.record = r, ~Announced(e),
                   NEW x \in Writers, ToAnnounce(x, e)
            PROVE  Owed(c, r)'
        <4>1. FeedKey(e) # k
          BY <2>3, <3>2 DEF Announced
        <4>2. ToAnnounce(x, e)' /\ ~Announced(e)' /\ e \in receipts'
          BY <1>1, <2>1, <3>2, <4>1 DEF Announced
        <4> QED
          BY <3>2, <4>2 DEF Owed
      <3> QED
        BY <1>5, <2>4, <3>1, <3>2 DEF Owed
    <2> QED
      BY <1>2, <1>7, <2>2, <2>4 DEF FollowedInv
  <1>9. CASE k \notin dedup
    <2>1. PICK x : x = RecordChange(k, t, r0)
      OBVIOUS
    <2>2. x.id = nextID + 1 /\ x.table = t /\ x.key = k /\ x.record = r0
      BY <2>1 DEF RecordChange
    <2>3. log' = Append(log, x) /\ dedup' = RetainedKeys(x)
      BY <1>9, <2>1 DEF Publish
    <2>4. /\ DOMAIN log = 1 .. nextID /\ DOMAIN log' = 1 .. nextID + 1
          /\ \A i \in 1 .. nextID : log'[i] = log[i]
          /\ log'[nextID + 1] = x
      BY <1>3, <2>3 DEF LogInv
    <2>5. nextID + 1 \in DOMAIN log' /\ \A i \in DOMAIN log : i \in DOMAIN log' /\ log'[i] = log[i]
      BY <1>3, <2>4
    <2>6. \A i \in DOMAIN log' : i = nextID + 1 \/ i \in DOMAIN log
      BY <1>3, <2>4
    <2>7. AnnouncedInv'
      <3>1. \A i \in DOMAIN log' :
              /\ log'[i].table = Watched =>
                   \E e \in receipts' : log'[i].key = FeedKey(e) /\ log'[i].record = e.hash.record
              /\ log'[i].table # Watched => log'[i].key[1] = "projection"
        <4> TAKE i \in DOMAIN log'
        <4>1. CASE i = nextID + 1
          BY <1>1, <2>2, <2>4, <4>1
        <4>2. CASE i \in DOMAIN log
          BY <1>1, <2>5, <4>2 DEF FollowedInv, AnnouncedInv
        <4> QED
          BY <2>6, <4>1, <4>2
      <3>2. \A j \in dedup' : \E i \in DOMAIN log' : log'[i].key = j
        <4>1. \A j \in dedup' : j \in dedup \/ j = k
          BY <2>2, <2>3 DEF RetainedKeys
        <4> QED
          BY <2>2, <2>4, <2>5, <4>1 DEF FollowedInv, AnnouncedInv
      <3> QED
        BY <1>4, <3>1, <3>2 DEF AnnouncedInv
    <2>8. ASSUME NEW c \in Clients, NEW r \in Records, Tracked(c)', known'[c][r] # record'[r]
          PROVE  Owed(c, r)'
      <3>0. Position(c)' = Position(c) /\ Position(c) \in Nat /\ Position(c) <= nextID
        BY <1>5, <2>8
      <3>1. ASSUME NEW i \in DOMAIN log, Missed(Position(c), log[i]), log[i].record = r
            PROVE  Owed(c, r)'
        BY <2>5, <3>0, <3>1 DEF Owed
      <3>2. ASSUME NEW e \in receipts, e.hash.record = r, ~Announced(e),
                   NEW y \in Writers, ToAnnounce(y, e)
            PROVE  Owed(c, r)'
        <4>1. CASE FeedKey(e) = k
          <5>1. t = Watched
            <6>1. FeedKey(e)[1] = e.op /\ e.op \in Operations
              BY DEF FeedKey, EffectInv, ServiceTypes, ReceiptSet
            <6> QED
              BY <4>1, <6>1 DEF Operations
          <5>2. r0 = r
            <6>1. PICK f \in receipts : k = FeedKey(f) /\ r0 = f.hash.record
              BY <5>1
            <6> QED
              BY <3>2, <4>1, <6>1 DEF FeedKey
          <5>3. Missed(Position(c), x) /\ x.record = r
            BY <1>3, <2>2, <3>0, <5>1, <5>2 DEF Missed
          <5> QED
            BY <2>4, <2>5, <3>0, <5>3 DEF Owed
        <4>2. CASE FeedKey(e) # k
          <5>1. ToAnnounce(y, e)' /\ e \in receipts'
            BY <1>1, <3>2, <4>2
          <5>2. ~Announced(e)'
            <6> SUFFICES ASSUME NEW i \in DOMAIN log', log'[i].key = FeedKey(e) PROVE FALSE
              BY DEF Announced, FeedKey
            <6>1. i # nextID + 1
              BY <2>2, <2>4, <4>2
            <6> QED
              BY <2>5, <2>6, <3>2, <6>1 DEF Announced
          <5> QED
            BY <3>2, <5>1, <5>2 DEF Owed
        <4> QED
          BY <4>1, <4>2
      <3>3. Owed(c, r)
        BY <1>5, <2>8
      <3> QED
        BY <3>1, <3>2, <3>3 DEF Owed
    <2> QED
      BY <1>2, <1>7, <2>7, <2>8 DEF FollowedInv
  <1> QED
    BY <1>8, <1>9

\* Steps of the handler and of the clients.
LEMMA FollowStands ==
  ASSUME StreamInv, FollowedInv,
         UNCHANGED <<log, dedup, process, record, receipts, call>>,
         known' \in [Clients -> [Records -> Nat]], synced' \in [Clients -> BOOLEAN],
         \A c \in Clients, r \in Records : Tracked(c)' /\ known'[c][r] # record[r] =>
           /\ Tracked(c) /\ known[c][r] # record[r]
           /\ \/ Position(c)' = Position(c)
              \/ \A i \in DOMAIN log : Missed(Position(c), log[i]) /\ log[i].record = r =>
                   Missed(Position(c)', log[i])
  PROVE  FollowedInv'
  <1>1. VersionsInv'
    BY DEF FollowedInv, VersionsInv, Created
  <1>2. AnnouncedInv'
    BY DEF FollowedInv, AnnouncedInv, At, Request
  <1>3. ASSUME NEW c \in Clients, NEW r \in Records, Tracked(c)', known'[c][r] # record'[r]
        PROVE  Owed(c, r)'
    <2>1. Owed(c, r)
      BY <1>3 DEF FollowedInv, FollowInv, Owed
    <2>2. ASSUME NEW i \in DOMAIN log, Missed(Position(c), log[i]), log[i].record = r
          PROVE  Owed(c, r)'
      BY <1>3, <2>2 DEF Owed
    <2>3. ASSUME NEW e \in receipts, e.hash.record = r, ~Announced(e),
                 NEW w \in Writers, ToAnnounce(w, e)
          PROVE  Owed(c, r)'
      <3>1. e \in receipts' /\ ~Announced(e)' /\ ToAnnounce(w, e)'
        BY <2>3 DEF Announced, ToAnnounce, At, Request
      <3> QED
        BY <2>3, <3>1 DEF Owed
    <2> QED
      BY <2>1, <2>2, <2>3 DEF Owed
  <1>4. FollowInv'
    BY <1>3 DEF FollowInv, Owed
  <1> QED
    BY <1>1, <1>2, <1>4 DEF FollowedInv

\* A client is sent a change and reads its record: what else it is owed comes later.
LEMMA ReceiveKeepsFollowed ==
  ASSUME EffectInv, StreamInv, FollowedInv, NEW c \in Clients, pc[c] = "streaming",
         Pending(c) # <<>>,
         cursor' = [cursor EXCEPT ![c] = Head(Pending(c)).id],
         known' = [known EXCEPT ![c][Head(Pending(c)).record] = record[Head(Pending(c)).record]],
         UNCHANGED <<log, dedup, process, record, receipts, call, pc, since, synced, epoch>>
  PROVE  FollowedInv'
  <1>1. PICK s \in Seq(ChangeSet) : s = Pending(c)
    BY ReplayThenLive DEF StreamInv, ClientInv, Pending
  <1>2. PICK h \in ChangeSet : h = Head(s)
    BY <1>1
  <1>3. h.id \in Nat /\ cursor' = [cursor EXCEPT ![c] = h.id]
        /\ known' = [known EXCEPT ![c] = [known[c] EXCEPT ![h.record] = record[h.record]]]
    BY <1>1, <1>2 DEF ChangeSet
  <1>4. known \in [Clients -> [Records -> Nat]] /\ record \in [Records -> Nat]
        /\ synced' \in [Clients -> BOOLEAN] /\ cursor \in [Clients -> Nat]
    BY DEF FollowedInv, FollowInv, EffectInv, ServiceTypes, StreamInv, ClientInv
  <1>5. PICK f : f = [known[c] EXCEPT ![h.record] = record[h.record]]
    OBVIOUS
  <1>6. f \in [Records -> Nat] /\ \A r \in Records : f[r] = IF r = h.record THEN record[r] ELSE known[c][r]
    BY <1>4, <1>5
  <1>7. /\ known' \in [Clients -> [Records -> Nat]] /\ known'[c] = f
        /\ \A d \in Clients : d # c => known'[d] = known[d] /\ cursor'[d] = cursor[d]
        /\ cursor'[c] = h.id
    BY <1>3, <1>4, <1>5, <1>6
  <1>8. ASSUME NEW d \in Clients, NEW r \in Records, Tracked(d)', known'[d][r] # record[r]
        PROVE  /\ Tracked(d) /\ known[d][r] # record[r]
               /\ \/ Position(d)' = Position(d)
                  \/ \A i \in DOMAIN log : Missed(Position(d), log[i]) /\ log[i].record = r =>
                       Missed(Position(d)', log[i])
    <2>1. CASE d # c
      BY <1>7, <1>8, <2>1 DEF Tracked, Position
    <2>2. CASE d = c
      <3>1. Tracked(c) /\ epoch[c] = process
        BY <1>8, <2>2 DEF Tracked
      <3>2. r # h.record /\ known[c][r] # record[r]
        BY <1>6, <1>7, <1>8, <2>2
      <3>3. PICK n \in Nat : n = Position(c)
        BY DEF Position, StreamInv, ClientInv
      <3>4. LogInv /\ nextID \in Nat
        BY DEF StreamInv, LogInv
      <3>5. PICK m \in n .. nextID : Ascending(s) /\ Elements(s) = Published(n, m)
        BY <1>1, <3>1, <3>3 DEF StreamInv, StreamIsContiguous
      <3>6. /\ h \in Elements(s)
            /\ Elements(Tail(s)) = {x \in Elements(s) : x.id > h.id}
            /\ Elements(s) = Elements(Tail(s)) \cup {h}
        BY <1>1, <1>2, <3>5, HeadAndTail
      <3>7. n < h.id /\ h.id <= m /\ m \in Nat
        <4>1. m \in Nat /\ h \in Published(n, m)
          BY <3>3, <3>4, <3>5, <3>6
        <4> QED
          BY <3>3, <3>4, <4>1, PublishedNarrows
      <3>8. Position(c)' = h.id
        BY <1>3, <1>7, <3>3, <3>7 DEF Position
      <3>9. ASSUME NEW i \in DOMAIN log, Missed(n, log[i]), log[i].record = r
            PROVE  Missed(h.id, log[i])
        <4>1. log[i] \in Elements(log) /\ log[i].id \in Nat
          BY <3>4 DEF Elements, LogInv, ChangeSet
        <4>2. CASE log[i].id <= m
          <5>1. log[i] \in Elements(s)
            BY <3>5, <3>9, <4>1, <4>2 DEF Published
          <5>2. log[i].id > h.id
            BY <3>2, <3>6, <3>9, <5>1
          <5> QED
            BY <3>9, <5>2 DEF Missed
        <4>3. CASE ~(log[i].id <= m)
          BY <1>3, <3>7, <3>9, <4>1, <4>3 DEF Missed
        <4> QED
          BY <4>2, <4>3
      <3>10. \A i \in DOMAIN log : Missed(Position(c), log[i]) /\ log[i].record = r =>
               Missed(Position(c)', log[i])
        BY <3>3, <3>8, <3>9
      <3> QED
        BY <2>2, <3>1, <3>2, <3>10
    <2> QED
      BY <2>1, <2>2
  <1> QED
    BY <1>4, <1>7, <1>8, FollowStands

LEMMA FeedKeepsFollowed ==
  ASSUME EffectInv, StreamInv, FollowedInv, FeedStep(record), UNCHANGED serviceVars
  PROVE  FollowedInv'
  <1>0. UNCHANGED <<record, receipts, call, storeVars>>
    BY DEF serviceVars, storeVars
  <1>a. known \in [Clients -> [Records -> Nat]] /\ record \in [Records -> Nat]
        /\ synced \in [Clients -> BOOLEAN]
    BY DEF FollowedInv, FollowInv, EffectInv, ServiceTypes
  <1>1. CASE ProjectionPublish
    <2>1. PICK event \in Projected : Publish(<<"projection", event>>, Other, "none")
      BY <1>1 DEF ProjectionPublish
    <2>2. PICK k : k = <<"projection", event>>
      OBVIOUS
    <2>3. k[1] = "projection" /\ Other # Watched
      BY <2>2 DEF Other, Watched
    <2>4. \A x \in Writers, e \in receipts : ToAnnounce(x, e) => ToAnnounce(x, e)'
      BY <1>0 DEF ToAnnounce, At, Request
    <2> QED
      BY <1>0, <1>1, <2>1, <2>2, <2>3, <2>4, PublishKeepsFollowed DEF ProjectionPublish
  <1>2. ASSUME NEW c \in Clients, Connect(c) PROVE FollowedInv'
    <2>1. /\ UNCHANGED <<log, dedup, process, known, cursor, since, epoch, synced>>
          /\ pc' = [pc EXCEPT ![c] = "admitted"]
      BY <1>2 DEF Connect, brokerVars
    <2>2. \A d \in Clients : (Tracked(d)' => Tracked(d)) /\ Position(d)' = Position(d)
      BY <2>1 DEF Tracked, Position, StreamInv, ClientInv
    <2> QED
      BY <1>0, <1>a, <2>1, <2>2, FollowStands
  <1>3. ASSUME NEW c \in Clients, Subscribe(c) PROVE FollowedInv'
    <2>1. /\ UNCHANGED <<log, dedup, process, known, cursor>>
          /\ pc' = [pc EXCEPT ![c] = "streaming"]
          /\ since' = [since EXCEPT ![c] = IF cursor[c] = 0 THEN nextID ELSE @]
          /\ epoch' = [epoch EXCEPT ![c] = IF cursor[c] = 0 THEN process ELSE @]
          /\ synced' = [synced EXCEPT ![c] = @ /\ cursor[c] > 0]
      BY <1>3 DEF Subscribe
    <2>2. ASSUME NEW d \in Clients, Tracked(d)' PROVE Tracked(d) /\ Position(d)' = Position(d)
      <3>1. CASE d # c
        BY <2>1, <2>2, <3>1 DEF Tracked, Position, StreamInv, ClientInv
      <3>2. CASE d = c
        <4>1. cursor[c] > 0 /\ cursor[c] # 0 /\ synced[c]
          <5>1. synced'[c] = (synced[c] /\ cursor[c] > 0)
            BY <1>a, <2>1
          <5>2. synced'[c] /\ cursor[c] \in Nat
            BY <2>2, <3>2 DEF Tracked, StreamInv, ClientInv
          <5>3. synced[c] /\ cursor[c] > 0
            BY <5>1, <5>2, Zenon
          <5>4. cursor[c] # 0
            BY <5>2, <5>3
          <5> QED
            BY <5>3, <5>4
        <4>2. epoch'[c] = epoch[c]
          BY <2>1, <4>1 DEF StreamInv, ClientInv
        <4> QED
          BY <2>1, <2>2, <3>2, <4>1, <4>2 DEF Tracked, Position
      <3> QED
        BY <3>1, <3>2
    <2>3. synced' \in [Clients -> BOOLEAN]
      BY <1>a, <2>1
    <2> QED
      BY <1>0, <1>a, <2>1, <2>2, <2>3, FollowStands
  <1>4. ASSUME NEW c \in Clients, RefuseCursor(c) \/ StartAfresh(c) PROVE FollowedInv'
    <2>1. /\ UNCHANGED <<log, dedup, process, known, since, epoch>>
          /\ \A d \in Clients : d # c => pc'[d] = pc[d]
          /\ cursor' = [cursor EXCEPT ![c] = 0] /\ synced' = [synced EXCEPT ![c] = FALSE]
      BY <1>4 DEF RefuseCursor, StartAfresh, brokerVars, handlerVars, Release, StreamInv, ClientInv
    <2>2. ASSUME NEW d \in Clients, Tracked(d)' PROVE Tracked(d) /\ Position(d)' = Position(d)
      <3>1. d # c
        BY <1>a, <2>1, <2>2 DEF Tracked
      <3> QED
        BY <1>a, <2>1, <2>2, <3>1 DEF Tracked, Position, StreamInv, ClientInv
    <2>3. synced' \in [Clients -> BOOLEAN]
      BY <1>a, <2>1
    <2> QED
      BY <1>0, <1>a, <2>1, <2>2, <2>3, FollowStands
  <1>5. ASSUME NEW c \in Clients, Disconnect(c) PROVE FollowedInv'
    <2>1. /\ UNCHANGED <<log, dedup, process, known, cursor, since, epoch, synced>>
          /\ pc' = [pc EXCEPT ![c] = "off"]
      BY <1>5 DEF Disconnect, clientVars, Release
    <2>2. \A d \in Clients : (Tracked(d)' => Tracked(d)) /\ Position(d)' = Position(d)
      BY <2>1 DEF Tracked, Position, StreamInv, ClientInv
    <2> QED
      BY <1>0, <1>a, <2>1, <2>2, FollowStands
  <1>6. ASSUME NEW c \in Clients, Query(c, record) PROVE FollowedInv'
    <2>1. /\ UNCHANGED <<log, dedup, process, cursor, since, epoch, pc>>
          /\ known' = [known EXCEPT ![c] = record]
          /\ synced' = [synced EXCEPT ![c] = TRUE]
      BY <1>6 DEF Query, brokerVars, handlerVars
    <2>2. known' \in [Clients -> [Records -> Nat]] /\ synced' \in [Clients -> BOOLEAN]
      BY <1>a, <2>1
    <2>3. \A d \in Clients : Position(d)' = Position(d) /\ (d # c /\ Tracked(d)' => Tracked(d))
      BY <2>1 DEF Tracked, Position, StreamInv, ClientInv
    <2>4. known'[c] = record /\ \A d \in Clients : d # c => known'[d] = known[d]
      BY <1>a, <2>1
    <2> QED
      BY <1>0, <2>1, <2>2, <2>3, <2>4, FollowStands
  <1>7. ASSUME NEW c \in Clients, WriteReplay(c, record) \/ WriteLive(c, record) PROVE FollowedInv'
    <2>1. PICK u \in Seq(ChangeSet), v \in Seq(ChangeSet) : u = replay[c] /\ v = queue[c]
      BY DEF StreamInv, ClientInv
    <2>2. /\ pc[c] = "streaming"
          /\ UNCHANGED <<log, dedup, process, pc, since, synced, epoch>>
      BY <1>7 DEF WriteReplay, WriteLive, brokerVars, handlerVars
    <2>3. PICK s \in Seq(ChangeSet) :
            /\ s # <<>> /\ Pending(c) # <<>> /\ Head(Pending(c)) = Head(s)
            /\ Receive(c, Head(s), record)
      <3>1. CASE WriteReplay(c, record)
        BY <2>1, <3>1, ReplayThenLive DEF WriteReplay, Pending
      <3>2. CASE WriteLive(c, record)
        BY <2>1, <3>2, ReplayThenLive DEF WriteLive, Pending
      <3> QED
        BY <1>7, <3>1, <3>2
    <2> QED
      BY <1>0, <2>2, <2>3, ReceiveKeepsFollowed DEF Receive
  <1> QED
    BY <1>1, <1>2, <1>3, <1>4, <1>5, <1>6, <1>7 DEF FeedStep

LEMMA NextKeepsFollowed ==
  ASSUME EffectInv, HistoryInv, StreamInv, FollowedInv, WellBehaved, [Next]_vars
  PROVE  FollowedInv'
  <1>1. CASE FeedStep(record) /\ UNCHANGED serviceVars
    BY <1>1, FeedKeepsFollowed
  <1>2. CASE UNCHANGED vars
    <2>1. /\ UNCHANGED <<log, dedup, process, record, receipts, call>>
          /\ UNCHANGED <<known, synced, cursor, since, epoch, pc>>
      BY <1>2 DEF vars, feedVars, brokerVars, handlerVars, clientVars, serviceVars, storeVars
    <2>2. \A c \in Clients : (Tracked(c)' => Tracked(c)) /\ Position(c)' = Position(c)
      BY <2>1 DEF Tracked, Position
    <2>3. known' \in [Clients -> [Records -> Nat]] /\ synced' \in [Clients -> BOOLEAN]
      BY <2>1 DEF FollowedInv, FollowInv
    <2> QED
      BY <2>1, <2>2, <2>3, FollowStands
  <1>3. ASSUME NEW w \in Writers, Commit(w) \/ CommitUnacknowledged(w) PROVE FollowedInv'
    BY <1>3, CommitKeepsFollowed
  <1>4. ASSUME NEW w \in Writers,
               \/ Begin(w) \/ ReplayReceipt(w) \/ NoReceipt(w) \/ ReadExisting(w)
               \/ Abort(w) \/ Fail(w)
        PROVE  FollowedInv'
    BY <1>4, CallKeepsFollowed
  <1>5. ASSUME NEW w \in Writers, PublishRecordChange(w) PROVE FollowedInv'
    <2>1. PICK q \in Requests : q = Request(w)
      BY <1>5 DEF PublishRecordChange, At, EffectInv, ServiceTypes, Request
    <2>2. PICK k : k = <<q.op, q.record, call[w].result>>
      OBVIOUS
    <2>3. Publish(k, Watched, q.record) /\ UNCHANGED <<handlerVars, clientVars, process, storeVars>>
          /\ At(w, "publish")
      BY <1>5, <2>1, <2>2 DEF PublishRecordChange
    <2>4. \E e \in receipts : k = FeedKey(e) /\ q.record = e.hash.record
      <3>1. PICK e \in receipts : /\ e.op = q.op /\ e.hash.record = q.record
                                  /\ e.version = call[w].result
        BY <2>1, <2>3 DEF FollowedInv, AnnouncedInv
      <3> QED
        BY <2>2, <3>1 DEF FeedKey
    <2>5. call'[w].step = "idle" /\ \A x \in Writers : x # w => call'[x] = call[x]
      BY <1>5, OtherWriters, OwnCall, IdleType DEF EffectInv
    <2>6. ASSUME NEW x \in Writers, NEW e \in receipts, ToAnnounce(x, e)
          PROVE  FeedKey(e) = k \/ ToAnnounce(x, e)'
      <3>1. CASE x = w
        <4>1. e.op = q.op /\ e.hash.record = q.record /\ call[w].result = e.version
          BY <2>1, <2>3, <2>6, <3>1 DEF ToAnnounce, At
        <4> QED
          BY <2>2, <4>1 DEF FeedKey
      <3>2. CASE x # w
        BY <2>5, <2>6, <3>2 DEF ToAnnounce, At, Request
      <3> QED
        BY <3>1, <3>2
    <2>7. \A x \in Writers : call'[x] = call[x] \/ call'[x].step # "publish"
      BY <2>5
    <2>8. q.record \in Records /\ Watched \in {Watched, Other}
      BY RequestFields
    <2> QED
      BY <2>3, <2>4, <2>6, <2>7, <2>8, PublishKeepsFollowed
  <1>6. CASE Restart
    <2>1. /\ log' = <<>> /\ dedup' = {} /\ process' = process + 1 /\ UNCHANGED storeVars
          /\ UNCHANGED <<known, synced, epoch>> /\ \A w \in Writers : call'[w].step = "idle"
      BY <1>6, IdleType DEF Restart, FeedRestart, clientVars
    <2>2. DOMAIN log' = {}
      BY <2>1
    <2>3. AnnouncedInv'
      BY <2>1, <2>2 DEF AnnouncedInv, At
    <2>4. VersionsInv'
      BY <2>1 DEF FollowedInv, VersionsInv, Created, storeVars
    <2>5. \A c \in Clients : ~Tracked(c)'
      BY <2>1 DEF Tracked, StreamInv, ClientInv
    <2>6. FollowInv'
      BY <2>1, <2>5 DEF FollowedInv, FollowInv
    <2> QED
      BY <2>3, <2>4, <2>6 DEF FollowedInv
  <1> QED
    BY <1>1, <1>2, <1>3, <1>4, <1>5, <1>6 DEF Next

LEMMA InitFollowed == Init => FollowedInv
  <1> SUFFICES ASSUME Init PROVE FollowedInv
    OBVIOUS
  <1> USE DEF Init, FeedInit
  <1>1. \A w \in Writers : call[w].step = "idle"
    BY IdleType
  <1>2. DOMAIN log = {}
    OBVIOUS
  <1>3. AnnouncedInv
    BY <1>1, <1>2 DEF AnnouncedInv, At
  <1>4. VersionsInv
    BY DEF VersionsInv
  <1>5. FollowInv
    BY DEF FollowInv
  <1> QED
    BY <1>3, <1>4, <1>5 DEF FollowedInv

\* publishRecordChange after each commit, the receipt of a write whose answer was lost, the
\* feed's window and its DedupKeys: a client that follows the stream misses no version.  Once
\* no request is under way and nothing is left to be sent to it, what it has read is what is
\* in the table, when callers behave as AuditTellsHistory assumes.
THEOREM ClientsCatchUp ==
  ASSUME WellBehaved
  PROVE  Spec => []IdleClientIsCurrent
  <1>1. EffectInv /\ HistoryInv /\ [Next]_vars => HistoryInv'
    BY NextKeepsHistory
  <1>2. EffectInv /\ HistoryInv /\ StreamInv /\ FollowedInv /\ [Next]_vars => FollowedInv'
    BY NextKeepsFollowed
  <1>3. EffectInv /\ StreamInv /\ FollowedInv => IdleClientIsCurrent
    <2> SUFFICES ASSUME EffectInv, StreamInv, FollowedInv, NEW c \in Clients,
                        pc[c] = "streaming", synced[c], epoch[c] = process,
                        c \in subscribers, Pending(c) = <<>>,
                        \A w \in Writers : At(w, "idle")
                 PROVE  known[c] = record
      BY DEF IdleClientIsCurrent
    <2>1. known[c] \in [Records -> Nat] /\ record \in [Records -> Nat]
      BY DEF FollowedInv, FollowInv, EffectInv, ServiceTypes
    <2>2. ASSUME NEW r \in Records, known[c][r] # record[r] PROVE FALSE
      <3>1. Tracked(c)
        BY DEF Tracked
      <3>2. Owed(c, r)
        BY <2>2, <3>1 DEF FollowedInv, FollowInv, Owed
      <3>3. \A w \in Writers, e \in receipts : ~ToAnnounce(w, e)
        BY DEF ToAnnounce, At
      <3>4. PICK i \in DOMAIN log : Missed(Position(c), log[i])
        BY <3>2, <3>3 DEF Owed
      <3>5. Published(Position(c), nextID) = {}
        BY EmptyStream DEF StreamInv, StreamIsContiguous
      <3>6. log[i] \in Elements(log) /\ log[i].id <= nextID
        BY DEF StreamInv, LogInv, Elements
      <3> QED
        BY <3>4, <3>5, <3>6 DEF Published
    <2> QED
      BY <2>1, <2>2
  <1> QED
    BY <1>1, <1>2, <1>3, InitHistory, InitFollowed, EffectInvariant, StreamInvariant, PTL DEF Spec
=============================================================================
