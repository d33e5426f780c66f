--------------------------- MODULE CommandGateway ---------------------------
(***************************************************************************)
(* The controlled command gateway (modules/commands): Service.Submit       *)
(* writes a receipt and publishes the command, an owner system executes it *)
(* behind InboxService.Process, and the result consumer of Record Hub      *)
(* moves the receipt to its final status (HandleResultMessage,             *)
(* ApplyResult).  Calls of several clients, owner workers and consumer     *)
(* replicas interleave at every database or stream access.                 *)
(*                                                                         *)
(* The owner systems are external: InboxService is the reference inbox     *)
(* they follow, their subscription delivers a published command until it   *)
(* is acked, and their outbox publishes a committed result.  The consumer  *)
(* of results is the PullRunner that ProjectionPipeline models in full;    *)
(* here a delivery is acked, or failed and retried up to ResultMaxDeliver  *)
(* times, then dead-lettered.                                              *)
(***************************************************************************)
EXTENDS Naturals, FiniteSets

CONSTANTS
  OpIds,            \* operation ids that newOperationID may return
  Keys,             \* idempotency keys within one tenant, workspace and policy
  Payloads,         \* canonical payload hashes
  Requests, Req,    \* the requests clients send, and what is in them
  Clients,          \* concurrent Submit calls
  Owners,           \* owner workers
  Consumers,        \* replicas of the result consumer
  Events,           \* event ids of the results published for one operation
  ResultMaxDeliver, \* PullRunnerConfig.MaxDeliver of the result consumer
  MaxCalls,         \* bound: Submit calls of one behaviour
  MaxFaults,        \* bound: crashes, lost calls and errors of the gateway
  MaxOwnerStops     \* bound: Process calls that stop before they are through

\* "allowed" sums up the checks before the store is read: normalizeRequest, the
\* policy lookup, payload limit, resource reference, expectedVersion, authorizer.
RequestType == [key : Keys, payload : Payloads, allowed : BOOLEAN]

Pending  == {"ACCEPTED", "DISPATCHED"}
Terminal == {"SUCCEEDED", "REJECTED", "FAILED", "EXPIRED"}
Status   == {"NONE"} \cup Pending \cup Terminal

\* Process uses one event id per operation.  Any other result message naming the
\* operation is an expiry that the owner reports, or one that ApplyResult always
\* refuses: undecodable, invalid, or of another owner system or action.
OwnerEvent == "owner"

ASSUME RequestAssumption == Req \in [Requests -> RequestType]
ASSUME EventAssumption == OwnerEvent \in Events
ASSUME CommandBounds == /\ ResultMaxDeliver \in Nat \ {0}
                        /\ MaxCalls \in Nat /\ MaxFaults \in Nat /\ MaxOwnerStops \in Nat

VARIABLES
  op,        \* op[o]: the receipt (command_operations)
  key,       \* key[o]: idempotency key of the receipt ({} or one)
  payload,   \* payload[o]: payload hash of the receipt ({} or one)
  sent,      \* operations whose command has been stored in the stream
  queue,     \* operations whose command the owner's consumer has not acked
  audits,    \* audits[o]: audit entries of the receipt, per action
  \* Submit calls
  cpc, creq, cop, crev,
  answers,   \* answers given to clients: [req, op]
  \* owner systems
  inbox,     \* inbox[o]: status of the command_inbox entry
  committed, \* committed[o]: result stored with the entry ({} or one)
  executed,  \* executed[o]: how often the owner's callback has run
  opc, oop, ores,
  \* result stream and consumers
  results,   \* results[o]: results published, [event, status]
  rstate,    \* rstate[o][e]: state of the message of event e
  tries,     \* tries[o][e]: its deliveries
  kpc, kop, kev, krev,
  calls, faults, ownerStops

receiptVars == <<op, key, payload, audits>>
streamVars  == <<sent, queue>>
clientVars  == <<cpc, creq, cop, crev, answers, calls>>
ownerVars   == <<inbox, committed, executed, opc, oop, ores, ownerStops>>
resultVars  == <<results, rstate, tries>>
consVars    == <<kpc, kop, kev, krev>>
vars == <<op, key, payload, sent, queue, audits, cpc, creq, cop, crev, answers,
          inbox, committed, executed, opc, oop, ores, results, rstate, tries,
          kpc, kop, kev, krev, calls, faults, ownerStops>>

Result == [event : Events, status : Terminal \cup {"INVALID"}]

NoReceipt == [status |-> "NONE", revision |-> 0, result |-> {}]

ReceiptTypes ==
  /\ op \in [OpIds -> [status : Status, revision : Nat, result : SUBSET Result]]
  /\ key \in [OpIds -> SUBSET Keys]
  /\ payload \in [OpIds -> SUBSET Payloads]
  /\ audits \in [OpIds -> [submit : Nat, result : Nat]]
  /\ sent \in SUBSET OpIds
  /\ queue \in SUBSET OpIds

ClientTypes ==
  /\ cpc \in [Clients -> {"idle", "find", "create", "again", "audit", "publish", "save"}]
  /\ creq \in [Clients -> SUBSET Requests]
  /\ cop \in [Clients -> SUBSET OpIds]
  /\ crev \in [Clients -> Nat]
  /\ answers \in SUBSET [req : Requests, op : OpIds]

OwnerTypes ==
  /\ inbox \in [OpIds -> {"NONE", "CLAIMED", "COMMITTED"}]
  /\ committed \in [OpIds -> SUBSET Result]
  /\ executed \in [OpIds -> Nat]
  /\ opc \in [Owners -> {"idle", "find", "insert", "execute", "commit", "reply"}]
  /\ oop \in [Owners -> SUBSET OpIds]
  /\ ores \in [Owners -> SUBSET Result]

ConsumerTypes ==
  /\ results \in [OpIds -> SUBSET Result]
  /\ rstate \in [OpIds -> [Events -> {"none", "ready", "held", "acked", "dead"}]]
  /\ tries \in [OpIds -> [Events -> 0 .. ResultMaxDeliver]]
  /\ kpc \in [Consumers -> {"idle", "find", "save", "ok", "failed"}]
  /\ kop \in [Consumers -> SUBSET OpIds]
  /\ kev \in [Consumers -> SUBSET Events]
  /\ krev \in [Consumers -> Nat]

\* Receipts, calls, inbox entries and consumers have the shape the code gives them.
TypeOK ==
  /\ ReceiptTypes /\ ClientTypes /\ OwnerTypes /\ ConsumerTypes
  /\ calls \in 0 .. MaxCalls
  /\ faults \in 0 .. MaxFaults
  /\ ownerStops \in 0 .. MaxOwnerStops

Init ==
  /\ op = [o \in OpIds |-> NoReceipt]
  /\ key = [o \in OpIds |-> {}]
  /\ payload = [o \in OpIds |-> {}]
  /\ audits = [o \in OpIds |-> [submit |-> 0, result |-> 0]]
  /\ sent = {}
  /\ queue = {}
  /\ cpc = [c \in Clients |-> "idle"]
  /\ creq = [c \in Clients |-> {}]
  /\ cop = [c \in Clients |-> {}]
  /\ crev = [c \in Clients |-> 0]
  /\ answers = {}
  /\ inbox = [o \in OpIds |-> "NONE"]
  /\ committed = [o \in OpIds |-> {}]
  /\ executed = [o \in OpIds |-> 0]
  /\ opc = [w \in Owners |-> "idle"]
  /\ oop = [w \in Owners |-> {}]
  /\ ores = [w \in Owners |-> {}]
  /\ results = [o \in OpIds |-> {}]
  /\ rstate = [o \in OpIds |-> [e \in Events |-> "none"]]
  /\ tries = [o \in OpIds |-> [e \in Events |-> 0]]
  /\ kpc = [k \in Consumers |-> "idle"]
  /\ kop = [k \in Consumers |-> {}]
  /\ kev = [k \in Consumers |-> {}]
  /\ krev = [k \in Consumers |-> 0]
  /\ calls = 0 /\ faults = 0 /\ ownerStops = 0

Fault == faults < MaxFaults /\ faults' = faults + 1

-----------------------------------------------------------------------------
(* Service.Submit and dispatch. *)

ByKey(r) == {o \in OpIds : key[o] = {Req[r].key}}

\* The call is at step s with request r.
Calling(c, r, s) == cpc[c] = s /\ creq[c] = {r}

CGoto(c, s) == cpc' = [cpc EXCEPT ![c] = s]

\* The call returns; os are the operations in its answer (none on an error).
Return(c, r, os) ==
  /\ CGoto(c, "idle")
  /\ creq' = [creq EXCEPT ![c] = {}]
  /\ cop' = [cop EXCEPT ![c] = {}]
  /\ crev' = [crev EXCEPT ![c] = 0]
  /\ answers' = answers \cup {[req |-> r, op |-> o] : o \in os}

Submit(c, r) ==
  /\ cpc[c] = "idle" /\ calls < MaxCalls
  /\ calls' = calls + 1
  /\ IF Req[r].allowed
     THEN CGoto(c, "find") /\ creq' = [creq EXCEPT ![c] = {r}]
     ELSE UNCHANGED <<cpc, creq>>
  /\ UNCHANGED <<receiptVars, streamVars, cop, crev, answers, ownerVars, resultVars, consVars, faults>>

\* FindByIdempotency, and what Submit does with a receipt that exists.
Find(c, r) ==
  /\ Calling(c, r, "find")
  /\ \/ /\ ByKey(r) = {}
        /\ CGoto(c, "create")
        /\ UNCHANGED <<creq, cop, crev, answers>>
     \/ \E o \in ByKey(r) :
        \/ /\ payload[o] # {Req[r].payload}
           /\ Return(c, r, {})
        \/ /\ payload[o] = {Req[r].payload} /\ op[o].status # "ACCEPTED"
           /\ Return(c, r, {o})
        \/ /\ payload[o] = {Req[r].payload} /\ op[o].status = "ACCEPTED"
           /\ CGoto(c, "publish")
           /\ cop' = [cop EXCEPT ![c] = {o}]
           /\ crev' = [crev EXCEPT ![c] = op[o].revision]
           /\ UNCHANGED <<creq, answers>>
  /\ UNCHANGED <<receiptVars, streamVars, calls, ownerVars, resultVars, consVars, faults>>

\* Mutant: the unique index on the idempotency key is missing.
CreateWithoutIndex(c, r) ==
  /\ Calling(c, r, "create")
  /\ \E o \in OpIds :
       /\ op[o].status = "NONE"
       /\ op' = [op EXCEPT ![o] = [status |-> "ACCEPTED", revision |-> 1, result |-> {}]]
       /\ key' = [key EXCEPT ![o] = {Req[r].key}]
       /\ payload' = [payload EXCEPT ![o] = {Req[r].payload}]
       /\ cop' = [cop EXCEPT ![c] = {o}]
  /\ crev' = [crev EXCEPT ![c] = 1]
  /\ CGoto(c, "audit")
  /\ UNCHANGED <<audits, streamVars, creq, answers, calls, ownerVars, resultVars, consVars, faults>>

\* Create inserts the receipt under a fresh id, or meets the unique index.
Create(c, r) ==
  /\ Calling(c, r, "create")
  /\ \/ /\ ByKey(r) # {}
        /\ CGoto(c, "again")
        /\ UNCHANGED <<op, key, payload, cop, crev>>
     \/ /\ ByKey(r) = {}
        /\ \E o \in OpIds :
             /\ op[o].status = "NONE"
             /\ op' = [op EXCEPT ![o] = [status |-> "ACCEPTED", revision |-> 1, result |-> {}]]
             /\ key' = [key EXCEPT ![o] = {Req[r].key}]
             /\ payload' = [payload EXCEPT ![o] = {Req[r].payload}]
             /\ cop' = [cop EXCEPT ![c] = {o}]
        /\ crev' = [crev EXCEPT ![c] = 1]
        /\ CGoto(c, "audit")
  /\ UNCHANGED <<audits, streamVars, creq, answers, calls, ownerVars, resultVars, consVars, faults>>

\* ErrCommandExists: the receipt of the call that won is the answer.
FindAgain(c, r) ==
  /\ Calling(c, r, "again")
  /\ Return(c, r, {o \in ByKey(r) : payload[o] = {Req[r].payload}})
  /\ UNCHANGED <<receiptVars, streamVars, calls, ownerVars, resultVars, consVars, faults>>

\* The audit entry is best effort: Submit goes on without it.
AuditSubmit(c, o) ==
  /\ cpc[c] = "audit" /\ cop[c] = {o}
  /\ \/ audits' = [audits EXCEPT ![o].submit = @ + 1] /\ UNCHANGED faults
     \/ Fault /\ UNCHANGED audits
  /\ CGoto(c, "publish")
  /\ UNCHANGED <<op, key, payload, streamVars, creq, cop, crev, answers, calls,
                 ownerVars, resultVars, consVars>>

\* The stream drops a message id it has seen in its deduplication window; after
\* the window the command is stored, and delivered, once more.
StoreCommand(o) ==
  /\ sent' = sent \cup {o}
  /\ queue' = queue \cup {o} \/ (o \in sent /\ queue' = queue)

PublishCommand(c, o) ==
  /\ cpc[c] = "publish" /\ cop[c] = {o}
  /\ StoreCommand(o)
  /\ CGoto(c, "save")
  /\ UNCHANGED <<receiptVars, creq, cop, crev, answers, calls, ownerVars, resultVars, consVars, faults>>

\* Publish returns an error, whether or not the command was stored: the receipt
\* stays ACCEPTED and is the answer.
PublishFails(c, r, o) ==
  /\ Calling(c, r, "publish") /\ cop[c] = {o}
  /\ StoreCommand(o) \/ UNCHANGED streamVars
  /\ Return(c, r, {o})
  /\ Fault
  /\ UNCHANGED <<receiptVars, calls, ownerVars, resultVars, consVars>>

\* SaveCAS to DISPATCHED; a receipt that moved on in the meantime is left alone.
SaveDispatched(c, r, o) ==
  /\ Calling(c, r, "save") /\ cop[c] = {o}
  /\ op' = IF op[o].revision = crev[c]
           THEN [op EXCEPT ![o].status = "DISPATCHED", ![o].revision = @ + 1]
           ELSE op
  /\ Return(c, r, {o})
  /\ UNCHANGED <<key, payload, audits, streamVars, calls, ownerVars, resultVars, consVars, faults>>

\* A store error, a cancelled request or a crash: the client gets no answer.
CallLost(c, r) ==
  /\ cpc[c] # "idle" /\ creq[c] = {r}
  /\ Return(c, r, {})
  /\ Fault
  /\ UNCHANGED <<receiptVars, streamVars, calls, ownerVars, resultVars, consVars>>

-----------------------------------------------------------------------------
(* InboxService.Process, run by owner workers. *)

OGoto(w, s) == opc' = [opc EXCEPT ![w] = s]

Owning(w, o, s) == opc[w] = s /\ oop[w] = {o}

\* The owner is through with this delivery.
Dismiss(w) ==
  /\ OGoto(w, "idle")
  /\ oop' = [oop EXCEPT ![w] = {}]
  /\ ores' = [ores EXCEPT ![w] = {}]

\* The command stream delivers until the owner acks.
Receive(w, o) ==
  /\ opc[w] = "idle" /\ o \in queue
  /\ OGoto(w, "find")
  /\ oop' = [oop EXCEPT ![w] = {o}]
  /\ UNCHANGED <<receiptVars, streamVars, clientVars, inbox, committed, executed, ores,
                 ownerStops, resultVars, consVars, faults>>

\* Mutant: a committed entry is refused like a claimed one.
ClaimFindRefusesCommitted(w, o) ==
  /\ Owning(w, o, "find")
  /\ \/ /\ inbox[o] # "NONE"
        /\ Dismiss(w)
     \/ /\ inbox[o] = "NONE"
        /\ OGoto(w, "insert")
        /\ UNCHANGED <<oop, ores>>
  /\ UNCHANGED <<receiptVars, streamVars, clientVars, inbox, committed, executed,
                 ownerStops, resultVars, consVars, faults>>

\* Claim reads the entry: a committed one is replayed, a claimed one refused
\* (ErrCommandInboxClaimed, the delivery is not acked).
ClaimFind(w, o) ==
  /\ Owning(w, o, "find")
  /\ \/ /\ inbox[o] = "COMMITTED"
        /\ ores' = [ores EXCEPT ![w] = committed[o]]
        /\ OGoto(w, "reply")
        /\ UNCHANGED oop
     \/ /\ inbox[o] = "CLAIMED"
        /\ Dismiss(w)
     \/ /\ inbox[o] = "NONE"
        /\ OGoto(w, "insert")
        /\ UNCHANGED <<oop, ores>>
  /\ UNCHANGED <<receiptVars, streamVars, clientVars, inbox, committed, executed,
                 ownerStops, resultVars, consVars, faults>>

\* Mutant: losing the insert race is not noticed.
ClaimInsertUpserts(w, o) ==
  /\ Owning(w, o, "insert")
  /\ inbox' = [inbox EXCEPT ![o] = "CLAIMED"]
  /\ OGoto(w, "execute")
  /\ UNCHANGED <<receiptVars, streamVars, clientVars, committed, executed, oop, ores,
                 ownerStops, resultVars, consVars, faults>>

\* Claim inserts the entry; on a duplicate key it reads again.
ClaimInsert(w, o) ==
  /\ Owning(w, o, "insert")
  /\ \/ /\ inbox[o] = "NONE"
        /\ inbox' = [inbox EXCEPT ![o] = "CLAIMED"]
        /\ OGoto(w, "execute")
     \/ /\ inbox[o] # "NONE"
        /\ OGoto(w, "find")
        /\ UNCHANGED inbox
  /\ UNCHANGED <<receiptVars, streamVars, clientVars, committed, executed, oop, ores,
                 ownerStops, resultVars, consVars, faults>>

\* The owner's callback; an error of it becomes a FAILED result.  A result that
\* Process refuses to commit ends the call (see OwnerStops).
Execute(w, o) ==
  /\ Owning(w, o, "execute")
  /\ executed' = [executed EXCEPT ![o] = @ + 1]
  /\ \E s \in {"SUCCEEDED", "REJECTED", "FAILED"} :
       ores' = [ores EXCEPT ![w] = {[event |-> OwnerEvent, status |-> s]}]
  /\ OGoto(w, "commit")
  /\ UNCHANGED <<receiptVars, streamVars, clientVars, inbox, committed, oop,
                 ownerStops, resultVars, consVars, faults>>

\* Commit stores the result with the entry while it is claimed.  Process returns
\* the callback's error after that, so the delivery is not acked and the FAILED
\* result is replayed by the next one.
Commit(w, o) ==
  /\ Owning(w, o, "commit")
  /\ inbox' = [inbox EXCEPT ![o] = "COMMITTED"]
  /\ committed' = [committed EXCEPT ![o] = IF inbox[o] = "CLAIMED" THEN ores[w] ELSE @]
  /\ \/ /\ ores[w] = {[event |-> OwnerEvent, status |-> "FAILED"]}
        /\ Dismiss(w)
     \/ /\ ores[w] # {[event |-> OwnerEvent, status |-> "FAILED"]}
        /\ OGoto(w, "reply")
        /\ UNCHANGED <<oop, ores>>
  /\ UNCHANGED <<receiptVars, streamVars, clientVars, executed,
                 ownerStops, resultVars, consVars, faults>>

\* A result reaches the result stream, unless its event id is there already.
PublishResults(o, rs) ==
  /\ results' = [results EXCEPT ![o] =
       @ \cup {r \in rs : rstate[o][r.event] = "none"}]
  /\ rstate' = [rstate EXCEPT ![o] = [e \in Events |->
       IF @[e] = "none" /\ \E r \in rs : r.event = e THEN "ready" ELSE @[e]]]
  /\ UNCHANGED tries

\* The owner's outbox sends the result and the delivery is acked, or the ack is
\* lost and the command will be delivered again.
Reply(w, o) ==
  /\ Owning(w, o, "reply")
  /\ PublishResults(o, ores[w])
  /\ \/ queue' = queue \ {o} /\ UNCHANGED faults
     \/ UNCHANGED queue /\ Fault
  /\ Dismiss(w)
  /\ UNCHANGED <<receiptVars, sent, clientVars, inbox, committed, executed,
                 ownerStops, consVars>>

\* Process ends early, anywhere: a crash, a store error, or a result of the
\* callback that is invalid.  The command stays in the queue.
OwnerStops(w) ==
  /\ opc[w] # "idle" /\ ownerStops < MaxOwnerStops
  /\ ownerStops' = ownerStops + 1
  /\ Dismiss(w)
  /\ UNCHANGED <<receiptVars, streamVars, clientVars, inbox, committed, executed,
                 resultVars, consVars, faults>>

\* Another result message names the operation.
OtherResult(o, e) ==
  /\ e # OwnerEvent /\ o \in sent /\ rstate[o][e] = "none"
  /\ \E s \in {"EXPIRED", "INVALID"} : PublishResults(o, {[event |-> e, status |-> s]})
  /\ UNCHANGED <<receiptVars, streamVars, clientVars, ownerVars, consVars, faults>>

-----------------------------------------------------------------------------
(* HandleResultMessage and ApplyResult, behind the result consumer. *)

KGoto(k, s) == kpc' = [kpc EXCEPT ![k] = s]

Handling(k, o, e, s) == kpc[k] = s /\ kop[k] = {o} /\ kev[k] = {e}

\* A delivery that was not acked comes back, until the limit.
Undelivered(o, e) == IF tries[o][e] < ResultMaxDeliver THEN "ready" ELSE "dead"

Release(k) ==
  /\ KGoto(k, "idle")
  /\ kop' = [kop EXCEPT ![k] = {}]
  /\ kev' = [kev EXCEPT ![k] = {}]
  /\ krev' = [krev EXCEPT ![k] = 0]

TakeResult(k, o, e) ==
  /\ kpc[k] = "idle" /\ rstate[o][e] = "ready"
  /\ rstate' = [rstate EXCEPT ![o][e] = "held"]
  /\ tries' = [tries EXCEPT ![o][e] = @ + 1]
  /\ kop' = [kop EXCEPT ![k] = {o}]
  /\ kev' = [kev EXCEPT ![k] = {e}]
  /\ KGoto(k, "find")
  /\ UNCHANGED <<receiptVars, streamVars, clientVars, ownerVars, results, krev, faults>>

Message(o, e) == {r \in results[o] : r.event = e}

Refused(o, e) == \E r \in Message(o, e) : r.status = "INVALID"

\* Mutant: the result is not validated.
FindReceiptUnchecked(k, o, e) ==
  /\ Handling(k, o, e, "find")
  /\ \/ /\ op[o].status \in Pending
        /\ krev' = [krev EXCEPT ![k] = op[o].revision]
        /\ KGoto(k, "save")
     \/ /\ op[o].status \notin Pending
        /\ KGoto(k, IF op[o].result = Message(o, e) THEN "ok" ELSE "failed")
        /\ UNCHANGED krev
  /\ UNCHANGED <<receiptVars, streamVars, clientVars, ownerVars, resultVars, kop, kev, faults>>

\* Validation, Find, and the comparison with a receipt that is final already.
FindReceipt(k, o, e) ==
  /\ Handling(k, o, e, "find")
  /\ \/ /\ ~Refused(o, e) /\ op[o].status \in Pending
        /\ krev' = [krev EXCEPT ![k] = op[o].revision]
        /\ KGoto(k, "save")
     \/ /\ ~Refused(o, e) /\ op[o].status \notin Pending
        /\ KGoto(k, IF op[o].result = Message(o, e) THEN "ok" ELSE "failed")
        /\ UNCHANGED krev
     \/ /\ Refused(o, e)
        /\ KGoto(k, "failed")
        /\ UNCHANGED krev
  /\ UNCHANGED <<receiptVars, streamVars, clientVars, ownerVars, resultVars, kop, kev, faults>>

\* Mutant: the result is written whatever happened since the receipt was read.
SaveResultBlindly(k, o, e) ==
  /\ Handling(k, o, e, "save")
  /\ \E r \in Message(o, e) :
       op' = [op EXCEPT ![o] = [status |-> r.status, revision |-> krev[k] + 1, result |-> {r}]]
  /\ audits' = [audits EXCEPT ![o].result = @ + 1]
  /\ KGoto(k, "ok")
  /\ UNCHANGED <<key, payload, streamVars, clientVars, ownerVars, resultVars, kop, kev, krev, faults>>

\* SaveCAS to the final status, then the audit entry, best effort.
SaveResult(k, o, e) ==
  /\ Handling(k, o, e, "save")
  /\ \/ /\ op[o].revision = krev[k]
        /\ \E r \in Message(o, e) :
             op' = [op EXCEPT ![o] = [status |-> r.status, revision |-> @.revision + 1,
                                         result |-> {r}]]
        /\ \/ audits' = [audits EXCEPT ![o].result = @ + 1] /\ UNCHANGED faults
           \/ Fault /\ UNCHANGED audits
        /\ KGoto(k, "ok")
     \/ /\ op[o].revision # krev[k]
        /\ KGoto(k, "failed")
        /\ UNCHANGED <<op, audits, faults>>
  /\ UNCHANGED <<key, payload, streamVars, clientVars, ownerVars, resultVars, kop, kev, krev>>

\* The runner's answer to the delivery.
AckResult(k, o, e) ==
  /\ Handling(k, o, e, "ok")
  /\ rstate' = [rstate EXCEPT ![o][e] = "acked"]
  /\ Release(k)
  /\ UNCHANGED <<receiptVars, streamVars, clientVars, ownerVars, results, tries, faults>>

\* Every error of ApplyResult is transient for the runner, a conflict too.
FailResult(k, o, e) ==
  /\ Handling(k, o, e, "failed")
  /\ rstate' = [rstate EXCEPT ![o][e] = IF @ = "held" THEN Undelivered(o, e) ELSE @]
  /\ Release(k)
  /\ UNCHANGED <<receiptVars, streamVars, clientVars, ownerVars, results, tries, faults>>

\* The consumer crashes, the store fails, or the ack is lost.
ConsumerFails(k, o, e) ==
  /\ kpc[k] # "idle" /\ kop[k] = {o} /\ kev[k] = {e}
  /\ rstate' = [rstate EXCEPT ![o][e] = IF @ = "held" THEN Undelivered(o, e) ELSE @]
  /\ Release(k)
  /\ Fault
  /\ UNCHANGED <<receiptVars, streamVars, clientVars, ownerVars, results, tries>>

\* AckWait expires while a consumer is still at work.
ResultRedelivered(o, e) ==
  /\ rstate[o][e] = "held" /\ tries[o][e] < ResultMaxDeliver
  /\ rstate' = [rstate EXCEPT ![o][e] = "ready"]
  /\ Fault
  /\ UNCHANGED <<receiptVars, streamVars, clientVars, ownerVars, results, tries, consVars>>

-----------------------------------------------------------------------------
CallStep(c) ==
  \/ \E r \in Requests : Find(c, r) \/ Create(c, r) \/ FindAgain(c, r)
  \/ \E o \in OpIds : AuditSubmit(c, o) \/ PublishCommand(c, o)
  \/ \E r \in Requests, o \in OpIds : SaveDispatched(c, r, o)

CallTrouble(c) ==
  \E r \in Requests : CallLost(c, r) \/ \E o \in OpIds : PublishFails(c, r, o)

OwnerStep(w) ==
  \E o \in OpIds : \/ Receive(w, o) \/ ClaimFind(w, o) \/ ClaimInsert(w, o)
                   \/ Execute(w, o) \/ Commit(w, o) \/ Reply(w, o)

ConsumerStep(k) ==
  \E o \in OpIds, e \in Events :
    \/ TakeResult(k, o, e) \/ FindReceipt(k, o, e) \/ SaveResult(k, o, e)
    \/ AckResult(k, o, e)  \/ FailResult(k, o, e)

ResultTrouble(o, e) == ResultRedelivered(o, e) \/ \E k \in Consumers : ConsumerFails(k, o, e)

Next ==
  \/ \E c \in Clients : (\E r \in Requests : Submit(c, r)) \/ CallStep(c) \/ CallTrouble(c)
  \/ \E w \in Owners : OwnerStep(w) \/ OwnerStops(w)
  \/ \E k \in Consumers : ConsumerStep(k)
  \/ \E o \in OpIds, e \in Events : OtherResult(o, e) \/ ResultTrouble(o, e)

Spec == Init /\ [][Next]_vars

\* HTTP handlers, owner workers and the consumer run until their process stops,
\* and every call in them has a deadline.  Clients need not call again, an owner
\* need not report an expiry, and faults need not happen.
Fairness ==
  /\ \A c \in Clients : WF_vars(CallStep(c))
  /\ \A w \in Owners : WF_vars(OwnerStep(w))
  /\ \A k \in Consumers : WF_vars(ConsumerStep(k))

FairSpec == Spec /\ Fairness

-----------------------------------------------------------------------------
(* Properties. *)

\* Concurrent and repeated submissions of one idempotency key share one receipt,
\* and every answer shows a receipt with the caller's own key and payload.
OneReceiptPerKey ==
  /\ \A o1, o2 \in OpIds : key[o1] # {} /\ key[o1] = key[o2] => o1 = o2
  /\ \A a \in answers : /\ key[a.op] = {Req[a.req].key}
                        /\ payload[a.op] = {Req[a.req].payload}

\* However often a command is published and delivered, to however many owner
\* workers, the owner's callback runs at most once, and only for a command sent.
ExecutedAtMostOnce ==
  \A o \in OpIds : executed[o] <= 1 /\ (executed[o] = 1 => o \in sent)

\* A receipt that shows the owner's result shows the one the owner committed;
\* one that does not shows EXPIRED.  No invalid result is ever applied, and a result
\* delivered again, or to two consumers, is audited once.
ReceiptMatchesOwner ==
  \A o \in OpIds : \A r \in op[o].result :
    /\ op[o].status = r.status
    /\ IF r.event = OwnerEvent THEN committed[o] = {r} ELSE r.status = "EXPIRED"
    /\ audits[o].result <= 1

\* Claimed by an owner that has stopped: Claim refuses every later delivery.
Abandoned(o) == inbox[o] = "CLAIMED" /\ \A w \in Owners : opc[w] \in {"execute", "commit"} => oop[w] # {o}

\* A command that reached the stream gets its final receipt, unless an owner stopped
\* with it claimed: the owner's inbox returns the original result to every later
\* delivery of the command.
CommandsFinish == <>[](\A o \in sent : op[o].status \in Terminal \/ Abandoned(o))

Of(k) == {o \in OpIds : key[o] = {k}}
Receipts == INSTANCE CommandReceipt WITH
  Results <- Result,
  accepted <- [k \in Keys |-> UNION {payload[o] : o \in Of(k)}],
  final <- [k \in Keys |-> UNION {op[o].result : o \in Of(k)}]

\* The gateway implements the receipt that clients see.
ImplementsCommandReceipt == Receipts!RSpec
=============================================================================
