------------------------ MODULE CommandGatewayProofs ------------------------
(* Proofs about CommandGateway, for every set of operations, keys, requests,   *)
(* clients, owner workers and consumers, and any number of calls, faults and   *)
(* stops: one receipt per key, one execution per command, a receipt that shows *)
(* what the owner committed, and the refinement of CommandReceipt.             *)
EXTENDS CommandGateway, TLAPS

(* The inductive invariant. *)

Belongs(o, r) == key[o] = {Req[r].key} /\ payload[o] = {Req[r].payload}

\* A receipt exists with one key and one payload, and no two have the same key.
ReceiptsInv ==
  /\ \A o \in OpIds : op[o].status # "NONE" => \E k \in Keys : key[o] = {k}
  /\ \A o \in OpIds : op[o].status # "NONE" => \E p \in Payloads : payload[o] = {p}
  /\ \A o \in OpIds : op[o].status = "NONE" =>
       key[o] = {} /\ payload[o] = {} /\ op[o].revision = 0 /\ o \notin sent
  /\ \A o1, o2 \in OpIds : key[o1] # {} /\ key[o1] = key[o2] => o1 = o2

\* A call works on the receipt of its own request, and as long as the receipt has
\* the revision that the call has seen, it is still ACCEPTED.
CallInv(c) ==
  /\ cpc[c] = "idle" => cop[c] = {} /\ creq[c] = {}
  /\ cpc[c] \in {"find", "create", "again"} => cop[c] = {}
  /\ \A r \in creq[c], o \in cop[c] : Belongs(o, r)
  /\ \A o \in cop[c] :
       /\ op[o].status # "NONE"
       /\ crev[c] <= op[o].revision
       /\ crev[c] = op[o].revision => op[o].status = "ACCEPTED"
CallsInv == \A c \in Clients : CallInv(c)

AnswersInv == \A a \in answers : Belongs(a.op, a.req)

\* The command of an operation is delivered only when it was sent, and was sent only
\* with a receipt.
SentInv ==
  /\ queue \subseteq sent
  /\ \A w \in Owners : oop[w] \subseteq sent
  /\ \A w \in Owners : \A o \in oop[w] : oop[w] = {o}

OwnResult(rs) ==
  \E s \in {"SUCCEEDED", "REJECTED", "FAILED"} : rs = {[event |-> OwnerEvent, status |-> s]}

\* One worker has the claim, and it has executed once when it commits.
Claims(w, o) == opc[w] \in {"execute", "commit"} /\ o \in oop[w]
ClaimInv ==
  /\ \A w \in Owners, o \in OpIds : Claims(w, o) => inbox[o] = "CLAIMED"
  /\ \A w, x \in Owners, o \in OpIds : Claims(w, o) /\ Claims(x, o) => w = x
  /\ \A o \in OpIds : inbox[o] = "NONE" => executed[o] = 0
  /\ \A w \in Owners : \A o \in oop[w] : opc[w] = "execute" => executed[o] = 0
  /\ \A o \in OpIds : executed[o] <= 1 /\ (executed[o] = 1 => o \in sent)

\* The stored result is the owner's, and what a worker is about to store or to send.
CommittedInv ==
  /\ \A o \in OpIds : inbox[o] # "COMMITTED" => committed[o] = {}
  /\ \A o \in OpIds : inbox[o] = "COMMITTED" => OwnResult(committed[o])
  /\ \A w \in Owners : opc[w] = "commit" => OwnResult(ores[w])
  /\ \A w \in Owners : \A o \in oop[w] : opc[w] = "reply" =>
       inbox[o] = "COMMITTED" /\ ores[w] = committed[o]

\* A message of the result stream is the committed result, or another one.
ResultsInv ==
  \A o \in OpIds : \A r \in results[o] :
    /\ rstate[o][r.event] # "none"
    /\ IF r.event = OwnerEvent THEN committed[o] = {r} ELSE r.status \in {"EXPIRED", "INVALID"}

\* A message is delivered as often as the limit allows.
DeliveryInv ==
  \A o \in OpIds, e \in Events :
    /\ rstate[o][e] = "none" => tries[o][e] = 0
    /\ rstate[o][e] = "ready" => tries[o][e] < ResultMaxDeliver

\* A consumer handles a message that exists, and when it has looked at the receipt the
\* message is valid and the receipt is pending until its revision changes.
ConsumerInv(k) ==
  \A o \in kop[k], e \in kev[k] :
    /\ rstate[o][e] # "none"
    /\ kpc[k] = "save" =>
         /\ ~Refused(o, e)
         /\ op[o].status # "NONE"
         /\ krev[k] <= op[o].revision
         /\ krev[k] = op[o].revision => op[o].status \in Pending
ConsumersInv == \A k \in Consumers : ConsumerInv(k)

\* A receipt has a result exactly when it is final, and was audited at most once.
FinalInv ==
  \A o \in OpIds :
    /\ op[o].status \notin Terminal => op[o].result = {} /\ audits[o].result = 0
    /\ op[o].status \in Terminal => \E r \in Result : op[o].result = {r}
    /\ audits[o].result <= 1
    /\ \A r \in op[o].result :
         /\ op[o].status = r.status
         /\ IF r.event = OwnerEvent THEN committed[o] = {r} ELSE r.status = "EXPIRED"

GatewayInv ==
  /\ TypeOK /\ ReceiptsInv /\ CallsInv /\ AnswersInv /\ SentInv /\ ClaimInv
  /\ CommittedInv /\ ResultsInv /\ DeliveryInv /\ ConsumersInv /\ FinalInv

-----------------------------------------------------------------------------
(* Types. *)

\* What a step does not write keeps its type.
LEMMA SameTypes ==
  /\ ReceiptTypes /\ UNCHANGED <<receiptVars, streamVars>> => ReceiptTypes'
  /\ ClientTypes /\ UNCHANGED clientVars => ClientTypes'
  /\ OwnerTypes /\ UNCHANGED ownerVars => OwnerTypes'
  /\ ConsumerTypes /\ UNCHANGED <<resultVars, consVars>> => ConsumerTypes'
  BY DEF ReceiptTypes, ClientTypes, OwnerTypes, ConsumerTypes, receiptVars, streamVars,
     clientVars, ownerVars, resultVars, consVars

LEMMA RequestFields ==
  ASSUME NEW r \in Requests
  PROVE  Req[r].key \in Keys /\ Req[r].payload \in Payloads /\ Req[r].allowed \in BOOLEAN
  BY RequestAssumption DEF RequestType

\* The call returns an answer with operations.
LEMMA ReturnTypes ==
  ASSUME ClientTypes, NEW c \in Clients, NEW r \in Requests, NEW os \in SUBSET OpIds,
         Return(c, r, os)
  PROVE  ClientTypes'
  BY DEF ClientTypes, Return, CGoto

LEMMA CallTypes ==
  ASSUME TypeOK, NEW c \in Clients,
         (\E r \in Requests : Submit(c, r)) \/ CallStep(c) \/ CallTrouble(c)
  PROVE  TypeOK'
  <1> USE DEF TypeOK
  <1>1. ASSUME NEW r \in Requests, Submit(c, r) PROVE TypeOK'
    <2>1. ClientTypes'
      BY <1>1 DEF ClientTypes, Submit, CGoto
    <2> QED
      BY <1>1, <2>1, SameTypes, CommandBounds DEF Submit, ownerVars
  <1>2. ASSUME NEW r \in Requests, Find(c, r) PROVE TypeOK'
    <2>1. ClientTypes'
      <3>1. CASE ByKey(r) = {} /\ CGoto(c, "create") /\ UNCHANGED <<creq, cop, crev, answers>>
        BY <3>1 DEF ClientTypes, CGoto
      <3>2. CASE \E o \in ByKey(r) : Return(c, r, {}) \/ Return(c, r, {o})
        BY <3>2, ReturnTypes DEF ByKey
      <3>3. ASSUME NEW o \in ByKey(r), CGoto(c, "publish"), cop' = [cop EXCEPT ![c] = {o}],
                   crev' = [crev EXCEPT ![c] = op[o].revision], UNCHANGED <<creq, answers>>
            PROVE  ClientTypes'
        BY <3>3 DEF ClientTypes, ReceiptTypes, CGoto, ByKey
      <3> QED
        BY <1>2, <3>1, <3>2, <3>3 DEF Find
    <2> QED
      BY <1>2, <2>1, SameTypes DEF Find, ownerVars
  <1>3. ASSUME NEW r \in Requests, Create(c, r) PROVE TypeOK'
    <2>1. ClientTypes'
      BY <1>3 DEF Create, ClientTypes, CGoto
    <2>2. ReceiptTypes'
      <3>1. CASE UNCHANGED <<op, key, payload>>
        BY <1>3, <3>1 DEF Create, ReceiptTypes, streamVars
      <3>2. ASSUME NEW o \in OpIds,
                   op' = [op EXCEPT ![o] = [status |-> "ACCEPTED", revision |-> 1, result |-> {}]],
                   key' = [key EXCEPT ![o] = {Req[r].key}],
                   payload' = [payload EXCEPT ![o] = {Req[r].payload}]
            PROVE  ReceiptTypes'
        <4>1. [status |-> "ACCEPTED", revision |-> 1, result |-> {}] \in
                [status : Status, revision : Nat, result : SUBSET Result]
          BY DEF Status, Pending
        <4>2. {Req[r].key} \in SUBSET Keys /\ {Req[r].payload} \in SUBSET Payloads
          BY RequestFields
        <4> QED
          BY <1>3, <3>2, <4>1, <4>2 DEF Create, ReceiptTypes, streamVars
      <3> QED
        BY <1>3, <3>1, <3>2 DEF Create
    <2> QED
      BY <1>3, <2>1, <2>2, SameTypes DEF Create, ownerVars
  <1>4. ASSUME NEW r \in Requests, FindAgain(c, r) PROVE TypeOK'
    <2>1. ClientTypes'
      BY <1>4, ReturnTypes DEF FindAgain, ByKey
    <2> QED
      BY <1>4, <2>1, SameTypes DEF FindAgain, ownerVars
  <1>5. ASSUME NEW o \in OpIds, AuditSubmit(c, o) PROVE TypeOK'
    <2>1. ClientTypes'
      BY <1>5 DEF AuditSubmit, ClientTypes, CGoto
    <2>2. faults' \in 0 .. MaxFaults
      BY <1>5, CommandBounds DEF AuditSubmit, Fault
    <2>3. audits' \in [OpIds -> [submit : Nat, result : Nat]]
      BY <1>5 DEF AuditSubmit, ReceiptTypes
    <2>4. ReceiptTypes'
      BY <1>5, <2>3 DEF AuditSubmit, ReceiptTypes, streamVars
    <2> QED
      BY <1>5, <2>1, <2>2, <2>4, SameTypes DEF AuditSubmit, ownerVars
  <1>6. ASSUME NEW o \in OpIds, PublishCommand(c, o) PROVE TypeOK'
    <2>1. ClientTypes'
      BY <1>6 DEF PublishCommand, ClientTypes, CGoto
    <2>2. ReceiptTypes'
      BY <1>6 DEF PublishCommand, StoreCommand, ReceiptTypes, receiptVars
    <2> QED
      BY <1>6, <2>1, <2>2, SameTypes DEF PublishCommand, ownerVars
  <1>7. ASSUME NEW r \in Requests, NEW o \in OpIds, PublishFails(c, r, o) PROVE TypeOK'
    <2>1. ClientTypes'
      BY <1>7, ReturnTypes DEF PublishFails
    <2>2. ReceiptTypes' /\ faults' \in 0 .. MaxFaults
      BY <1>7, CommandBounds DEF PublishFails, StoreCommand, ReceiptTypes, receiptVars, streamVars, Fault
    <2> QED
      BY <1>7, <2>1, <2>2, SameTypes DEF PublishFails, ownerVars
  <1>8. ASSUME NEW r \in Requests, NEW o \in OpIds, SaveDispatched(c, r, o) PROVE TypeOK'
    <2>1. ClientTypes'
      BY <1>8, ReturnTypes DEF SaveDispatched
    <2>2. ReceiptTypes'
      BY <1>8 DEF SaveDispatched, ReceiptTypes, streamVars, Status, Pending
    <2> QED
      BY <1>8, <2>1, <2>2, SameTypes DEF SaveDispatched, ownerVars
  <1>9. ASSUME NEW r \in Requests, CallLost(c, r) PROVE TypeOK'
    <2>1. ClientTypes'
      BY <1>9, ReturnTypes DEF CallLost
    <2>2. faults' \in 0 .. MaxFaults
      BY <1>9, CommandBounds DEF CallLost, Fault
    <2> QED
      BY <1>9, <2>1, <2>2, SameTypes DEF CallLost, ownerVars
  <1> QED
    BY <1>1, <1>2, <1>3, <1>4, <1>5, <1>6, <1>7, <1>8, <1>9 DEF CallStep, CallTrouble
\* The worker lets the delivery go.
LEMMA DismissTypes ==
  ASSUME OwnerTypes, NEW w \in Owners, Dismiss(w), UNCHANGED <<inbox, committed, executed>>
  PROVE  OwnerTypes'
  BY DEF OwnerTypes, Dismiss, OGoto

LEMMA PublishTypes ==
  ASSUME ConsumerTypes, NEW o \in OpIds, NEW rs \in SUBSET Result, PublishResults(o, rs),
         UNCHANGED consVars
  PROVE  ConsumerTypes'
  <1>1. results' \in [OpIds -> SUBSET Result]
    BY DEF ConsumerTypes, PublishResults
  <1>2. rstate' \in [OpIds -> [Events -> {"none", "ready", "held", "acked", "dead"}]]
    <2> DEFINE new == [e \in Events |->
                        IF rstate[o][e] = "none" /\ \E r \in rs : r.event = e
                        THEN "ready" ELSE rstate[o][e]]
    <2>1. new \in [Events -> {"none", "ready", "held", "acked", "dead"}]
      BY DEF ConsumerTypes
    <2>2. rstate' = [rstate EXCEPT ![o] = new]
      BY DEF PublishResults
    <2> HIDE DEF new
    <2> QED
      BY <2>1, <2>2 DEF ConsumerTypes
  <1> QED
    BY <1>1, <1>2 DEF ConsumerTypes, PublishResults, consVars

LEMMA OwnerStepTypes ==
  ASSUME TypeOK, NEW w \in Owners, OwnerStep(w) \/ OwnerStops(w)
  PROVE  TypeOK'
  <1> USE DEF TypeOK
  <1>1. ASSUME NEW o \in OpIds, Receive(w, o) PROVE TypeOK'
    <2>1. OwnerTypes'
      BY <1>1 DEF Receive, OwnerTypes, OGoto
    <2> QED
      BY <1>1, <2>1, SameTypes DEF Receive, clientVars
  <1>2. ASSUME NEW o \in OpIds, ClaimFind(w, o) PROVE TypeOK'
    <2>1. OwnerTypes'
      <3>1. CASE ores' = [ores EXCEPT ![w] = committed[o]] /\ OGoto(w, "reply") /\ UNCHANGED oop
        BY <1>2, <3>1 DEF ClaimFind, OwnerTypes, OGoto
      <3>2. CASE Dismiss(w)
        BY <1>2, <3>2, DismissTypes DEF ClaimFind
      <3>3. CASE OGoto(w, "insert") /\ UNCHANGED <<oop, ores>>
        BY <1>2, <3>3 DEF ClaimFind, OwnerTypes, OGoto
      <3> QED
        BY <1>2, <3>1, <3>2, <3>3 DEF ClaimFind
    <2> QED
      BY <1>2, <2>1, SameTypes DEF ClaimFind, clientVars
  <1>3. ASSUME NEW o \in OpIds, ClaimInsert(w, o) PROVE TypeOK'
    <2>1. OwnerTypes'
      BY <1>3 DEF ClaimInsert, OwnerTypes, OGoto
    <2> QED
      BY <1>3, <2>1, SameTypes DEF ClaimInsert, clientVars
  <1>4. ASSUME NEW o \in OpIds, Execute(w, o) PROVE TypeOK'
    <2>1. \A s \in Terminal : {[event |-> OwnerEvent, status |-> s]} \in SUBSET Result
      BY EventAssumption DEF Result
    <2>2. ores' \in [Owners -> SUBSET Result]
      BY <1>4, <2>1 DEF Execute, OwnerTypes, Terminal
    <2>3. OwnerTypes'
      BY <1>4, <2>2 DEF Execute, OwnerTypes, OGoto
    <2> QED
      BY <1>4, <2>3, SameTypes DEF Execute, clientVars
  <1>5. ASSUME NEW o \in OpIds, Commit(w, o) PROVE TypeOK'
    <2>1. inbox' \in [OpIds -> {"NONE", "CLAIMED", "COMMITTED"}]
          /\ committed' \in [OpIds -> SUBSET Result]
      BY <1>5 DEF Commit, OwnerTypes
    <2>2. /\ opc' \in [Owners -> {"idle", "find", "insert", "execute", "commit", "reply"}]
          /\ oop' \in [Owners -> SUBSET OpIds]
          /\ ores' \in [Owners -> SUBSET Result]
      BY <1>5 DEF Commit, OwnerTypes, Dismiss, OGoto
    <2>3. OwnerTypes'
      BY <1>5, <2>1, <2>2 DEF Commit, OwnerTypes
    <2> QED
      BY <1>5, <2>3, SameTypes DEF Commit, clientVars
  <1>6. ASSUME NEW o \in OpIds, Reply(w, o) PROVE TypeOK'
    <2>1. OwnerTypes'
      BY <1>6, DismissTypes DEF Reply
    <2>2. ConsumerTypes'
      BY <1>6, PublishTypes DEF Reply, OwnerTypes
    <2>3. ReceiptTypes' /\ faults' \in 0 .. MaxFaults
      BY <1>6, CommandBounds DEF Reply, ReceiptTypes, receiptVars, Fault
    <2> QED
      BY <1>6, <2>1, <2>2, <2>3, SameTypes DEF Reply, clientVars
  <1>7. ASSUME OwnerStops(w) PROVE TypeOK'
    <2>1. OwnerTypes'
      BY <1>7, DismissTypes DEF OwnerStops
    <2> QED
      BY <1>7, <2>1, SameTypes, CommandBounds DEF OwnerStops, clientVars
  <1> QED
    BY <1>1, <1>2, <1>3, <1>4, <1>5, <1>6, <1>7 DEF OwnerStep

\* A step of a consumer that writes one state of a message.
LEMMA MessageTypes ==
  ASSUME ConsumerTypes, NEW o \in OpIds, NEW e \in Events,
         NEW s \in {"none", "ready", "held", "acked", "dead"},
         rstate' = [rstate EXCEPT ![o][e] = s]
  PROVE  rstate' \in [OpIds -> [Events -> {"none", "ready", "held", "acked", "dead"}]]
  BY DEF ConsumerTypes

LEMMA ReleaseTypes ==
  ASSUME ConsumerTypes, NEW k \in Consumers, Release(k), UNCHANGED <<results, tries>>,
         NEW o \in OpIds, NEW e \in Events,
         NEW s \in {"none", "ready", "held", "acked", "dead"},
         rstate' = [rstate EXCEPT ![o][e] = s]
  PROVE  ConsumerTypes'
  <1>1. rstate' \in [OpIds -> [Events -> {"none", "ready", "held", "acked", "dead"}]]
    BY MessageTypes
  <1> QED
    BY <1>1 DEF ConsumerTypes, Release, KGoto

LEMMA UndeliveredTypes ==
  ASSUME ConsumerTypes, NEW o \in OpIds, NEW e \in Events
  PROVE  (IF rstate[o][e] = "held" THEN Undelivered(o, e) ELSE rstate[o][e])
            \in {"none", "ready", "held", "acked", "dead"}
  BY DEF ConsumerTypes, Undelivered

LEMMA ResultStepTypes ==
  ASSUME TypeOK, DeliveryInv, ConsumersInv, NEW o \in OpIds, NEW e \in Events,
         \/ \E k \in Consumers : \/ TakeResult(k, o, e) \/ FindReceipt(k, o, e) \/ SaveResult(k, o, e)
                                 \/ AckResult(k, o, e)  \/ FailResult(k, o, e)
         \/ OtherResult(o, e) \/ ResultTrouble(o, e)
  PROVE  TypeOK'
  <1> USE DEF TypeOK
  <1>1. ASSUME NEW k \in Consumers, TakeResult(k, o, e) PROVE TypeOK'
    <2>1. rstate' \in [OpIds -> [Events -> {"none", "ready", "held", "acked", "dead"}]]
      BY <1>1, MessageTypes DEF TakeResult
    <2>2. tries[o][e] \in 0 .. ResultMaxDeliver /\ tries[o][e] < ResultMaxDeliver
      BY <1>1 DEF TakeResult, DeliveryInv, ConsumerTypes
    <2>3. tries[o][e] + 1 \in 0 .. ResultMaxDeliver
      BY <2>2, CommandBounds
    <2>4. tries' \in [OpIds -> [Events -> 0 .. ResultMaxDeliver]]
      BY <1>1, <2>3 DEF TakeResult, ConsumerTypes
    <2>5. ConsumerTypes'
      BY <1>1, <2>1, <2>4 DEF TakeResult, ConsumerTypes, KGoto
    <2> QED
      BY <1>1, <2>5, SameTypes DEF TakeResult, clientVars, ownerVars
  <1>2. ASSUME NEW k \in Consumers, FindReceipt(k, o, e) PROVE TypeOK'
    <2>1. op[o].revision \in Nat
      BY DEF ReceiptTypes
    <2>2. ConsumerTypes'
      BY <1>2, <2>1 DEF FindReceipt, ConsumerTypes, KGoto, resultVars
    <2> QED
      BY <1>2, <2>2, SameTypes DEF FindReceipt, clientVars, ownerVars
  <1>3. ASSUME NEW k \in Consumers, SaveResult(k, o, e) PROVE TypeOK'
    <2>1. ConsumerTypes'
      BY <1>3 DEF SaveResult, ConsumerTypes, KGoto, resultVars
    <2>2. op' \in [OpIds -> [status : Status, revision : Nat, result : SUBSET Result]]
      <3>1. ASSUME NEW r \in Message(o, e)
            PROVE  r \in Result /\ r.status \in Status
        <4>1. r \in Result
          BY DEF Message, ConsumerTypes
        <4>2. r.status # "INVALID"
          BY <1>3 DEF SaveResult, Handling, ConsumersInv, ConsumerInv, Refused
        <4> QED
          BY <4>1, <4>2 DEF Result, Status
      <3>2. ASSUME NEW r \in Message(o, e)
            PROVE  [status |-> r.status, revision |-> op[o].revision + 1, result |-> {r}] \in
                     [status : Status, revision : Nat, result : SUBSET Result]
        BY <3>1 DEF ReceiptTypes
      <3> QED
        BY <1>3, <3>2 DEF SaveResult, ReceiptTypes
    <2>3. audits' \in [OpIds -> [submit : Nat, result : Nat]] /\ faults' \in 0 .. MaxFaults
      BY <1>3, CommandBounds DEF SaveResult, ReceiptTypes, Fault
    <2>4. ReceiptTypes'
      BY <1>3, <2>2, <2>3 DEF SaveResult, ReceiptTypes, streamVars
    <2> QED
      BY <1>3, <2>1, <2>3, <2>4, SameTypes DEF SaveResult, clientVars, ownerVars
  <1>4. ASSUME NEW k \in Consumers, AckResult(k, o, e) PROVE TypeOK'
    <2>1. ConsumerTypes'
      BY <1>4, ReleaseTypes DEF AckResult
    <2> QED
      BY <1>4, <2>1, SameTypes DEF AckResult, clientVars, ownerVars
  <1>5. ASSUME NEW k \in Consumers, FailResult(k, o, e) PROVE TypeOK'
    <2>1. ConsumerTypes'
      BY <1>5, ReleaseTypes, UndeliveredTypes DEF FailResult
    <2> QED
      BY <1>5, <2>1, SameTypes DEF FailResult, clientVars, ownerVars
  <1>6. ASSUME NEW k \in Consumers, ConsumerFails(k, o, e) PROVE TypeOK'
    <2>1. ConsumerTypes'
      BY <1>6, ReleaseTypes, UndeliveredTypes DEF ConsumerFails
    <2>2. faults' \in 0 .. MaxFaults
      BY <1>6, CommandBounds DEF ConsumerFails, Fault
    <2> QED
      BY <1>6, <2>1, <2>2, SameTypes DEF ConsumerFails, clientVars, ownerVars
  <1>7. ASSUME ResultRedelivered(o, e) PROVE TypeOK'
    <2>1. ConsumerTypes'
      BY <1>7, MessageTypes DEF ResultRedelivered, ConsumerTypes, consVars
    <2>2. faults' \in 0 .. MaxFaults
      BY <1>7, CommandBounds DEF ResultRedelivered, Fault
    <2> QED
      BY <1>7, <2>1, <2>2, SameTypes DEF ResultRedelivered, clientVars, ownerVars
  <1>8. ASSUME OtherResult(o, e) PROVE TypeOK'
    <2>1. \A s \in {"EXPIRED", "INVALID"} : {[event |-> e, status |-> s]} \in SUBSET Result
      BY DEF Result, Terminal
    <2>2. ConsumerTypes'
      BY <1>8, <2>1, PublishTypes DEF OtherResult
    <2> QED
      BY <1>8, <2>2, SameTypes DEF OtherResult, clientVars, ownerVars
  <1> QED
    BY <1>1, <1>2, <1>3, <1>4, <1>5, <1>6, <1>7, <1>8 DEF ResultTrouble
-----------------------------------------------------------------------------
(* What every step does to receipts. *)

\* A receipt changes only with a higher revision, and never goes away.
ReceiptsGrow ==
  \A o \in OpIds : \/ op'[o] = op[o]
                   \/ op'[o].status # "NONE" /\ op[o].revision < op'[o].revision

\* A receipt keeps its key and its payload.
KeysKept == \A o \in OpIds : op[o].status # "NONE" => key'[o] = key[o] /\ payload'[o] = payload[o]

LEMMA CallKept ==
  ASSUME TypeOK, TypeOK', NEW c \in Clients, CallInv(c), ReceiptsGrow, KeysKept,
         cpc'[c] = cpc[c], creq'[c] = creq[c], cop'[c] = cop[c], crev'[c] = crev[c]
  PROVE  CallInv(c)'
  <1>1. cop[c] \subseteq OpIds /\ crev[c] \in Nat
    BY DEF TypeOK, ClientTypes
  <1>2. \A o \in OpIds : op[o].revision \in Nat /\ op'[o].revision \in Nat
    BY DEF TypeOK, ReceiptTypes
  <1>3. ASSUME NEW o \in cop'[c]
        PROVE  /\ op'[o].status # "NONE"
               /\ crev'[c] <= op'[o].revision
               /\ crev'[c] = op'[o].revision => op'[o].status = "ACCEPTED"
    BY <1>1, <1>2, <1>3 DEF CallInv, ReceiptsGrow
  <1>4. ASSUME NEW r \in creq'[c], NEW o \in cop'[c] PROVE Belongs(o, r)'
    BY <1>1, <1>4 DEF CallInv, KeysKept, Belongs
  <1> QED
    BY <1>3, <1>4 DEF CallInv

LEMMA CallReturned ==
  ASSUME TypeOK, NEW c \in Clients, NEW r, NEW os, Return(c, r, os)
  PROVE  CallInv(c)' /\ answers' = answers \cup {[req |-> r, op |-> o] : o \in os}
  <1>1. cop'[c] = {} /\ creq'[c] = {}
    BY DEF TypeOK, ClientTypes, Return
  <1> QED
    BY <1>1 DEF CallInv, Return

\* The other calls do not notice a step of a call.
LEMMA OtherCalls ==
  ASSUME TypeOK, NEW c \in Clients, NEW d \in Clients, d # c,
         (\E r \in Requests : Submit(c, r)) \/ CallStep(c) \/ CallTrouble(c)
  PROVE  cpc'[d] = cpc[d] /\ creq'[d] = creq[d] /\ cop'[d] = cop[d] /\ crev'[d] = crev[d]
  <1> USE DEF TypeOK, ClientTypes, CGoto
  <1>1. ASSUME NEW r \in Requests, NEW os, Return(c, r, os)
        PROVE  cpc'[d] = cpc[d] /\ creq'[d] = creq[d] /\ cop'[d] = cop[d] /\ crev'[d] = crev[d]
    BY <1>1 DEF Return
  <1>2. CASE \E r \in Requests : Submit(c, r)
    BY <1>2 DEF Submit
  <1>3. CASE \E r \in Requests : Find(c, r)
    BY <1>1, <1>3 DEF Find
  <1>4. CASE \E r \in Requests : Create(c, r)
    BY <1>4 DEF Create
  <1>5. CASE \E r \in Requests : FindAgain(c, r) \/ CallLost(c, r)
    BY <1>1, <1>5 DEF FindAgain, CallLost
  <1>6. CASE \E o \in OpIds : AuditSubmit(c, o) \/ PublishCommand(c, o)
    BY <1>6 DEF AuditSubmit, PublishCommand
  <1>7. CASE \E r \in Requests, o \in OpIds : SaveDispatched(c, r, o) \/ PublishFails(c, r, o)
    BY <1>1, <1>7 DEF SaveDispatched, PublishFails
  <1> QED
    BY <1>2, <1>3, <1>4, <1>5, <1>6, <1>7 DEF CallStep, CallTrouble

\* The receipt that Create inserts.
LEMMA CreateReceipt ==
  ASSUME TypeOK, ReceiptsInv, NEW c \in Clients, NEW r \in Requests, Create(c, r),
         ByKey(r) = {}
  PROVE  \E o \in OpIds :
           /\ op[o].status = "NONE"
           /\ op' = [op EXCEPT ![o] = [status |-> "ACCEPTED", revision |-> 1, result |-> {}]]
           /\ op'[o] = [status |-> "ACCEPTED", revision |-> 1, result |-> {}]
           /\ key'[o] = {Req[r].key} /\ payload'[o] = {Req[r].payload}
           /\ \A p \in OpIds \ {o} : op'[p] = op[p] /\ key'[p] = key[p] /\ payload'[p] = payload[p]
           /\ cop'[c] = {o} /\ crev'[c] = 1 /\ cpc'[c] = "audit"
  BY DEF Create, TypeOK, ReceiptTypes, ClientTypes, CGoto

\* SaveDispatched leaves the receipt alone or moves it from ACCEPTED to DISPATCHED.
LEMMA Dispatched ==
  ASSUME TypeOK, CallsInv, NEW c \in Clients, NEW r \in Requests, NEW o \in OpIds,
         SaveDispatched(c, r, o)
  PROVE  \/ op' = op
         \/ /\ op[o].status = "ACCEPTED"
            /\ op'[o].status = "DISPATCHED" /\ op'[o].revision = op[o].revision + 1
            /\ op'[o].result = op[o].result
            /\ \A p \in OpIds \ {o} : op'[p] = op[p]
  <1>1. op[o].revision = crev[c] => op[o].status = "ACCEPTED"
    BY DEF SaveDispatched, Calling, CallsInv, CallInv
  <1> QED
    BY <1>1 DEF SaveDispatched, TypeOK, ReceiptTypes
LEMMA CallReceipts ==
  ASSUME TypeOK, ReceiptsInv, CallsInv, NEW c \in Clients,
         (\E r \in Requests : Submit(c, r)) \/ CallStep(c) \/ CallTrouble(c)
  PROVE  ReceiptsGrow /\ KeysKept
  <1>0. \A o \in OpIds : op[o].revision \in Nat
    BY DEF TypeOK, ReceiptTypes
  <1>1. CASE UNCHANGED <<op, key, payload>>
    BY <1>1 DEF ReceiptsGrow, KeysKept
  <1>2. ASSUME NEW r \in Requests, Create(c, r) PROVE ReceiptsGrow /\ KeysKept
    <2>1. CASE ByKey(r) = {}
      BY <1>2, <2>1, CreateReceipt DEF ReceiptsGrow, KeysKept, ReceiptsInv
    <2> QED
      BY <1>1, <1>2, <2>1 DEF Create
  <1>3. ASSUME NEW r \in Requests, NEW o \in OpIds, SaveDispatched(c, r, o)
        PROVE  ReceiptsGrow /\ KeysKept
    <2>1. UNCHANGED <<key, payload>>
      BY <1>3 DEF SaveDispatched
    <2>2. CASE op' = op
      BY <2>1, <2>2 DEF ReceiptsGrow, KeysKept
    <2>3. CASE /\ op'[o].status = "DISPATCHED" /\ op'[o].revision = op[o].revision + 1
               /\ \A p \in OpIds \ {o} : op'[p] = op[p]
      BY <1>0, <2>1, <2>3 DEF ReceiptsGrow, KeysKept
    <2> QED
      BY <1>3, <2>2, <2>3, Dispatched
  <1> QED
    BY <1>1, <1>2, <1>3 DEF CallStep, CallTrouble, Submit, Find, FindAgain, AuditSubmit,
       PublishCommand, PublishFails, CallLost, receiptVars

\* A call that returns the operations os of its own request.
LEMMA AnswersKept ==
  ASSUME TypeOK, ReceiptsInv, AnswersInv, KeysKept
  PROVE  \A a \in answers : Belongs(a.op, a.req)'
  <1> SUFFICES ASSUME NEW a \in answers PROVE Belongs(a.op, a.req)'
    OBVIOUS
  <1>1. a.op \in OpIds
    BY DEF TypeOK, ClientTypes
  <1>2. op[a.op].status # "NONE"
    BY <1>1 DEF AnswersInv, Belongs, ReceiptsInv
  <1> QED
    BY <1>1, <1>2 DEF AnswersInv, Belongs, KeysKept

LEMMA NewAnswers ==
  ASSUME TypeOK, ReceiptsInv, AnswersInv, KeysKept, NEW r, NEW os \in SUBSET OpIds,
         answers' = answers \cup {[req |-> r, op |-> o] : o \in os},
         \A o \in os : op[o].status # "NONE" /\ Belongs(o, r)
  PROVE  AnswersInv'
  <1>1. ASSUME NEW o \in os PROVE Belongs(o, r)'
    BY <1>1 DEF Belongs, KeysKept
  <1> QED
    BY <1>1, AnswersKept DEF AnswersInv

LEMMA CallKeepsCalls ==
  ASSUME TypeOK, TypeOK', ReceiptsInv, CallsInv, AnswersInv, NEW c \in Clients,
         (\E r \in Requests : Submit(c, r)) \/ CallStep(c) \/ CallTrouble(c)
  PROVE  CallsInv' /\ AnswersInv'
  <1>0. ReceiptsGrow /\ KeysKept
    BY CallReceipts
  <1> SUFFICES CallInv(c)' /\ AnswersInv'
    BY <1>0, CallKept, OtherCalls DEF CallsInv
  <1>A. ASSUME UNCHANGED answers PROVE AnswersInv'
    BY <1>0, <1>A, AnswersKept DEF AnswersInv
  <1>R. ASSUME NEW r \in Requests, NEW os \in SUBSET OpIds, Return(c, r, os),
               \A o \in os : op[o].status # "NONE" /\ Belongs(o, r)
        PROVE  CallInv(c)' /\ AnswersInv'
    BY <1>0, <1>R, CallReturned, NewAnswers
  <1>C. CallInv(c)
    BY DEF CallsInv
  <1>T. /\ c \in DOMAIN cpc /\ c \in DOMAIN creq /\ c \in DOMAIN cop /\ c \in DOMAIN crev
        /\ cop[c] \subseteq OpIds
        /\ \A o \in OpIds : op[o].revision \in Nat
    BY DEF TypeOK, ClientTypes, ReceiptTypes
  <1>1. ASSUME NEW r \in Requests, Submit(c, r) PROVE CallInv(c)' /\ AnswersInv'
    <2>1. cop'[c] = {} /\ (cpc'[c] = "idle" => creq'[c] = {})
      BY <1>1, <1>C, <1>T DEF Submit, CallInv, CGoto
    <2> QED
      BY <1>1, <1>A, <2>1 DEF Submit, CallInv
  <1>2. ASSUME NEW r \in Requests, Find(c, r) PROVE CallInv(c)' /\ AnswersInv'
    <2>1. CASE CGoto(c, "create") /\ UNCHANGED <<creq, cop, crev, answers>>
      <3>1. cpc'[c] = "create" /\ cop'[c] = {}
        BY <1>2, <1>C, <1>T, <2>1 DEF Find, Calling, CallInv, CGoto
      <3> QED
        BY <1>A, <2>1, <3>1 DEF CallInv
    <2>2. ASSUME NEW o \in ByKey(r), Return(c, r, {}) PROVE CallInv(c)' /\ AnswersInv'
      BY <1>R, <2>2
    <2>3. ASSUME NEW o \in ByKey(r), payload[o] = {Req[r].payload}, Return(c, r, {o})
          PROVE  CallInv(c)' /\ AnswersInv'
      <3>1. o \in OpIds /\ Belongs(o, r)
        BY <2>3 DEF ByKey, Belongs
      <3>2. op[o].status # "NONE"
        BY <3>1 DEF Belongs, ReceiptsInv
      <3> QED
        BY <1>R, <2>3, <3>1, <3>2
    <2>4. ASSUME NEW o \in ByKey(r), payload[o] = {Req[r].payload}, op[o].status = "ACCEPTED",
                 CGoto(c, "publish"), cop' = [cop EXCEPT ![c] = {o}],
                 crev' = [crev EXCEPT ![c] = op[o].revision], UNCHANGED <<creq, answers>>
          PROVE  CallInv(c)' /\ AnswersInv'
      <3>1. o \in OpIds /\ Belongs(o, r)
        BY <2>4 DEF ByKey, Belongs
      <3>2. /\ cpc'[c] = "publish" /\ cop'[c] = {o} /\ crev'[c] = op[o].revision
            /\ creq'[c] = {r}
        BY <1>2, <1>T, <2>4 DEF CGoto, Find, Calling
      <3>3. UNCHANGED <<op, key, payload>>
        BY <1>2 DEF Find, receiptVars
      <3>4. CallInv(c)'
        BY <1>T, <2>4, <3>1, <3>2, <3>3 DEF CallInv, Belongs
      <3> QED
        BY <1>A, <2>4, <3>4
    <2> QED
      BY <1>2, <2>1, <2>2, <2>3, <2>4 DEF Find
  <1>3. ASSUME NEW r \in Requests, Create(c, r) PROVE CallInv(c)' /\ AnswersInv'
    <2>0. creq'[c] = {r} /\ UNCHANGED answers
      BY <1>3 DEF Create, Calling
    <2>1. CASE ByKey(r) = {}
      BY <1>3, <1>A, <2>0, <2>1, CreateReceipt DEF CallInv, Belongs
    <2>2. CASE ByKey(r) # {}
      <3>1. cpc'[c] = "again" /\ cop'[c] = {}
        BY <1>3, <1>C, <1>T, <2>2 DEF Create, Calling, CallInv, CGoto
      <3> QED
        BY <1>A, <2>0, <3>1 DEF CallInv
    <2> QED
      BY <2>1, <2>2
  <1>4. ASSUME NEW r \in Requests, FindAgain(c, r) PROVE CallInv(c)' /\ AnswersInv'
    <2> DEFINE os == {o \in ByKey(r) : payload[o] = {Req[r].payload}}
    <2>1. ASSUME NEW o \in os PROVE o \in OpIds /\ op[o].status # "NONE" /\ Belongs(o, r)
      <3>1. o \in OpIds /\ Belongs(o, r)
        BY <2>1 DEF ByKey, Belongs
      <3> QED
        BY <3>1 DEF Belongs, ReceiptsInv
    <2>2. Return(c, r, os)
      BY <1>4 DEF FindAgain
    <2> QED
      BY <1>R, <2>1, <2>2
  <1>5. ASSUME NEW o \in OpIds, AuditSubmit(c, o) \/ PublishCommand(c, o)
        PROVE  CallInv(c)' /\ AnswersInv'
    <2>1. /\ cpc'[c] \in {"publish", "save"} /\ creq'[c] = creq[c] /\ cop'[c] = cop[c]
          /\ crev'[c] = crev[c]
          /\ UNCHANGED <<op, key, payload, answers>>
      BY <1>5, <1>T DEF AuditSubmit, PublishCommand, CGoto, receiptVars
    <2>2. CallInv(c)'
      BY <1>C, <2>1 DEF CallInv, Belongs
    <2> QED
      BY <1>A, <2>1, <2>2
  <1>6. ASSUME NEW r \in Requests, NEW o \in OpIds, SaveDispatched(c, r, o) \/ PublishFails(c, r, o)
        PROVE  CallInv(c)' /\ AnswersInv'
    <2>1. creq[c] = {r} /\ cop[c] = {o} /\ Return(c, r, {o})
      BY <1>6 DEF SaveDispatched, PublishFails, Calling
    <2>2. op[o].status # "NONE" /\ Belongs(o, r)
      BY <1>C, <2>1 DEF CallInv
    <2> QED
      BY <1>R, <2>1, <2>2
  <1>7. ASSUME NEW r \in Requests, CallLost(c, r) PROVE CallInv(c)' /\ AnswersInv'
    BY <1>R, <1>7 DEF CallLost
  <1> QED
    BY <1>1, <1>2, <1>3, <1>4, <1>5, <1>6, <1>7 DEF CallStep, CallTrouble
\* A message of the result stream stays there and does not change.
MessagesKept ==
  \A o \in OpIds, e \in Events : rstate[o][e] # "none" =>
    rstate'[o][e] # "none" /\ Message(o, e)' = Message(o, e)

LEMMA ConsumerKept ==
  ASSUME TypeOK, TypeOK', NEW k \in Consumers, ConsumerInv(k), ReceiptsGrow, MessagesKept,
         kpc'[k] = kpc[k], kop'[k] = kop[k], kev'[k] = kev[k], krev'[k] = krev[k]
  PROVE  ConsumerInv(k)'
  <1>1. kop[k] \subseteq OpIds /\ kev[k] \subseteq Events /\ krev[k] \in Nat
    BY DEF TypeOK, ConsumerTypes
  <1>2. \A o \in OpIds : op[o].revision \in Nat /\ op'[o].revision \in Nat
    BY DEF TypeOK, ReceiptTypes
  <1> SUFFICES ASSUME NEW o \in kop[k], NEW e \in kev[k]
               PROVE  /\ rstate'[o][e] # "none"
                      /\ kpc[k] = "save" =>
                           /\ ~Refused(o, e)'
                           /\ op'[o].status # "NONE"
                           /\ krev[k] <= op'[o].revision
                           /\ krev[k] = op'[o].revision => op'[o].status \in Pending
    BY DEF ConsumerInv
  <1>3. rstate[o][e] # "none"
    BY DEF ConsumerInv
  <1>4. rstate'[o][e] # "none" /\ (Refused(o, e)' <=> Refused(o, e))
    BY <1>1, <1>3 DEF MessagesKept, Refused
  <1> QED
    BY <1>1, <1>2, <1>4 DEF ConsumerInv, ReceiptsGrow

LEMMA CallUnchanged ==
  ASSUME NEW c \in Clients, (\E r \in Requests : Submit(c, r)) \/ CallStep(c) \/ CallTrouble(c)
  PROVE  UNCHANGED <<ownerVars, resultVars, consVars>>
  BY DEF CallStep, CallTrouble, Submit, Find, Create, FindAgain, AuditSubmit, PublishCommand,
     PublishFails, SaveDispatched, CallLost

\* A command is stored for an operation that has a receipt.
LEMMA CallStores ==
  ASSUME TypeOK, CallsInv, SentInv, NEW c \in Clients,
         (\E r \in Requests : Submit(c, r)) \/ CallStep(c) \/ CallTrouble(c)
  PROVE  /\ sent \subseteq sent' /\ queue' \subseteq sent'
         /\ \A o \in sent' : o \in sent \/ (o \in OpIds /\ op[o].status # "NONE" /\ op' = op)
  <1>1. CASE UNCHANGED streamVars
    BY <1>1 DEF streamVars, SentInv
  <1>2. ASSUME NEW o \in OpIds, cop[c] = {o}, StoreCommand(o), UNCHANGED receiptVars
        PROVE  /\ sent \subseteq sent' /\ queue' \subseteq sent'
               /\ \A p \in sent' : p \in sent \/ (p \in OpIds /\ op[p].status # "NONE" /\ op' = op)
    <2>1. op[o].status # "NONE"
      BY <1>2 DEF CallsInv, CallInv
    <2> QED
      BY <1>2, <2>1 DEF StoreCommand, SentInv, receiptVars
  <1> QED
    BY <1>1, <1>2 DEF CallStep, CallTrouble, Submit, Find, Create, FindAgain, AuditSubmit,
       PublishCommand, PublishFails, SaveDispatched, CallLost

LEMMA CallKeepsReceipts ==
  ASSUME TypeOK, ReceiptsInv, CallsInv, SentInv, FinalInv, NEW c \in Clients,
         (\E r \in Requests : Submit(c, r)) \/ CallStep(c) \/ CallTrouble(c)
  PROVE  ReceiptsInv' /\ FinalInv'
  <1>S. /\ sent \subseteq sent'
        /\ \A o \in sent' : o \in sent \/ (o \in OpIds /\ op[o].status # "NONE" /\ op' = op)
    BY CallStores
  <1>U. UNCHANGED committed
    BY CallUnchanged DEF ownerVars
  <1>1. CASE UNCHANGED <<op, key, payload>> /\ \A o \in OpIds : audits'[o].result = audits[o].result
    <2>1. ReceiptsInv'
      BY <1>1, <1>S DEF ReceiptsInv
    <2> QED
      BY <1>1, <1>U, <2>1 DEF FinalInv
  <1>2. ASSUME NEW r \in Requests, Create(c, r) PROVE ReceiptsInv' /\ FinalInv'
    <2>1. CASE ByKey(r) # {}
      BY <1>1, <1>2, <2>1 DEF Create
    <2>2. CASE ByKey(r) = {}
      <3>0. PICK o \in OpIds :
           /\ op[o].status = "NONE"
           /\ op'[o] = [status |-> "ACCEPTED", revision |-> 1, result |-> {}]
           /\ key'[o] = {Req[r].key} /\ payload'[o] = {Req[r].payload}
           /\ \A p \in OpIds \ {o} : op'[p] = op[p] /\ key'[p] = key[p] /\ payload'[p] = payload[p]
        BY <1>2, <2>2, CreateReceipt
      <3>1. UNCHANGED <<sent, audits>>
        BY <1>2 DEF Create, streamVars
      <3>2. \A p \in OpIds : key[p] # {Req[r].key}
        BY <2>2 DEF ByKey
      <3>3. Req[r].key \in Keys /\ Req[r].payload \in Payloads
        BY RequestFields
      <3>4. ReceiptsInv'
        <4>1. \A p \in OpIds : op'[p].status # "NONE" =>
                (\E k \in Keys : key'[p] = {k}) /\ (\E q \in Payloads : payload'[p] = {q})
          BY <3>0, <3>3 DEF ReceiptsInv
        <4>2. \A p \in OpIds : op'[p].status = "NONE" =>
                key'[p] = {} /\ payload'[p] = {} /\ op'[p].revision = 0 /\ p \notin sent'
          BY <3>0, <3>1 DEF ReceiptsInv
        <4>3. \A o1, o2 \in OpIds : key'[o1] # {} /\ key'[o1] = key'[o2] => o1 = o2
          BY <3>0, <3>2 DEF ReceiptsInv
        <4> QED
          BY <4>1, <4>2, <4>3 DEF ReceiptsInv
      <3>5. FinalInv'
        BY <1>U, <3>0, <3>1 DEF FinalInv, Terminal
      <3> QED
        BY <3>4, <3>5
    <2> QED
      BY <2>1, <2>2
  <1>3. ASSUME NEW r \in Requests, NEW o \in OpIds, SaveDispatched(c, r, o)
        PROVE  ReceiptsInv' /\ FinalInv'
    <2>1. UNCHANGED <<key, payload, audits, sent>>
      BY <1>3 DEF SaveDispatched, streamVars
    <2>2. CASE op' = op
      BY <1>1, <2>1, <2>2
    <2>3. CASE /\ op[o].status = "ACCEPTED"
               /\ op'[o].status = "DISPATCHED" /\ op'[o].revision = op[o].revision + 1
               /\ op'[o].result = op[o].result
               /\ \A p \in OpIds \ {o} : op'[p] = op[p]
      <3>1. ReceiptsInv'
        BY <2>1, <2>3 DEF ReceiptsInv
      <3>2. FinalInv'
        BY <1>U, <2>1, <2>3 DEF FinalInv, Terminal
      <3> QED
        BY <3>1, <3>2
    <2> QED
      BY <1>3, <2>2, <2>3, Dispatched
  <1>4. ASSUME NEW o \in OpIds, AuditSubmit(c, o) PROVE ReceiptsInv' /\ FinalInv'
    <2>1. \A p \in OpIds : audits'[p].result = audits[p].result
      BY <1>4 DEF AuditSubmit, TypeOK, ReceiptTypes
    <2> QED
      BY <1>1, <1>4, <2>1 DEF AuditSubmit
  <1> QED
    BY <1>1, <1>2, <1>3, <1>4 DEF CallStep, CallTrouble, Submit, Find, FindAgain,
       PublishCommand, PublishFails, CallLost, receiptVars

LEMMA CallKeepsInv ==
  ASSUME GatewayInv, NEW c \in Clients,
         (\E r \in Requests : Submit(c, r)) \/ CallStep(c) \/ CallTrouble(c)
  PROVE  GatewayInv'
  <1> USE DEF GatewayInv
  <1>1. TypeOK'
    BY CallTypes
  <1>2. CallsInv' /\ AnswersInv'
    BY <1>1, CallKeepsCalls
  <1>3. ReceiptsInv' /\ FinalInv'
    BY CallKeepsReceipts
  <1>4. /\ sent \subseteq sent' /\ queue' \subseteq sent'
        /\ UNCHANGED <<ownerVars, resultVars, consVars>>
    BY CallStores, CallUnchanged
  <1>5. SentInv' /\ ClaimInv'
    BY <1>4 DEF SentInv, ClaimInv, Claims, ownerVars
  <1>6. CommittedInv' /\ ResultsInv' /\ DeliveryInv'
    BY <1>4 DEF CommittedInv, ResultsInv, DeliveryInv, ownerVars, resultVars
  <1>7. ConsumersInv'
    <2>1. MessagesKept
      BY <1>4 DEF MessagesKept, Message, resultVars
    <2> QED
      BY <1>1, <1>4, <2>1, ConsumerKept, CallReceipts DEF ConsumersInv, consVars
  <1> QED
    BY <1>1, <1>2, <1>3, <1>5, <1>6, <1>7
-----------------------------------------------------------------------------
(* Steps of the owner. *)

LEMMA OtherWorkers ==
  ASSUME TypeOK, NEW w \in Owners, NEW x \in Owners, x # w, OwnerStep(w) \/ OwnerStops(w)
  PROVE  opc'[x] = opc[x] /\ oop'[x] = oop[x] /\ ores'[x] = ores[x]
  BY DEF OwnerStep, OwnerStops, Receive, ClaimFind, ClaimInsert, Execute, Commit, Reply, Dismiss,
     OGoto, TypeOK, OwnerTypes

\* The worker holds no claim after the step, and took what it has from the stream.
LEMMA Dismissed ==
  ASSUME TypeOK, NEW w \in Owners, Dismiss(w)
  PROVE  opc'[w] = "idle" /\ oop'[w] = {} /\ ores'[w] = {}
  BY DEF Dismiss, OGoto, TypeOK, OwnerTypes

LEMMA OwnerKeepsSent ==
  ASSUME TypeOK, SentInv, NEW w \in Owners, OwnerStep(w) \/ OwnerStops(w)
  PROVE  SentInv' /\ sent' = sent
  <1>1. sent' = sent /\ queue' \subseteq queue
    BY DEF OwnerStep, OwnerStops, Receive, ClaimFind, ClaimInsert, Execute, Commit, Reply, streamVars
  <1>2. oop'[w] = oop[w] \/ oop'[w] = {} \/ \E o \in queue : oop'[w] = {o}
    BY Dismissed DEF OwnerStep, OwnerStops, Receive, ClaimFind, ClaimInsert, Execute, Commit, Reply,
       TypeOK, OwnerTypes
  <1> QED
    BY <1>1, <1>2, OtherWorkers DEF SentInv

\* A step that writes neither inbox nor executed and leaves the worker without a claim
\* keeps ClaimInv.
LEMMA NoNewClaim ==
  ASSUME TypeOK, ClaimInv, NEW w \in Owners, OwnerStep(w) \/ OwnerStops(w),
         UNCHANGED <<inbox, executed, sent>>, opc'[w] \notin {"execute", "commit"}
  PROVE  ClaimInv'
  <1>1. \A x \in Owners, o \in OpIds : Claims(x, o)' => x # w /\ Claims(x, o)
    BY OtherWorkers DEF Claims
  <1> QED
    BY <1>1, OtherWorkers DEF ClaimInv

LEMMA OwnerKeepsClaims ==
  ASSUME TypeOK, ClaimInv, SentInv, NEW w \in Owners, OwnerStep(w) \/ OwnerStops(w)
  PROVE  ClaimInv'
  <1>0. sent' = sent
    BY OwnerKeepsSent
  <1>T. \A o \in OpIds : executed[o] \in Nat /\ w \in DOMAIN opc /\ o \in DOMAIN inbox
                         /\ o \in DOMAIN executed
    BY DEF TypeOK, OwnerTypes
  <1>1. ASSUME NEW o \in OpIds, Receive(w, o) \/ ClaimFind(w, o) \/ Reply(w, o) PROVE ClaimInv'
    <2>1. opc'[w] \notin {"execute", "commit"} /\ UNCHANGED <<inbox, executed>>
      BY <1>1, <1>T, Dismissed DEF Receive, ClaimFind, Reply, OGoto
    <2> QED
      BY <1>0, <2>1, NoNewClaim
  <1>2. ASSUME OwnerStops(w) PROVE ClaimInv'
    BY <1>0, <1>2, Dismissed, NoNewClaim DEF OwnerStops
  <1>3. ASSUME NEW o \in OpIds, ClaimInsert(w, o) PROVE ClaimInv'
    <2>1. CASE inbox[o] # "NONE"
      <3>1. opc'[w] = "find" /\ UNCHANGED <<inbox, executed>>
        BY <1>3, <1>T, <2>1 DEF ClaimInsert, OGoto
      <3> QED
        BY <1>0, <3>1, NoNewClaim
    <2>2. CASE inbox[o] = "NONE"
      <3>1. /\ opc'[w] = "execute" /\ oop'[w] = {o} /\ inbox'[o] = "CLAIMED"
            /\ \A p \in OpIds \ {o} : inbox'[p] = inbox[p]
            /\ UNCHANGED executed
        BY <1>3, <1>T, <2>2 DEF ClaimInsert, OGoto, Owning
      <3>2. \A x \in Owners \ {w}, p \in OpIds : Claims(x, p)' => Claims(x, p) /\ p # o
        BY <2>2, OtherWorkers DEF Claims, ClaimInv
      <3>3. \A p \in OpIds : Claims(w, p)' => p = o
        BY <3>1 DEF Claims
      <3>4. \A x \in Owners, p \in OpIds : Claims(x, p)' => inbox'[p] = "CLAIMED"
        BY <3>1, <3>2, <3>3 DEF ClaimInv
      <3>5. \A x, y \in Owners, p \in OpIds : Claims(x, p)' /\ Claims(y, p)' => x = y
        BY <3>2, <3>3 DEF ClaimInv
      <3>6. \A x \in Owners : \A p \in oop'[x] : opc'[x] = "execute" => executed'[p] = 0
        BY <2>2, <3>1, OtherWorkers DEF ClaimInv
      <3> QED
        BY <1>0, <3>1, <3>4, <3>5, <3>6 DEF ClaimInv
    <2> QED
      BY <2>1, <2>2
  <1>4. ASSUME NEW o \in OpIds, Execute(w, o) PROVE ClaimInv'
    <2>1. /\ opc[w] = "execute" /\ opc'[w] = "commit" /\ oop[w] = {o} /\ oop'[w] = {o}
          /\ executed'[o] = executed[o] + 1
          /\ \A p \in OpIds \ {o} : executed'[p] = executed[p]
          /\ UNCHANGED inbox
      BY <1>4, <1>T DEF Execute, OGoto, Owning
    <2>2. \A x \in Owners, p \in OpIds : Claims(x, p)' <=> Claims(x, p)
      BY <2>1, OtherWorkers DEF Claims
    <2>3. Claims(w, o) /\ executed[o] = 0 /\ inbox[o] = "CLAIMED"
      BY <2>1 DEF ClaimInv, Claims
    <2>4. \A x \in Owners : \A p \in oop'[x] : opc'[x] = "execute" => executed'[p] = 0
      <3> SUFFICES ASSUME NEW x \in Owners, NEW p \in oop'[x], opc'[x] = "execute"
                   PROVE  executed'[p] = 0
        OBVIOUS
      <3>1. x # w /\ opc[x] = "execute" /\ p \in oop[x] /\ p \in OpIds
        BY <2>1, OtherWorkers DEF TypeOK, OwnerTypes
      <3>2. p # o
        BY <2>3, <3>1 DEF ClaimInv, Claims
      <3> QED
        BY <2>1, <3>1, <3>2 DEF ClaimInv
    <2>5. o \in sent
      BY <2>1 DEF SentInv
    <2> QED
      BY <1>0, <1>T, <2>1, <2>2, <2>3, <2>4, <2>5 DEF ClaimInv
  <1>5. ASSUME NEW o \in OpIds, Commit(w, o) PROVE ClaimInv'
    <2>1. /\ opc[w] = "commit" /\ opc'[w] \notin {"execute", "commit"} /\ oop[w] = {o}
          /\ inbox'[o] = "COMMITTED"
          /\ \A p \in OpIds \ {o} : inbox'[p] = inbox[p]
          /\ UNCHANGED executed
      BY <1>5, <1>T, Dismissed DEF Commit, OGoto, Owning
    <2>2. \A x \in Owners, p \in OpIds : Claims(x, p)' => x # w /\ Claims(x, p) /\ p # o
      BY <2>1, OtherWorkers DEF Claims, ClaimInv
    <2>3. \A x \in Owners : \A p \in oop'[x] : opc'[x] = "execute" => executed'[p] = 0
      BY <2>1, OtherWorkers DEF ClaimInv
    <2> QED
      BY <1>0, <2>1, <2>2, <2>3 DEF ClaimInv
  <1> QED
    BY <1>1, <1>2, <1>3, <1>4, <1>5 DEF OwnerStep
\* A committed result is never replaced.
CommittedKept == \A o \in OpIds : committed[o] # {} => committed'[o] = committed[o]

LEMMA OwnerKeepsCommitted ==
  ASSUME TypeOK, ClaimInv, CommittedInv, SentInv, NEW w \in Owners, OwnerStep(w) \/ OwnerStops(w)
  PROVE  CommittedInv' /\ CommittedKept
  <1>T. /\ w \in DOMAIN opc /\ w \in DOMAIN ores
        /\ \A o \in OpIds : o \in DOMAIN inbox /\ o \in DOMAIN committed
        /\ \A x \in Owners : oop[x] \subseteq OpIds
    BY DEF TypeOK, OwnerTypes
  <1>0. ASSUME UNCHANGED <<inbox, committed>>,
               opc'[w] = "commit" => OwnResult(ores'[w]),
               \A o \in oop'[w] : opc'[w] = "reply" =>
                 inbox[o] = "COMMITTED" /\ ores'[w] = committed[o]
        PROVE  CommittedInv' /\ CommittedKept
    <2>1. \A x \in Owners : opc'[x] = "commit" => OwnResult(ores'[x])
      BY <1>0, OtherWorkers DEF CommittedInv
    <2>2. \A x \in Owners : \A o \in oop'[x] : opc'[x] = "reply" =>
            inbox'[o] = "COMMITTED" /\ ores'[x] = committed'[o]
      BY <1>0, OtherWorkers DEF CommittedInv
    <2> QED
      BY <1>0, <2>1, <2>2 DEF CommittedInv, CommittedKept, OwnResult
  <1>1. ASSUME NEW o \in OpIds, Receive(w, o) \/ Reply(w, o) PROVE CommittedInv' /\ CommittedKept
    <2>1. opc'[w] \notin {"commit", "reply"} /\ UNCHANGED <<inbox, committed>>
      BY <1>1, <1>T, Dismissed DEF Receive, Reply, OGoto
    <2> QED
      BY <1>0, <2>1
  <1>2. ASSUME OwnerStops(w) PROVE CommittedInv' /\ CommittedKept
    BY <1>0, <1>2, Dismissed DEF OwnerStops
  <1>3. ASSUME NEW o \in OpIds, ClaimFind(w, o) PROVE CommittedInv' /\ CommittedKept
    <2>1. opc'[w] # "commit" /\ UNCHANGED <<inbox, committed>>
      BY <1>3, <1>T, Dismissed DEF ClaimFind, OGoto
    <2>2. opc'[w] = "reply" => oop'[w] = {o} /\ inbox[o] = "COMMITTED" /\ ores'[w] = committed[o]
      BY <1>3, <1>T, Dismissed DEF ClaimFind, OGoto, Owning
    <2> QED
      BY <1>0, <2>1, <2>2
  <1>4. ASSUME NEW o \in OpIds, ClaimInsert(w, o) PROVE CommittedInv' /\ CommittedKept
    <2>1. /\ opc'[w] \notin {"commit", "reply"} /\ UNCHANGED committed
          /\ \A p \in OpIds : inbox'[p] = "COMMITTED" <=> inbox[p] = "COMMITTED"
      BY <1>4, <1>T DEF ClaimInsert, OGoto
    <2>2. \A x \in Owners : opc'[x] = "commit" => OwnResult(ores'[x])
      BY <2>1, OtherWorkers DEF CommittedInv
    <2>3. \A x \in Owners : \A p \in oop'[x] : opc'[x] = "reply" =>
            inbox'[p] = "COMMITTED" /\ ores'[x] = committed'[p]
      BY <1>T, <2>1, OtherWorkers DEF CommittedInv
    <2> QED
      BY <2>1, <2>2, <2>3 DEF CommittedInv, CommittedKept, OwnResult
  <1>5. ASSUME NEW o \in OpIds, Execute(w, o) PROVE CommittedInv' /\ CommittedKept
    <2>1. opc'[w] = "commit" /\ UNCHANGED <<inbox, committed>> /\ OwnResult(ores'[w])
      BY <1>5, <1>T DEF Execute, OGoto, OwnResult
    <2> QED
      BY <1>0, <2>1
  <1>6. ASSUME NEW o \in OpIds, Commit(w, o) PROVE CommittedInv' /\ CommittedKept
    <2>1. opc[w] = "commit" /\ oop[w] = {o}
      BY <1>6 DEF Commit, Owning
    <2>2. inbox[o] = "CLAIMED" /\ OwnResult(ores[w]) /\ committed[o] = {}
      BY <2>1 DEF ClaimInv, Claims, CommittedInv
    <2>3. /\ inbox'[o] = "COMMITTED" /\ committed'[o] = ores[w]
          /\ \A p \in OpIds \ {o} : inbox'[p] = inbox[p] /\ committed'[p] = committed[p]
      BY <1>6, <1>T, <2>2 DEF Commit
    <2>4. /\ opc'[w] # "commit"
          /\ opc'[w] = "reply" => oop'[w] = {o} /\ ores'[w] = ores[w]
      BY <1>6, <1>T, <2>1, Dismissed DEF Commit, OGoto
    <2>5. \A x \in Owners : opc'[x] = "commit" => OwnResult(ores'[x])
      BY <2>4, OtherWorkers DEF CommittedInv
    <2>6. \A x \in Owners : \A p \in oop'[x] : opc'[x] = "reply" =>
            inbox'[p] = "COMMITTED" /\ ores'[x] = committed'[p]
      <3> SUFFICES ASSUME NEW x \in Owners, NEW p \in oop'[x], opc'[x] = "reply"
                   PROVE  inbox'[p] = "COMMITTED" /\ ores'[x] = committed'[p]
        OBVIOUS
      <3>1. CASE x = w
        BY <2>3, <2>4, <3>1
      <3>2. CASE x # w
        <4>1. p \in OpIds /\ inbox[p] = "COMMITTED" /\ ores'[x] = committed[p]
          BY <1>T, <3>2, OtherWorkers DEF CommittedInv
        <4> QED
          BY <2>2, <2>3, <4>1
      <3> QED
        BY <3>1, <3>2
    <2>7. /\ \A p \in OpIds : inbox'[p] # "COMMITTED" => committed'[p] = {}
          /\ \A p \in OpIds : inbox'[p] = "COMMITTED" => OwnResult(committed'[p])
      BY <2>2, <2>3 DEF CommittedInv
    <2>8. CommittedKept
      BY <2>2, <2>3 DEF CommittedKept
    <2> QED
      BY <2>5, <2>6, <2>7, <2>8 DEF CommittedInv, OwnResult
  <1> QED
    BY <1>1, <1>2, <1>3, <1>4, <1>5, <1>6 DEF OwnerStep

\* What publishing does to the result stream.
LEMMA Published ==
  ASSUME TypeOK, ResultsInv, DeliveryInv, NEW o \in OpIds, NEW rs \in SUBSET Result,
         PublishResults(o, rs)
  PROVE  /\ MessagesKept /\ DeliveryInv'
         /\ \A p \in OpIds : \A r \in results'[p] :
              /\ rstate'[p][r.event] # "none"
              /\ r \in results[p] \/ (p = o /\ r \in rs)
  <1>T. /\ o \in DOMAIN results /\ o \in DOMAIN rstate
        /\ \A p \in OpIds : \A r \in results[p] : r.event \in Events
        /\ \A r \in rs : r.event \in Events
    BY DEF TypeOK, ConsumerTypes, Result
  <1>1. /\ \A e \in Events : rstate'[o][e] =
             IF rstate[o][e] = "none" /\ \E r \in rs : r.event = e THEN "ready" ELSE rstate[o][e]
        /\ \A p \in OpIds \ {o} : rstate'[p] = rstate[p]
    BY <1>T DEF PublishResults
  <1>2. /\ results'[o] = results[o] \cup {r \in rs : rstate[o][r.event] = "none"}
        /\ \A p \in OpIds \ {o} : results'[p] = results[p]
        /\ tries' = tries
    BY <1>T DEF PublishResults
  <1>3. MessagesKept
    BY <1>1, <1>2 DEF MessagesKept, Message
  <1>4. DeliveryInv'
    BY <1>1, <1>2, CommandBounds DEF DeliveryInv
  <1>5. ASSUME NEW p \in OpIds, NEW r \in results'[p]
        PROVE  rstate'[p][r.event] # "none" /\ (r \in results[p] \/ (p = o /\ r \in rs))
    BY <1>T, <1>1, <1>2, <1>5 DEF ResultsInv
  <1> QED
    BY <1>3, <1>4, <1>5
\* Receipts, calls and answers do not depend on the owner or on the result stream.
LEMMA FrontKept ==
  ASSUME ReceiptsInv, CallsInv, AnswersInv, UNCHANGED <<receiptVars, clientVars, sent>>
  PROVE  ReceiptsInv' /\ CallsInv' /\ AnswersInv' /\ ReceiptsGrow
  BY DEF ReceiptsInv, CallsInv, CallInv, AnswersInv, Belongs, ReceiptsGrow, receiptVars, clientVars

\* A result that a receipt or a message shows stays the committed one.
LEMMA FinalKept ==
  ASSUME TypeOK, FinalInv, CommittedKept, UNCHANGED receiptVars
  PROVE  FinalInv'
  BY DEF FinalInv, CommittedKept, receiptVars

LEMMA ConsumersKept ==
  ASSUME TypeOK, TypeOK', ConsumersInv, ReceiptsGrow, MessagesKept, UNCHANGED consVars
  PROVE  ConsumersInv'
  BY ConsumerKept DEF ConsumersInv, consVars

LEMMA OwnerKeepsInv ==
  ASSUME GatewayInv, NEW w \in Owners, OwnerStep(w) \/ OwnerStops(w)
  PROVE  GatewayInv'
  <1> USE DEF GatewayInv
  <1>1. TypeOK'
    BY OwnerStepTypes
  <1>2. SentInv' /\ sent' = sent /\ ClaimInv' /\ CommittedInv' /\ CommittedKept
    BY OwnerKeepsSent, OwnerKeepsClaims, OwnerKeepsCommitted
  <1>3. UNCHANGED <<receiptVars, clientVars, consVars>>
    BY DEF OwnerStep, OwnerStops, Receive, ClaimFind, ClaimInsert, Execute, Commit, Reply
  <1>4. ReceiptsInv' /\ CallsInv' /\ AnswersInv' /\ ReceiptsGrow /\ FinalInv'
    BY <1>2, <1>3, FrontKept, FinalKept
  <1>5. MessagesKept /\ DeliveryInv' /\ ResultsInv'
    <2>1. CASE UNCHANGED resultVars
      <3>1. MessagesKept /\ DeliveryInv'
        BY <2>1 DEF MessagesKept, Message, DeliveryInv, resultVars
      <3>2. ResultsInv'
        BY <1>2, <2>1 DEF ResultsInv, CommittedKept, resultVars
      <3> QED
        BY <3>1, <3>2
    <2>2. ASSUME NEW o \in OpIds, Reply(w, o) PROVE MessagesKept /\ DeliveryInv' /\ ResultsInv'
      <3>1. ores[w] \in SUBSET Result /\ PublishResults(o, ores[w]) /\ UNCHANGED committed
        BY <2>2 DEF Reply, TypeOK, OwnerTypes
      <3>2. ores[w] = committed[o] /\ OwnResult(committed[o])
        BY <2>2 DEF Reply, Owning, CommittedInv
      <3>3. \A r \in ores[w] : r.event = OwnerEvent /\ committed[o] = {r}
        BY <3>2 DEF OwnResult
      <3> QED
        BY <3>1, <3>3, Published DEF ResultsInv
    <2> QED
      BY <2>1, <2>2 DEF OwnerStep, OwnerStops, Receive, ClaimFind, ClaimInsert, Execute, Commit
  <1> QED
    BY <1>1, <1>2, <1>3, <1>4, <1>5, ConsumersKept

-----------------------------------------------------------------------------
(* The result stream and its consumers. *)

\* Writing another state to a message that exists.
LEMMA MessageWritten ==
  ASSUME TypeOK, ResultsInv, DeliveryInv, NEW o \in OpIds, NEW e \in Events, NEW s,
         rstate[o][e] # "none", s # "none", s = "ready" => tries[o][e] < ResultMaxDeliver,
         rstate' = [rstate EXCEPT ![o][e] = s], UNCHANGED <<results, tries, committed>>
  PROVE  MessagesKept /\ DeliveryInv' /\ ResultsInv'
  <1>1. /\ rstate'[o][e] = s
        /\ \A p \in OpIds, f \in Events : p # o \/ f # e => rstate'[p][f] = rstate[p][f]
    BY DEF TypeOK, ConsumerTypes
  <1>2. \A p \in OpIds : \A r \in results[p] : r.event \in Events
    BY DEF TypeOK, ConsumerTypes, Result
  <1>3. MessagesKept
    BY <1>1 DEF MessagesKept, Message
  <1>4. DeliveryInv'
    BY <1>1 DEF DeliveryInv
  <1>5. ResultsInv'
    BY <1>1, <1>2 DEF ResultsInv
  <1> QED
    BY <1>3, <1>4, <1>5

LEMMA OtherConsumers ==
  ASSUME TypeOK, NEW k \in Consumers, NEW j \in Consumers, j # k, NEW o, NEW e,
         \/ TakeResult(k, o, e) \/ FindReceipt(k, o, e) \/ SaveResult(k, o, e)
         \/ AckResult(k, o, e) \/ FailResult(k, o, e) \/ ConsumerFails(k, o, e)
  PROVE  kpc'[j] = kpc[j] /\ kop'[j] = kop[j] /\ kev'[j] = kev[j] /\ krev'[j] = krev[j]
  BY DEF TakeResult, FindReceipt, SaveResult, AckResult, FailResult, ConsumerFails, Release, KGoto,
     TypeOK, ConsumerTypes

LEMMA Released ==
  ASSUME TypeOK, NEW k \in Consumers, Release(k)
  PROVE  ConsumerInv(k)'
  <1>1. kop'[k] = {}
    BY DEF Release, TypeOK, ConsumerTypes
  <1> QED
    BY <1>1 DEF ConsumerInv

\* Steps on the result stream leave the owner alone.
LEMMA OwnerUntouched ==
  ASSUME SentInv, ClaimInv, CommittedInv, UNCHANGED <<streamVars, ownerVars>>
  PROVE  SentInv' /\ ClaimInv' /\ CommittedInv' /\ CommittedKept
  BY DEF SentInv, ClaimInv, Claims, CommittedInv, OwnResult, CommittedKept, streamVars, ownerVars
\* SaveResult leaves the receipt alone or gives a pending one a valid result.
LEMMA Saved ==
  ASSUME TypeOK, ConsumersInv, NEW k \in Consumers, NEW o \in OpIds, NEW e \in Events,
         SaveResult(k, o, e)
  PROVE  \/ UNCHANGED <<op, audits>>
         \/ \E r \in results[o] :
              /\ r \in Result /\ r.status \in Terminal
              /\ op[o].status \in Pending
              /\ op' = [op EXCEPT ![o] = [status |-> r.status, revision |-> @.revision + 1,
                                             result |-> {r}]]
              /\ op'[o].status = r.status /\ op'[o].result = {r}
              /\ op'[o].revision = op[o].revision + 1
              /\ \A p \in OpIds \ {o} : op'[p] = op[p] /\ audits'[p] = audits[p]
              /\ audits'[o].result \in {audits[o].result, audits[o].result + 1}
  <1>1. kop[k] = {o} /\ kev[k] = {e} /\ kpc[k] = "save"
    BY DEF SaveResult, Handling
  <1>2. CASE op[o].revision = krev[k]
    <2>1. ~Refused(o, e) /\ op[o].status \in Pending
      BY <1>1, <1>2 DEF ConsumersInv, ConsumerInv
    <2>2. PICK r \in Message(o, e) :
            op' = [op EXCEPT ![o] = [status |-> r.status, revision |-> @.revision + 1,
                                        result |-> {r}]]
      BY <1>2 DEF SaveResult
    <2>3. r \in results[o] /\ r \in Result /\ r.status \in Terminal
      BY <2>1 DEF Message, Refused, TypeOK, ConsumerTypes, Result
    <2>4. /\ op'[o].status = r.status /\ op'[o].result = {r}
          /\ op'[o].revision = op[o].revision + 1
          /\ \A p \in OpIds \ {o} : op'[p] = op[p]
      BY <2>2 DEF TypeOK, ReceiptTypes
    <2>5. /\ \A p \in OpIds \ {o} : audits'[p] = audits[p]
          /\ audits'[o].result \in {audits[o].result, audits[o].result + 1}
      BY <1>2 DEF SaveResult, TypeOK, ReceiptTypes
    <2> QED
      BY <2>1, <2>2, <2>3, <2>4, <2>5
  <1>3. CASE op[o].revision # krev[k]
    BY <1>3 DEF SaveResult
  <1> QED
    BY <1>2, <1>3

LEMMA SaveKeepsReceipts ==
  ASSUME TypeOK, ReceiptsInv, FinalInv, ResultsInv, ConsumersInv,
         NEW k \in Consumers, NEW o \in OpIds, NEW e \in Events, SaveResult(k, o, e)
  PROVE  ReceiptsInv' /\ FinalInv' /\ ReceiptsGrow /\ KeysKept
  <1>U. UNCHANGED <<key, payload, sent, committed>>
    BY DEF SaveResult, streamVars, ownerVars
  <1>T. \A p \in OpIds : op[p].revision \in Nat /\ audits[p].result \in Nat
    BY DEF TypeOK, ReceiptTypes
  <1>1. CASE UNCHANGED <<op, audits>>
    BY <1>1, <1>U DEF ReceiptsInv, FinalInv, ReceiptsGrow, KeysKept
  <1>2. ASSUME NEW r \in results[o], r \in Result, r.status \in Terminal, op[o].status \in Pending,
               op'[o].status = r.status, op'[o].result = {r},
               op'[o].revision = op[o].revision + 1,
               \A p \in OpIds \ {o} : op'[p] = op[p] /\ audits'[p] = audits[p],
               audits'[o].result \in {audits[o].result, audits[o].result + 1}
        PROVE  ReceiptsInv' /\ FinalInv' /\ ReceiptsGrow /\ KeysKept
    <2>1. op[o].status # "NONE" /\ r.status # "NONE" /\ op[o].status \notin Terminal
      BY <1>2 DEF Pending, Terminal
    <2>2. ReceiptsInv'
      BY <1>2, <1>U, <2>1 DEF ReceiptsInv
    <2>3. ReceiptsGrow /\ KeysKept
      BY <1>2, <1>T, <1>U, <2>1 DEF ReceiptsGrow, KeysKept
    <2>4. IF r.event = OwnerEvent THEN committed[o] = {r} ELSE r.status = "EXPIRED"
      BY <1>2 DEF ResultsInv, Terminal
    <2>5. audits'[o].result <= 1
      BY <1>2, <1>T, <2>1 DEF FinalInv
    <2>6. FinalInv'
      <3> SUFFICES ASSUME NEW p \in OpIds
                   PROVE  /\ op'[p].status \notin Terminal => op'[p].result = {} /\ audits'[p].result = 0
                          /\ op'[p].status \in Terminal => \E q \in Result : op'[p].result = {q}
                          /\ audits'[p].result <= 1
                          /\ \A q \in op'[p].result :
                               /\ op'[p].status = q.status
                               /\ IF q.event = OwnerEvent THEN committed'[p] = {q}
                                  ELSE q.status = "EXPIRED"
        BY DEF FinalInv
      <3>1. CASE p = o
        BY <1>2, <1>U, <2>4, <2>5, <3>1
      <3>2. CASE p # o
        BY <1>2, <1>U, <3>2 DEF FinalInv
      <3> QED
        BY <3>1, <3>2
    <2> QED
      BY <2>2, <2>3, <2>6
  <1> QED
    BY <1>1, <1>2, Saved

LEMMA ConsumerKeepsInv ==
  ASSUME GatewayInv, NEW k \in Consumers, NEW o \in OpIds, NEW e \in Events,
         \/ TakeResult(k, o, e) \/ FindReceipt(k, o, e) \/ SaveResult(k, o, e)
         \/ AckResult(k, o, e) \/ FailResult(k, o, e) \/ ConsumerFails(k, o, e)
  PROVE  GatewayInv'
  <1> USE DEF GatewayInv
  <1>1. TypeOK'
    BY ResultStepTypes DEF ResultTrouble
  <1>2. UNCHANGED <<streamVars, clientVars, ownerVars>>
    BY DEF TakeResult, FindReceipt, SaveResult, AckResult, FailResult, ConsumerFails
  <1>3. SentInv' /\ ClaimInv' /\ CommittedInv' /\ CommittedKept
    BY <1>2, OwnerUntouched
  <1>T. k \in DOMAIN kpc /\ k \in DOMAIN kop /\ k \in DOMAIN kev /\ k \in DOMAIN krev
    BY DEF TypeOK, ConsumerTypes
  <1>C. ConsumerInv(k)
    BY DEF ConsumersInv
  <1>4. ReceiptsInv' /\ CallsInv' /\ AnswersInv' /\ FinalInv' /\ ReceiptsGrow
    <2>1. CASE UNCHANGED receiptVars
      BY <1>2, <1>3, <2>1, FrontKept, FinalKept DEF streamVars
    <2>2. CASE SaveResult(k, o, e)
      <3>1. ReceiptsInv' /\ FinalInv' /\ ReceiptsGrow /\ KeysKept
        BY <2>2, SaveKeepsReceipts
      <3>2. CallsInv'
        BY <1>1, <1>2, <3>1, CallKept DEF CallsInv, clientVars
      <3>3. AnswersInv'
        BY <1>2, <3>1, AnswersKept DEF AnswersInv, clientVars
      <3> QED
        BY <3>1, <3>2, <3>3
    <2> QED
      BY <2>1, <2>2 DEF TakeResult, FindReceipt, AckResult, FailResult, ConsumerFails
  <1>5. MessagesKept /\ DeliveryInv' /\ ResultsInv'
    <2>1. CASE UNCHANGED resultVars
      <3>1. MessagesKept /\ DeliveryInv'
        BY <2>1 DEF MessagesKept, Message, DeliveryInv, resultVars
      <3>2. ResultsInv'
        BY <1>3, <2>1 DEF ResultsInv, CommittedKept, resultVars
      <3> QED
        BY <3>1, <3>2
    <2>2. CASE TakeResult(k, o, e)
      <3>1. /\ rstate[o][e] = "ready" /\ rstate'[o][e] = "held"
            /\ \A p \in OpIds, f \in Events : p # o \/ f # e =>
                 rstate'[p][f] = rstate[p][f] /\ tries'[p][f] = tries[p][f]
            /\ UNCHANGED results
        BY <2>2 DEF TakeResult, TypeOK, ConsumerTypes
      <3>2. \A p \in OpIds : \A r \in results[p] : r.event \in Events
        BY DEF TypeOK, ConsumerTypes, Result
      <3>3. MessagesKept
        BY <3>1 DEF MessagesKept, Message
      <3>4. DeliveryInv'
        BY <3>1 DEF DeliveryInv
      <3>5. ResultsInv'
        BY <1>2, <3>1, <3>2 DEF ResultsInv, ownerVars
      <3> QED
        BY <3>3, <3>4, <3>5
    <2>3. CASE AckResult(k, o, e)
      <3>1. rstate[o][e] # "none"
        BY <1>C, <2>3 DEF AckResult, Handling, ConsumerInv
      <3> QED
        BY <1>2, <2>3, <3>1, MessageWritten DEF AckResult, ownerVars
    <2>4. CASE FailResult(k, o, e) \/ ConsumerFails(k, o, e)
      <3>1. rstate[o][e] # "none"
        BY <1>C, <2>4 DEF FailResult, ConsumerFails, Handling, ConsumerInv
      <3> DEFINE s == IF rstate[o][e] = "held" THEN Undelivered(o, e) ELSE rstate[o][e]
      <3>2. s # "none" /\ (s = "ready" => tries[o][e] < ResultMaxDeliver)
        BY <3>1 DEF Undelivered, DeliveryInv
      <3>3. rstate' = [rstate EXCEPT ![o][e] = s] /\ UNCHANGED <<results, tries, committed>>
        BY <1>2, <2>4 DEF FailResult, ConsumerFails, ownerVars
      <3> HIDE DEF s
      <3> QED
        BY <3>1, <3>2, <3>3, MessageWritten
    <2> QED
      BY <2>1, <2>2, <2>3, <2>4 DEF FindReceipt, SaveResult
  <1>6. ConsumerInv(k)'
    <2>1. CASE TakeResult(k, o, e)
      <3>1. kop'[k] = {o} /\ kev'[k] = {e} /\ kpc'[k] = "find" /\ rstate'[o][e] # "none"
        BY <1>T, <2>1 DEF TakeResult, KGoto, TypeOK, ConsumerTypes
      <3> QED
        BY <3>1 DEF ConsumerInv
    <2>2. CASE FindReceipt(k, o, e)
      <3>1. /\ kop'[k] = {o} /\ kev'[k] = {e} /\ rstate'[o][e] # "none"
            /\ UNCHANGED <<op, results>>
        BY <1>C, <2>2 DEF FindReceipt, Handling, ConsumerInv, resultVars, receiptVars
      <3>2. kpc'[k] = "save" => ~Refused(o, e) /\ op[o].status \in Pending
                                /\ krev'[k] = op[o].revision
        BY <1>T, <2>2 DEF FindReceipt, KGoto
      <3>3. op[o].revision \in Nat /\ (op[o].status \in Pending => op[o].status # "NONE")
        BY DEF TypeOK, ReceiptTypes, Pending
      <3> QED
        BY <3>1, <3>2, <3>3 DEF ConsumerInv, Refused, Message
    <2>3. CASE SaveResult(k, o, e)
      <3>1. /\ kop'[k] = {o} /\ kev'[k] = {e} /\ kpc'[k] # "save" /\ rstate'[o][e] # "none"
        BY <1>C, <1>T, <2>3 DEF SaveResult, Handling, ConsumerInv, KGoto, resultVars
      <3> QED
        BY <3>1 DEF ConsumerInv
    <2> QED
      BY <2>1, <2>2, <2>3, Released DEF AckResult, FailResult, ConsumerFails
  <1>7. ConsumersInv'
    BY <1>1, <1>4, <1>5, <1>6, ConsumerKept, OtherConsumers DEF ConsumersInv
  <1> QED
    BY <1>1, <1>3, <1>4, <1>5, <1>7
LEMMA StreamKeepsInv ==
  ASSUME GatewayInv, NEW o \in OpIds, NEW e \in Events, OtherResult(o, e) \/ ResultRedelivered(o, e)
  PROVE  GatewayInv'
  <1> USE DEF GatewayInv
  <1>1. TypeOK'
    BY ResultStepTypes DEF ResultTrouble
  <1>2. UNCHANGED <<receiptVars, streamVars, clientVars, ownerVars, consVars>>
    BY DEF OtherResult, ResultRedelivered
  <1>3. SentInv' /\ ClaimInv' /\ CommittedInv' /\ CommittedKept
    BY <1>2, OwnerUntouched
  <1>4. ReceiptsInv' /\ CallsInv' /\ AnswersInv' /\ FinalInv' /\ ReceiptsGrow
    BY <1>2, <1>3, FrontKept, FinalKept DEF streamVars
  <1>5. MessagesKept /\ DeliveryInv' /\ ResultsInv'
    <2>1. CASE OtherResult(o, e)
      <3>1. PICK s \in {"EXPIRED", "INVALID"} : PublishResults(o, {[event |-> e, status |-> s]})
        BY <2>1 DEF OtherResult
      <3>2. {[event |-> e, status |-> s]} \in SUBSET Result /\ e # OwnerEvent
        BY <2>1 DEF OtherResult, Result, Terminal
      <3>3. UNCHANGED committed
        BY <1>2 DEF ownerVars
      <3>4. /\ MessagesKept /\ DeliveryInv'
            /\ \A p \in OpIds : \A r \in results'[p] :
                 /\ rstate'[p][r.event] # "none"
                 /\ r \in results[p] \/ (p = o /\ r \in {[event |-> e, status |-> s]})
        BY <3>1, <3>2, Published
      <3>5. ResultsInv'
        BY <3>2, <3>3, <3>4 DEF ResultsInv
      <3> QED
        BY <3>4, <3>5
    <2>2. CASE ResultRedelivered(o, e)
      BY <1>2, <2>2, MessageWritten DEF ResultRedelivered, ownerVars
    <2> QED
      BY <2>1, <2>2
  <1> QED
    BY <1>1, <1>2, <1>3, <1>4, <1>5, ConsumersKept

-----------------------------------------------------------------------------
(* Theorems. *)

LEMMA InitHolds == Init => GatewayInv
  <1> SUFFICES ASSUME Init PROVE GatewayInv
    OBVIOUS
  <1> USE DEF Init
  <1>1. TypeOK
    <2>1. ReceiptTypes
      BY DEF ReceiptTypes, NoReceipt, Status
    <2>2. ClientTypes
      BY DEF ClientTypes
    <2>3. OwnerTypes
      BY DEF OwnerTypes
    <2>4. ConsumerTypes
      BY CommandBounds DEF ConsumerTypes
    <2> QED
      BY <2>1, <2>2, <2>3, <2>4, CommandBounds DEF TypeOK
  <1>2. ReceiptsInv /\ FinalInv
    BY DEF ReceiptsInv, FinalInv, NoReceipt, Terminal
  <1>3. CallsInv /\ AnswersInv /\ SentInv
    BY DEF CallsInv, CallInv, AnswersInv, SentInv
  <1>4. ClaimInv /\ CommittedInv
    BY DEF ClaimInv, Claims, CommittedInv
  <1>5. ResultsInv /\ DeliveryInv /\ ConsumersInv
    BY DEF ResultsInv, DeliveryInv, ConsumersInv, ConsumerInv
  <1> QED
    BY <1>1, <1>2, <1>3, <1>4, <1>5 DEF GatewayInv

LEMMA NextKeepsInv == GatewayInv /\ [Next]_vars => GatewayInv'
  <1> SUFFICES ASSUME GatewayInv, [Next]_vars PROVE GatewayInv'
    OBVIOUS
  <1>1. CASE UNCHANGED vars
    <2>1. /\ UNCHANGED <<receiptVars, streamVars, clientVars, ownerVars, resultVars, consVars>>
          /\ UNCHANGED <<calls, faults, ownerStops>>
      BY <1>1 DEF vars, receiptVars, streamVars, clientVars, ownerVars, resultVars, consVars
    <2>2. TypeOK'
      BY <2>1, SameTypes DEF GatewayInv, TypeOK
    <2>3. MessagesKept /\ DeliveryInv'
      BY <2>1 DEF MessagesKept, Message, GatewayInv, DeliveryInv, resultVars
    <2>4. SentInv' /\ ClaimInv' /\ CommittedInv' /\ CommittedKept
      BY <2>1, OwnerUntouched DEF GatewayInv
    <2>5. ReceiptsInv' /\ CallsInv' /\ AnswersInv' /\ FinalInv' /\ ReceiptsGrow
      BY <2>1, <2>4, FrontKept, FinalKept DEF GatewayInv, streamVars
    <2>6. ResultsInv'
      BY <2>1, <2>4 DEF GatewayInv, ResultsInv, CommittedKept, resultVars
    <2> QED
      BY <2>1, <2>2, <2>3, <2>4, <2>5, <2>6, ConsumersKept DEF GatewayInv
  <1>2. CASE \E c \in Clients : (\E r \in Requests : Submit(c, r)) \/ CallStep(c) \/ CallTrouble(c)
    BY <1>2, CallKeepsInv
  <1>3. CASE \E w \in Owners : OwnerStep(w) \/ OwnerStops(w)
    BY <1>3, OwnerKeepsInv
  <1>4. CASE \E k \in Consumers : ConsumerStep(k)
    BY <1>4, ConsumerKeepsInv DEF ConsumerStep
  <1>5. CASE \E o \in OpIds, e \in Events : OtherResult(o, e) \/ ResultTrouble(o, e)
    BY <1>5, StreamKeepsInv, ConsumerKeepsInv DEF ResultTrouble
  <1> QED
    BY <1>1, <1>2, <1>3, <1>4, <1>5 DEF Next

\* The gateway, the owner's inbox and the result consumer keep GatewayInv, whatever is
\* lost, delivered again or stopped halfway.
THEOREM GatewayInvariant == Spec => []GatewayInv
  BY InitHolds, NextKeepsInv, PTL DEF Spec

\* Receipts, calls, inbox entries and consumers keep the shape the code gives them; an
\* invalid result never becomes the status of a receipt, and no message is delivered
\* more often than MaxDeliver.
THEOREM GatewayTypes == Spec => []TypeOK
  <1>1. GatewayInv => TypeOK
    BY DEF GatewayInv
  <1> QED
    BY <1>1, GatewayInvariant, PTL

\* Submit: any number of concurrent and repeated submissions of one idempotency key end
\* up with one receipt, and answers show the caller's own key and payload.
THEOREM OneReceipt == Spec => []OneReceiptPerKey
  <1>1. GatewayInv => OneReceiptPerKey
    BY DEF GatewayInv, ReceiptsInv, AnswersInv, Belongs, OneReceiptPerKey
  <1> QED
    BY <1>1, GatewayInvariant, PTL

\* InboxService.Process: any number of deliveries to any number of workers, stopped
\* anywhere, run the owner's callback at most once.
THEOREM AtMostOneExecution == Spec => []ExecutedAtMostOnce
  <1>1. GatewayInv => ExecutedAtMostOnce
    BY DEF GatewayInv, ClaimInv, ExecutedAtMostOnce
  <1> QED
    BY <1>1, GatewayInvariant, PTL

\* ApplyResult: a receipt shows the committed result of the owner or an expiry, and its
\* result is audited once, whatever the order and number of deliveries.
THEOREM ReceiptShowsOwner == Spec => []ReceiptMatchesOwner
  <1>1. GatewayInv => ReceiptMatchesOwner
    BY DEF GatewayInv, FinalInv, ReceiptMatchesOwner
  <1> QED
    BY <1>1, GatewayInvariant, PTL
-----------------------------------------------------------------------------
(* The refinement of CommandReceipt. *)

Accepted == [k \in Keys |-> UNION {payload[o] : o \in Of(k)}]
Final == [k \in Keys |-> UNION {op[o].result : o \in Of(k)}]

\* The receipt that has key k stands for k.
LEMMA ReceiptOfKey ==
  ASSUME ReceiptsInv, NEW k \in Keys, NEW o \in OpIds, key[o] = {k}
  PROVE  Of(k) = {o} /\ Accepted[k] = payload[o] /\ Final[k] = op[o].result
  <1>1. Of(k) = {o}
    BY DEF ReceiptsInv, Of
  <1> QED
    BY <1>1 DEF Accepted, Final

LEMMA NoReceiptOfKey ==
  ASSUME NEW k \in Keys, Of(k) = {}
  PROVE  Accepted[k] = {} /\ Final[k] = {}
  BY DEF Accepted, Final

\* A step that changes neither keys, payloads nor results is no step of CommandReceipt.
LEMMA ReceiptsStutter ==
  ASSUME UNCHANGED <<key, payload>>, \A o \in OpIds : op'[o].result = op[o].result
  PROVE  UNCHANGED <<Accepted, Final>>
  <1>1. \A k \in Keys : Of(k)' = Of(k) /\ Of(k) \subseteq OpIds
    BY DEF Of
  <1>2. \A k \in Keys : {op'[o].result : o \in Of(k)} = {op[o].result : o \in Of(k)}
    BY <1>1
  <1> QED
    BY <1>1, <1>2 DEF Accepted, Final

\* Create accepts a command under its key.
LEMMA CreateAccepts ==
  ASSUME TypeOK, ReceiptsInv, ReceiptsInv', NEW c \in Clients, NEW r \in Requests, Create(c, r),
         ByKey(r) = {}
  PROVE  Receipts!AcceptCommand(Req[r].key, Req[r].payload)
  <1> DEFINE k == Req[r].key
  <1>1. PICK o \in OpIds :
           /\ op[o].status = "NONE"
           /\ op'[o] = [status |-> "ACCEPTED", revision |-> 1, result |-> {}]
           /\ key'[o] = {k} /\ payload'[o] = {Req[r].payload}
           /\ \A p \in OpIds \ {o} : op'[p] = op[p] /\ key'[p] = key[p] /\ payload'[p] = payload[p]
    BY CreateReceipt
  <1>2. k \in Keys /\ Of(k) = {} /\ key[o] = {}
    BY <1>1, RequestFields DEF Of, ByKey, ReceiptsInv
  <1> HIDE DEF k
  <1>3. Accepted[k] = {} /\ Final[k] = {}
    BY <1>2, NoReceiptOfKey
  <1>4. Of(k)' = {o}
    BY <1>1, <1>2 DEF Of
  <1>5. Accepted'[k] = {Req[r].payload} /\ Final'[k] = {}
    BY <1>1, <1>2, <1>4 DEF Accepted, Final
  <1>6. ASSUME NEW j \in Keys, j # k PROVE Accepted'[j] = Accepted[j] /\ Final'[j] = Final[j]
    <2>1. Of(j)' = Of(j) /\ Of(j) \subseteq OpIds \ {o}
      BY <1>1, <1>2, <1>6 DEF Of
    <2>2. /\ {payload'[p] : p \in Of(j)} = {payload[p] : p \in Of(j)}
          /\ {op'[p].result : p \in Of(j)} = {op[p].result : p \in Of(j)}
      BY <1>1, <2>1
    <2> QED
      BY <2>1, <2>2 DEF Accepted, Final
  <1>7. Accepted' = [Accepted EXCEPT ![k] = {Req[r].payload}]
    BY <1>2, <1>5, <1>6 DEF Accepted
  <1>8. Final' = Final
    BY <1>3, <1>5, <1>6 DEF Final
  <1> QED
    BY <1>3, <1>7, <1>8 DEF Receipts!AcceptCommand, Accepted, Final, k

\* SaveResult finishes the command of the receipt's key, or changes nothing.
LEMMA SaveFinishes ==
  ASSUME TypeOK, ReceiptsInv, FinalInv, ConsumersInv,
         NEW k \in Consumers, NEW o \in OpIds, NEW e \in Events, SaveResult(k, o, e)
  PROVE  \/ UNCHANGED <<Accepted, Final>>
         \/ \E j \in Keys, r \in Result : Receipts!Finish(j, r)
  <1>U. UNCHANGED <<key, payload>>
    BY DEF SaveResult
  <1>1. CASE UNCHANGED op
    BY <1>1, <1>U, ReceiptsStutter
  <1>2. ASSUME NEW r \in Result, op[o].status \in Pending, op'[o].result = {r},
               \A p \in OpIds \ {o} : op'[p] = op[p]
        PROVE  \E j \in Keys : Receipts!Finish(j, r)
    <2>1. op[o].status # "NONE" /\ op[o].status \notin Terminal
      BY <1>2 DEF Pending, Terminal
    <2>2. PICK j \in Keys : key[o] = {j}
      BY <2>1 DEF ReceiptsInv
    <2>3. Of(j) = {o} /\ Accepted[j] # {} /\ Final[j] = {}
      <3>1. payload[o] # {} /\ op[o].result = {}
        BY <2>1 DEF ReceiptsInv, FinalInv
      <3> QED
        BY <2>2, <3>1, ReceiptOfKey
    <2>4. \A i \in Keys : Of(i)' = Of(i)
      BY <1>U DEF Of
    <2>5. Accepted' = Accepted
      BY <1>U, <2>4 DEF Accepted
    <2>6. Final'[j] = {r}
      BY <1>2, <2>3, <2>4 DEF Final
    <2>7. ASSUME NEW i \in Keys, i # j PROVE Final'[i] = Final[i]
      <3>1. Of(i) \subseteq OpIds \ {o}
        BY <2>2, <2>7 DEF Of
      <3>2. {op'[p].result : p \in Of(i)} = {op[p].result : p \in Of(i)}
        BY <1>2, <3>1
      <3> QED
        BY <2>4, <3>2 DEF Final
    <2>8. Final' = [Final EXCEPT ![j] = {r}]
      BY <2>6, <2>7 DEF Final
    <2>9. Receipts!Finish(j, r)
      BY <2>3, <2>5, <2>8 DEF Receipts!Finish, Accepted, Final
    <2> QED
      BY <2>9
  <1> QED
    BY <1>1, <1>2, Saved

LEMMA StepsImplement == GatewayInv /\ GatewayInv' /\ [Next]_vars => [Receipts!RNext]_(Receipts!rvars)
  <1> SUFFICES ASSUME GatewayInv, GatewayInv', [Next]_vars
               PROVE  Receipts!RNext \/ UNCHANGED <<Accepted, Final>>
    BY DEF Receipts!rvars, Accepted, Final
  <1> USE DEF GatewayInv
  <1>1. CASE UNCHANGED receiptVars
    BY <1>1, ReceiptsStutter DEF receiptVars
  <1>2. ASSUME NEW c \in Clients, NEW r \in Requests, Create(c, r)
        PROVE  Receipts!RNext \/ UNCHANGED <<Accepted, Final>>
    <2>1. CASE ByKey(r) = {}
      BY <1>2, <2>1, CreateAccepts, RequestFields DEF Receipts!RNext
    <2>2. CASE ByKey(r) # {}
      BY <1>2, <2>2, ReceiptsStutter DEF Create
    <2> QED
      BY <2>1, <2>2
  <1>3. ASSUME NEW c \in Clients, NEW r \in Requests, NEW o \in OpIds, SaveDispatched(c, r, o)
        PROVE  Receipts!RNext \/ UNCHANGED <<Accepted, Final>>
    <2>1. \A p \in OpIds : op'[p].result = op[p].result
      BY <1>3, Dispatched
    <2> QED
      BY <1>3, <2>1, ReceiptsStutter DEF SaveDispatched
  <1>4. ASSUME NEW c \in Clients, NEW o \in OpIds, AuditSubmit(c, o)
        PROVE  Receipts!RNext \/ UNCHANGED <<Accepted, Final>>
    BY <1>4, ReceiptsStutter DEF AuditSubmit
  <1>5. ASSUME NEW k \in Consumers, NEW o \in OpIds, NEW e \in Events, SaveResult(k, o, e)
        PROVE  Receipts!RNext \/ UNCHANGED <<Accepted, Final>>
    BY <1>5, SaveFinishes DEF Receipts!RNext
  <1>6. CASE UNCHANGED vars
    BY <1>1, <1>6 DEF vars, receiptVars
  <1>7. CASE \E c \in Clients : (\E r \in Requests : Submit(c, r)) \/ CallStep(c) \/ CallTrouble(c)
    BY <1>1, <1>2, <1>3, <1>4, <1>7 DEF CallStep, CallTrouble, Submit, Find, FindAgain,
       PublishCommand, PublishFails, CallLost
  <1>8. CASE \E w \in Owners : OwnerStep(w) \/ OwnerStops(w)
    BY <1>1, <1>8 DEF OwnerStep, OwnerStops, Receive, ClaimFind, ClaimInsert, Execute, Commit, Reply
  <1>9. CASE \E k \in Consumers : ConsumerStep(k)
    BY <1>1, <1>5, <1>9 DEF ConsumerStep, TakeResult, FindReceipt, AckResult, FailResult
  <1>10. CASE \E o \in OpIds, e \in Events : OtherResult(o, e) \/ ResultTrouble(o, e)
    BY <1>1, <1>10 DEF OtherResult, ResultTrouble, ResultRedelivered, ConsumerFails
  <1> QED
    BY <1>6, <1>7, <1>8, <1>9, <1>10 DEF Next

\* The gateway gives clients the receipt that CommandReceipt promises: one per key, with
\* the payload it was accepted with, and one final result.
THEOREM GatewayImplementsReceipt == Spec => ImplementsCommandReceipt
  <1>1. Init => Receipts!RInit
    <2>1. Init => Accepted = [k \in Keys |-> {}] /\ Final = [k \in Keys |-> {}]
      <3> SUFFICES ASSUME Init PROVE \A k \in Keys : Of(k) = {}
        BY DEF Accepted, Final
      <3> QED
        BY DEF Init, Of
    <2> QED
      BY <2>1 DEF Receipts!RInit, Accepted, Final
  <1> QED
    BY <1>1, GatewayInvariant, StepsImplement, PTL DEF Spec, ImplementsCommandReceipt, Receipts!RSpec
=============================================================================
