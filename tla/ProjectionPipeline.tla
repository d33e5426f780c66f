------------------------- MODULE ProjectionPipeline -------------------------
(***************************************************************************)
(* The live projection path of Record Hub: a durable JetStream pull        *)
(* consumer, the replicas of PullRunner that share it                      *)
(* (modules/projection/nats.go, retry.go), and the handler they run,       *)
(* SummaryProjector.Handle (summary_projector.go): archive the raw event,  *)
(* claim the inbox, write the association, commit the projection           *)
(* transaction (store.go), then settle the delivery with an ack, a nak or  *)
(* a dead letter.                                                          *)
(*                                                                         *)
(* A message is one entry of the stream.  Two messages may carry the same  *)
(* eventId (a producer that publishes again after the stream's             *)
(* deduplication window), with the same payload hash or with another one.  *)
(***************************************************************************)
EXTENDS ProjectionStore, Sequences, FiniteSets

CONSTANTS
  Messages,          \* entries of the stream that the consumer's filter selects
  EventIds,
  Aggregates,
  Hashes,            \* payload hashes
  Env,               \* the envelope of each message
  Workers,           \* runner instances on the durable consumer
  BatchSize,         \* PullRunnerConfig.BatchSize
  MaxDeliver,        \* PullRunnerConfig.MaxDeliver
  ServerMaxDeliver,  \* MaxDeliver of the durable consumer (tools/nats-init)
  MaxFaults          \* bound: crashes, lost calls and Mongo errors of one behaviour

\* How far a message gets: "contract" fails validation before anything is
\* written, "mapping" fails RuntimeMapping.Map after the archive write,
\* "association" has no usable approval summary, found after the inbox claim, and
\* "conflict" is refused by the association writer.
Verdicts == {"valid", "contract", "mapping", "association", "conflict"}

EnvelopeType ==
  [id : EventIds, aggregate : Aggregates, version : Nat \ {0},
   hash : Hashes, verdict : Verdicts, approval : BOOLEAN]

ASSUME EnvAssumption ==
  /\ Env \in [Messages -> EnvelopeType]
  /\ \A m \in Messages : Env[m].verdict \in {"association", "conflict"} => Env[m].approval
  \* PayloadHash digests the raw envelope.
  /\ \A m, n \in Messages :
       Env[m].id = Env[n].id /\ Env[m].hash = Env[n].hash => Env[m] = Env[n]
ASSUME BoundsAssumption == /\ BatchSize \in Nat \ {0}
                           /\ MaxDeliver \in Nat \ {0}
                           /\ ServerMaxDeliver \in Nat \ {0}
                           /\ MaxFaults \in Nat

VARIABLES
  \* JetStream
  srv,        \* srv[m]: the consumer's view of m
  delivered,  \* delivered[m]: NumDelivered of its last delivery
  dlq,        \* messages for which a dead letter is in the DLQ stream
  \* runners
  batch,      \* batch[w]: fetched deliveries <<message, attempt>> not yet handled
  pc,         \* pc[w]: where the runner is
  cur,        \* cur[w]: the message being handled (a set of at most one)
  att,        \* att[w]: NumDelivered of the delivery being handled
  gapSeen,    \* gapSeen[w]: gapDetected, captured by the transaction callback
  changeSeen, \* changeSeen[w]: feedChange # nil, captured likewise
  \* MongoDB
  archive,    \* archive[e]: hashes archived for event id e
  inbox,      \* inbox[e]: the inbox document of event id e
  checkpoint, \* checkpoint[a]
  record,     \* record[a]: message whose content the record of a holds ({} or one)
  audit,      \* audit[a]: the audit entries "projection.apply" of a, in order
  assoc,      \* event ids the association writer has accepted
  \* in-process feed
  feed,       \* record changes published: <<aggregate, version>>
  faults      \* faults so far

jsVars     == <<srv, delivered, dlq>>
runnerVars == <<batch, pc, cur, att, gapSeen, changeSeen>>
mongoVars  == <<archive, inbox, checkpoint, record, audit, assoc>>
vars == <<srv, delivered, dlq, batch, pc, cur, att, gapSeen, changeSeen,
          archive, inbox, checkpoint, record, audit, assoc, feed, faults>>

\* "new": not published or not delivered yet; "pending": delivered, AckWait running;
\* "ready": to be delivered again; "exhausted": given up by the server.
SrvStates == {"new", "pending", "ready", "acked", "termed", "exhausted"}

InboxStatus == {"NONE", "PROCESSING", "APPLIED"}

\* The handler's steps, then what the runner does with its result.
HandlerSteps == {"archive", "claim", "associate", "apply", "publish"}
ResultSteps  == {"ok", "transient", "deterministic"}
Steps == {"fetch", "term"} \cup HandlerSteps \cup ResultSteps

NoInbox == [status |-> "NONE", hashes |-> {}]

Deliveries == Messages \X (1 .. ServerMaxDeliver)

JetStreamTypes ==
  /\ srv \in [Messages -> SrvStates]
  /\ delivered \in [Messages -> 0 .. ServerMaxDeliver]
  /\ dlq \in SUBSET Messages

RunnerTypes ==
  /\ batch \in [Workers -> SUBSET Deliveries]
  /\ pc \in [Workers -> Steps]
  /\ cur \in [Workers -> SUBSET Messages]
  /\ att \in [Workers -> 0 .. ServerMaxDeliver]
  /\ gapSeen \in [Workers -> BOOLEAN]
  /\ changeSeen \in [Workers -> BOOLEAN]

MongoTypes ==
  /\ archive \in [EventIds -> SUBSET Hashes]
  /\ inbox \in [EventIds -> [status : InboxStatus, hashes : SUBSET Hashes]]
  /\ checkpoint \in [Aggregates -> [version : Nat, status : CheckpointStatus]]
  /\ record \in [Aggregates -> SUBSET Messages]
  /\ audit \in [Aggregates -> Seq(Messages)]
  /\ assoc \in SUBSET EventIds

\* Every variable has the shape of the collection or of the local it stands for.
TypeOK ==
  /\ JetStreamTypes
  /\ RunnerTypes
  /\ MongoTypes
  /\ feed \in SUBSET (Aggregates \X Nat)
  /\ faults \in 0 .. MaxFaults

Init ==
  /\ srv = [m \in Messages |-> "new"]
  /\ delivered = [m \in Messages |-> 0]
  /\ dlq = {}
  /\ batch = [w \in Workers |-> {}]
  /\ pc = [w \in Workers |-> "fetch"]
  /\ cur = [w \in Workers |-> {}]
  /\ att = [w \in Workers |-> 0]
  /\ gapSeen = [w \in Workers |-> FALSE]
  /\ changeSeen = [w \in Workers |-> FALSE]
  /\ archive = [e \in EventIds |-> {}]
  /\ inbox = [e \in EventIds |-> NoInbox]
  /\ checkpoint = [a \in Aggregates |-> NoCheckpoint]
  /\ record = [a \in Aggregates |-> {}]
  /\ audit = [a \in Aggregates |-> << >>]
  /\ assoc = {}
  /\ feed = {}
  /\ faults = 0

-----------------------------------------------------------------------------
(* JetStream, as the runner uses it. *)

Settled(m) == srv[m] \in {"acked", "termed", "exhausted"}

\* Acks, naks and terms name the stream sequence: the server honours one for any
\* delivery of a message that it still tracks, and ignores it afterwards.
Tracked(m) == srv[m] \in {"pending", "ready"}

\* A runner still works on the latest delivery of m, or has it in its batch.
Held(m) == \E w \in Workers : \/ <<m, delivered[m]>> \in batch[w]
                              \/ m \in cur[w] /\ att[w] = delivered[m]

SettleAs(m, state) == IF Tracked(m) THEN [srv EXCEPT ![m] = state] ELSE srv

Fault == faults < MaxFaults /\ faults' = faults + 1

\* Fetch: the server hands a message that is due to a runner's open batch.
Deliver(w, m) ==
  /\ pc[w] = "fetch"
  /\ Cardinality(batch[w]) < BatchSize
  /\ srv[m] \in {"new", "ready"}
  /\ delivered[m] < ServerMaxDeliver
  /\ srv' = [srv EXCEPT ![m] = "pending"]
  /\ delivered' = [delivered EXCEPT ![m] = @ + 1]
  /\ batch' = [batch EXCEPT ![w] = @ \cup {<<m, delivered[m] + 1>>}]
  /\ UNCHANGED <<dlq, pc, cur, att, gapSeen, changeSeen, mongoVars, feed, faults>>

\* AckWait passes without an answer.  That is a fault only while a runner is
\* still at work on the delivery (it is slow, or its batch is).
AckWaitExpires(m) ==
  /\ srv[m] = "pending"
  /\ srv' = [srv EXCEPT ![m] = "ready"]
  /\ IF Held(m) THEN Fault ELSE UNCHANGED faults
  /\ UNCHANGED <<delivered, dlq, runnerVars, mongoVars, feed>>

\* Due again, but delivered ServerMaxDeliver times: the server gives up.
Exhaust(m) ==
  /\ srv[m] = "ready"
  /\ delivered[m] = ServerMaxDeliver
  /\ srv' = [srv EXCEPT ![m] = "exhausted"]
  /\ UNCHANGED <<delivered, dlq, runnerVars, mongoVars, feed, faults>>

-----------------------------------------------------------------------------
(* PullRunner.Run and SummaryProjector.Handle. *)

Goto(w, step) == pc' = [pc EXCEPT ![w] = step]

\* Run takes the next message of the batch and calls the handler.
Take(w, m) ==
  /\ pc[w] = "fetch"
  /\ \E n \in 1 .. ServerMaxDeliver :
       /\ <<m, n>> \in batch[w]
       /\ batch' = [batch EXCEPT ![w] = @ \ {<<m, n>>}]
       /\ att' = [att EXCEPT ![w] = n]
  /\ cur' = [cur EXCEPT ![w] = {m}]
  /\ Goto(w, "archive")
  /\ UNCHANGED <<jsVars, gapSeen, changeSeen, mongoVars, feed, faults>>

\* The handler is at its step s, on message m.
At(w, m, s) == pc[w] = s /\ cur[w] = {m}

\* Envelope and contract checks, then the append-only archive write: an entry
\* of the same event id is accepted only with the same payload.
Archive(w, m) ==
  LET env == Env[m] IN
  /\ At(w, m, "archive")
  /\ IF env.verdict = "contract"
     THEN Goto(w, "deterministic") /\ UNCHANGED archive
     ELSE IF archive[env.id] \subseteq {env.hash}
     THEN /\ archive' = [archive EXCEPT ![env.id] = {env.hash}]
          /\ Goto(w, IF env.verdict = "mapping" THEN "deterministic" ELSE "claim")
     ELSE Goto(w, "transient") /\ UNCHANGED archive
  /\ UNCHANGED <<jsVars, batch, cur, att, gapSeen, changeSeen, inbox, checkpoint,
                 record, audit, assoc, feed, faults>>

\* Mutant: the claim replaces the document instead of inserting it.
ClaimReplaces(w, m) ==
  LET env == Env[m] IN
  /\ At(w, m, "claim")
  /\ inbox' = [inbox EXCEPT ![env.id] = [status |-> "PROCESSING", hashes |-> {env.hash}]]
  /\ Goto(w, IF env.approval THEN "associate" ELSE "apply")
  /\ UNCHANGED <<jsVars, batch, cur, att, gapSeen, changeSeen, archive, checkpoint,
                 record, audit, assoc, feed, faults>>

\* Mutant: PROCESSING is a lock, and a duplicate waits for its owner.
ClaimWaitsForOwner(w, m) ==
  LET env == Env[m] IN
  /\ At(w, m, "claim")
  /\ inbox[env.id].status # "PROCESSING"
  /\ inbox' = IF inbox[env.id].status = "NONE"
              THEN [inbox EXCEPT ![env.id] = [status |-> "PROCESSING", hashes |-> {env.hash}]]
              ELSE inbox
  /\ Goto(w, IF inbox[env.id].status = "APPLIED" THEN "ok"
             ELSE IF env.approval THEN "associate" ELSE "apply")
  /\ UNCHANGED <<jsVars, batch, cur, att, gapSeen, changeSeen, archive, checkpoint,
                 record, audit, assoc, feed, faults>>

\* Insert the inbox document, or read the one that a previous delivery left.
Claim(w, m) ==
  LET env == Env[m]
      doc == inbox[env.id]
      next == IF env.approval THEN "associate" ELSE "apply"
  IN
  /\ At(w, m, "claim")
  /\ \/ /\ doc.status = "NONE"
        /\ inbox' = [inbox EXCEPT ![env.id] =
                       [status |-> "PROCESSING", hashes |-> {env.hash}]]
        /\ Goto(w, next)
     \/ /\ doc.status # "NONE"
        /\ Goto(w, IF doc.hashes # {env.hash} THEN "transient"
                   ELSE IF doc.status = "APPLIED" THEN "ok" ELSE next)
        /\ UNCHANGED inbox
  /\ UNCHANGED <<jsVars, batch, cur, att, gapSeen, changeSeen, archive, checkpoint,
                 record, audit, assoc, feed, faults>>

\* The association write has no part in the projection transaction.
Associate(w, m) ==
  LET env == Env[m] IN
  /\ At(w, m, "associate")
  /\ \/ /\ env.verdict = "association"
        /\ Goto(w, "deterministic")
        /\ UNCHANGED assoc
     \/ /\ env.verdict = "conflict"
        /\ Goto(w, "transient")
        /\ UNCHANGED assoc
     \/ /\ env.verdict \notin {"association", "conflict"}
        /\ assoc' = assoc \cup {env.id}
        /\ Goto(w, "apply")
  /\ UNCHANGED <<jsVars, batch, cur, att, gapSeen, changeSeen, archive, inbox,
                 checkpoint, record, audit, feed, faults>>

\* What the callback of Apply's transaction finds.
TxnDecision(m) ==
  LET env == Env[m] IN
    IF inbox[env.id].hashes # {env.hash} THEN "conflict"
    ELSE IF inbox[env.id].status = "APPLIED" THEN "already"
    ELSE classifyCheckpoint(checkpoint[env.aggregate], env.version)

MarkApplied(e) == inbox' = [inbox EXCEPT ![e].status = "APPLIED"]

\* Mutant: a stale event still replaces the record.
TxnStaleOverwrites(w, m) ==
  /\ TxnDecision(m) = "stale"
  /\ MarkApplied(Env[m].id)
  /\ record' = [record EXCEPT ![Env[m].aggregate] = {m}]
  /\ Goto(w, "publish")
  /\ UNCHANGED <<gapSeen, changeSeen, checkpoint, audit>>

TxnStale(w, m) ==
  /\ TxnDecision(m) = "stale"
  /\ MarkApplied(Env[m].id)
  /\ Goto(w, "publish")
  /\ UNCHANGED <<gapSeen, changeSeen, checkpoint, record, audit>>

\* Mutant: the feed change is captured before the version is classified.
TxnGapCapturesChange(w, m) ==
  /\ TxnDecision(m) = "gap"
  /\ checkpoint' = [checkpoint EXCEPT ![Env[m].aggregate] = GapCheckpoint(@)]
  /\ gapSeen' = [gapSeen EXCEPT ![w] = TRUE]
  /\ changeSeen' = [changeSeen EXCEPT ![w] = TRUE]
  /\ Goto(w, "publish")
  /\ UNCHANGED <<inbox, record, audit>>

TxnGap(w, m) ==
  /\ TxnDecision(m) = "gap"
  /\ checkpoint' = [checkpoint EXCEPT ![Env[m].aggregate] = GapCheckpoint(@)]
  /\ gapSeen' = [gapSeen EXCEPT ![w] = TRUE]
  /\ Goto(w, "publish")
  /\ UNCHANGED <<changeSeen, inbox, record, audit>>

TxnApply(w, m) ==
  LET a == Env[m].aggregate IN
  /\ TxnDecision(m) = "apply"
  /\ MarkApplied(Env[m].id)
  /\ record' = [record EXCEPT ![a] = {m}]
  /\ checkpoint' = [checkpoint EXCEPT ![a] = AdvancedCheckpoint(Env[m].version)]
  /\ audit' = [audit EXCEPT ![a] = Append(@, m)]
  /\ changeSeen' = [changeSeen EXCEPT ![w] = TRUE]
  /\ Goto(w, "publish")
  /\ UNCHANGED gapSeen

\* The callback returns an error: nothing is written.  ErrProjectionAlreadyApplied
\* becomes success, and the change captured by an earlier attempt is not published.
TxnRefused(w, m) ==
  /\ TxnDecision(m) \in {"conflict", "already"}
  /\ Goto(w, IF TxnDecision(m) = "already" THEN "ok" ELSE "transient")
  /\ gapSeen' = [gapSeen EXCEPT ![w] = FALSE]
  /\ changeSeen' = [changeSeen EXCEPT ![w] = FALSE]
  /\ UNCHANGED <<inbox, checkpoint, record, audit>>

\* One committed transaction of MongoProjectionRepository.Apply.
Apply(w, m) ==
  /\ At(w, m, "apply")
  /\ \/ TxnStale(w, m)
     \/ TxnGap(w, m)
     \/ TxnApply(w, m)
     \/ TxnRefused(w, m)
  /\ UNCHANGED <<jsVars, batch, cur, att, archive, assoc, feed, faults>>

\* Mutant: the audit insert runs outside the transaction and survives its abort.
TxnRetriedKeepsAudit(w, m) ==
  /\ At(w, m, "apply")
  /\ TxnDecision(m) = "apply"
  /\ changeSeen' = [changeSeen EXCEPT ![w] = TRUE]
  /\ audit' = [audit EXCEPT ![Env[m].aggregate] = Append(@, m)]
  /\ Fault
  /\ UNCHANGED <<jsVars, batch, pc, cur, att, gapSeen, archive, inbox, checkpoint, record,
                 assoc, feed>>

\* The transaction aborts with a transient label (write conflict, step-down) and
\* the driver runs the callback again.  The captured variables keep their values.
TxnRetried(w, m) ==
  LET decision == TxnDecision(m) IN
  /\ At(w, m, "apply")
  /\ \/ /\ decision = "gap"
        /\ gapSeen' = [gapSeen EXCEPT ![w] = TRUE]
        /\ UNCHANGED changeSeen
     \/ /\ decision = "apply"
        /\ changeSeen' = [changeSeen EXCEPT ![w] = TRUE]
        /\ UNCHANGED gapSeen
  /\ Fault
  /\ UNCHANGED <<jsVars, batch, pc, cur, att, mongoVars, feed>>

\* After the commit: the feed, best effort, then Handle's result.
Publish(w, m) ==
  LET env == Env[m] IN
  /\ At(w, m, "publish")
  /\ feed' = IF changeSeen[w] THEN feed \cup {<<env.aggregate, env.version>>} ELSE feed
  /\ Goto(w, IF gapSeen[w] THEN "transient" ELSE "ok")
  /\ gapSeen' = [gapSeen EXCEPT ![w] = FALSE]
  /\ changeSeen' = [changeSeen EXCEPT ![w] = FALSE]
  /\ UNCHANGED <<jsVars, batch, cur, att, mongoVars, faults>>

\* Mongo answers a step with an error.  At "publish" the commit happened and its
\* outcome is unknown to the driver, so Apply returns before the feed.
StepFails(w) ==
  /\ pc[w] \in HandlerSteps
  /\ Goto(w, "transient")
  /\ gapSeen' = [gapSeen EXCEPT ![w] = FALSE]
  /\ changeSeen' = [changeSeen EXCEPT ![w] = FALSE]
  /\ Fault
  /\ UNCHANGED <<jsVars, batch, cur, att, mongoVars, feed>>

-----------------------------------------------------------------------------
(* Settling a delivery: DoubleAck, or retryMessage. *)

\* The runner goes on with its batch.
Resume(w) ==
  /\ Goto(w, "fetch")
  /\ cur' = [cur EXCEPT ![w] = {}]
  /\ att' = [att EXCEPT ![w] = 0]
  /\ UNCHANGED <<gapSeen, changeSeen>>

NextMessage(w) == Resume(w) /\ UNCHANGED batch

\* consumer = nil: the rest of the batch is dropped unhandled.
Reconnect(w) == Resume(w) /\ batch' = [batch EXCEPT ![w] = {}]

Ack(w, m) ==
  /\ At(w, m, "ok")
  /\ srv' = SettleAs(m, "acked")
  /\ NextMessage(w)
  /\ UNCHANGED <<delivered, dlq, mongoVars, feed, faults>>

\* DoubleAck fails: the ack was lost, or only the server's answer to it.
AckLost(w, m) ==
  /\ At(w, m, "ok")
  /\ srv' \in {srv, SettleAs(m, "acked")}
  /\ Reconnect(w)
  /\ Fault
  /\ UNCHANGED <<delivered, dlq, mongoVars, feed>>

\* retryMessage: a deterministic failure, or the last attempt.
DeadLetterDue(w, m) ==
  \/ At(w, m, "deterministic")
  \/ At(w, m, "transient") /\ att[w] >= MaxDeliver

DeadLetter(w, m) ==
  /\ DeadLetterDue(w, m)
  /\ dlq' = dlq \cup {m}
  /\ Goto(w, "term")
  /\ UNCHANGED <<srv, delivered, batch, cur, att, gapSeen, changeSeen, mongoVars, feed, faults>>

\* The publish fails, or its answer is lost.  The message is not terminated.
DeadLetterFails(w, m) ==
  /\ DeadLetterDue(w, m)
  /\ dlq' \in {dlq, dlq \cup {m}}
  /\ Reconnect(w)
  /\ Fault
  /\ UNCHANGED <<srv, delivered, mongoVars, feed>>

Term(w, m) ==
  /\ At(w, m, "term")
  /\ srv' = SettleAs(m, "termed")
  /\ NextMessage(w)
  /\ UNCHANGED <<delivered, dlq, mongoVars, feed, faults>>

NakDue(w, m) == At(w, m, "transient") /\ ~DeadLetterDue(w, m)

Nak(w, m) ==
  /\ NakDue(w, m)
  /\ srv' = SettleAs(m, "ready")
  /\ NextMessage(w)
  /\ UNCHANGED <<delivered, dlq, mongoVars, feed, faults>>

\* A term or a nak is one message without an answer: it may fail to be sent
\* (the runner reconnects) or get lost unnoticed.
SettleLost(w, m) ==
  /\ At(w, m, "term") \/ NakDue(w, m)
  /\ NextMessage(w) \/ Reconnect(w)
  /\ Fault
  /\ UNCHANGED <<jsVars, mongoVars, feed>>

\* The process stops (a crash, or the drain timeout of a shutdown) and another
\* takes its place; its fetched deliveries are answered by nobody.
Crash(w) ==
  /\ pc[w] # "fetch" \/ batch[w] # {}
  /\ Goto(w, "fetch")
  /\ cur' = [cur EXCEPT ![w] = {}]
  /\ att' = [att EXCEPT ![w] = 0]
  /\ batch' = [batch EXCEPT ![w] = {}]
  /\ gapSeen' = [gapSeen EXCEPT ![w] = FALSE]
  /\ changeSeen' = [changeSeen EXCEPT ![w] = FALSE]
  /\ Fault
  /\ UNCHANGED <<jsVars, mongoVars, feed>>

-----------------------------------------------------------------------------
\* What a running worker does on message m when nothing goes wrong.
Work(w, m) ==
  \/ Take(w, m)    \/ Archive(w, m) \/ Claim(w, m) \/ Associate(w, m)
  \/ Apply(w, m)   \/ Publish(w, m) \/ Ack(w, m)
  \/ DeadLetter(w, m) \/ Term(w, m) \/ Nak(w, m)

Trouble(w, m) ==
  \/ TxnRetried(w, m) \/ AckLost(w, m) \/ DeadLetterFails(w, m) \/ SettleLost(w, m)

Server(m) == AckWaitExpires(m) \/ Exhaust(m)

Next ==
  \/ \E w \in Workers, m \in Messages : Deliver(w, m)
  \/ \E m \in Messages : Server(m)
  \/ \E w \in Workers, m \in Messages : Work(w, m) \/ Trouble(w, m)
  \/ \E w \in Workers : StepFails(w) \/ Crash(w)

Spec == Init /\ [][Next]_vars

Redeliver(m) == srv[m] = "ready" /\ \E w \in Workers : Deliver(w, m)

\* Run loops until it is cancelled and every call in it has a timeout, so a
\* worker always goes on; the server delivers again and its timers fire.
\* Owners need not publish, and faults are never required to happen.
Fairness ==
  /\ \A w \in Workers : WF_vars(\E m \in Messages : Work(w, m))
  /\ \A m \in Messages : WF_vars(Redeliver(m))
  /\ \A m \in Messages : WF_vars(Server(m))

FairSpec == Spec /\ Fairness

-----------------------------------------------------------------------------
(* Properties. *)

AppliedEvent(m) ==
  inbox[Env[m].id].status = "APPLIED" /\ inbox[Env[m].id].hashes = {Env[m].hash}

\* A message is acknowledged to the server only when the inbox says that exactly
\* this payload has been applied: an ack (Run, after Handle returns nil) never
\* precedes the commit, and never swallows a second payload under a known event id.
AckedOnlyWhenApplied == \A m \in Messages : srv[m] = "acked" => AppliedEvent(m)

\* A message is terminated only after its dead letter is stored (retryMessage
\* publishes first): termination alone never loses an event.
TermedOnlyWhenDeadLettered == \A m \in Messages : srv[m] = "termed" => m \in dlq

\* However deliveries are duplicated, reordered or retried, each aggregate has
\* exactly one audit entry per version 1..n in this order, n is its checkpoint and
\* the record holds the last of them (one transaction of Apply writes all three).
ExactlyOnceInOrder ==
  \A a \in Aggregates :
    /\ Len(audit[a]) = checkpoint[a].version
    /\ \A i \in 1 .. Len(audit[a]) : /\ Env[audit[a][i]].version = i
                                     /\ Env[audit[a][i]].aggregate = a
    /\ record[a] = IF audit[a] = << >> THEN {} ELSE {audit[a][Len(audit[a])]}

\* An event the inbox calls APPLIED is covered by its aggregate's checkpoint, so
\* the inbox short cut of Handle (duplicate and APPLIED) skips nothing.
AppliedIsCovered ==
  \A m \in Messages : AppliedEvent(m) =>
    Env[m].version <= checkpoint[Env[m].aggregate].version

\* Nothing that fails the contract or the mapping, and no second payload under an
\* event id that is in use, ever reaches the read model.
OnlyArchivedPayloadsProjected ==
  \A a \in Aggregates : \A i \in 1 .. Len(audit[a]) :
    /\ Env[audit[a][i]].verdict = "valid"
    /\ archive[Env[audit[a][i]].id] = {Env[audit[a][i]].hash}

\* An approval has been accepted by the association writer before its projection
\* commits, whatever is interrupted between the two.  (Accepted means that Apply
\* has returned: whether it wrote or only noted a gap is in Association.)
AssociationNotBehind ==
  \A a \in Aggregates : \A i \in 1 .. Len(audit[a]) :
    Env[audit[a][i]].approval => Env[audit[a][i]].id \in assoc

\* A checkpoint marked GAP has its reason in the inbox: an event still
\* PROCESSING whose version is beyond the next one.
GapHasWitness ==
  \A a \in Aggregates : checkpoint[a].status = "GAP" =>
    \E m \in Messages : /\ Env[m].aggregate = a
                        /\ Env[m].version > checkpoint[a].version + 1
                        /\ inbox[Env[m].id] = [status |-> "PROCESSING",
                                               hashes |-> {Env[m].hash}]

\* The feed announces only committed versions, although feedChange survives
\* aborted attempts of the transaction callback.
FeedOnlyCommitted ==
  \A c \in feed : c[2] <= checkpoint[c[1]].version

CheckpointStep(a) ==
  \/ checkpoint'[a].version = checkpoint[a].version /\ record'[a] = record[a]
  \/ checkpoint'[a].version = checkpoint[a].version + 1 /\ record'[a] # record[a]

\* No step takes a checkpoint back or skips a version, and a record changes only
\* together with its checkpoint.
CheckpointsAdvanceByOne == [][\A a \in Aggregates : CheckpointStep(a)]_vars

\* Whatever has been delivered is settled in the end (acked, terminated or given up)
\* and stays so, also when a version before it is never published.
EventuallySettled == <>[](\A m \in Messages : srv[m] # "new" => Settled(m))

\* A runner has some delivery of m, the latest or an earlier one.
InHand(m) == \E w \in Workers : m \in cur[w] \/ \E n \in 1 .. ServerMaxDeliver : <<m, n>> \in batch[w]

\* What the server has given up on and no runner is still at work on has been applied
\* or has a dead letter.  docs/event-contract.md 4 and mvp-design.md 9.1 promise the
\* dead letter.
NoSilentLoss ==
  \A m \in Messages : srv[m] = "exhausted" /\ ~InHand(m) => AppliedEvent(m) \/ m \in dlq

Knows(w) ==
  /\ \A m, n \in cur[w] : m = n
  /\ pc[w] \notin {"apply", "publish"} => ~gapSeen[w] /\ ~changeSeen[w]
  /\ \A m \in cur[w] :
       /\ pc[w] = "ok" \/ (pc[w] = "publish" /\ ~gapSeen[w]) => AppliedEvent(m)
       /\ pc[w] = "term" => m \in dlq
       /\ pc[w] \in {"claim", "associate", "apply"} =>
            /\ archive[Env[m].id] = {Env[m].hash}
            /\ Env[m].verdict \in {"valid", "association", "conflict"}
       /\ pc[w] = "apply" => /\ Env[m].verdict = "valid"
                             /\ Env[m].approval => Env[m].id \in assoc
       /\ changeSeen[w] =>
            Env[m].version <= checkpoint[Env[m].aggregate].version + 1
       /\ changeSeen[w] /\ pc[w] = "publish" =>
            Env[m].version <= checkpoint[Env[m].aggregate].version

\* What a runner may rely on at each step of the handler, whatever the other
\* runners have done since its last write: the facts that carry the invariants
\* above from one step to the next (part of the inductive invariant).
RunnersKnow == \A w \in Workers : Knows(w)

\* An inbox document holds a payload hash exactly when it exists.
InboxHasPayload == \A e \in EventIds : inbox[e].status = "NONE" <=> inbox[e].hashes = {}

Acceptable(m) == Env[m].verdict = "valid"
AggregateOf(m) == Env[m].aggregate
VersionOf(m) == Env[m].version
Ordered == INSTANCE OrderedProjection WITH log <- audit, shown <- record

\* The pipeline implements the ordered read model.
ImplementsOrderedProjection == Ordered!OSpec
=============================================================================
