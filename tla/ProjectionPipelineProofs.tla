---------------------- MODULE ProjectionPipelineProofs ----------------------
(***************************************************************************)
(* Proofs about ProjectionPipeline, for every value of its constants: its  *)
(* types first, then its safety invariants.  The latter are proved         *)
(* together: StoreInv speaks of the MongoDB documents alone, RunnersKnow   *)
(* of what each runner may rely on, and the rest of the server's view.     *)
(***************************************************************************)
EXTENDS ProjectionPipeline, TLAPS

-----------------------------------------------------------------------------
(* Types. *)

\* The parts of an envelope have their types.
LEMMA EnvelopeTypes ==
  ASSUME NEW m \in Messages
  PROVE  /\ Env[m].id \in EventIds
         /\ Env[m].aggregate \in Aggregates
         /\ Env[m].version \in Nat
         /\ Env[m].version > 0
         /\ Env[m].hash \in Hashes
         /\ Env[m].verdict \in Verdicts
  <1>1. Env[m] \in EnvelopeType
    BY EnvAssumption
  <1> QED
    BY <1>1 DEF EnvelopeType

\* Steps that leave a group of variables alone keep its types.
LEMMA UnchangedTypes ==
  /\ JetStreamTypes /\ UNCHANGED jsVars => JetStreamTypes'
  /\ RunnerTypes /\ UNCHANGED runnerVars => RunnerTypes'
  /\ MongoTypes /\ UNCHANGED mongoVars => MongoTypes'
  BY DEF JetStreamTypes, jsVars, RunnerTypes, runnerVars, MongoTypes, mongoVars

\* The server's steps keep the types.
LEMMA ServerTypes ==
  ASSUME TypeOK, NEW m \in Messages,
         Server(m) \/ \E w \in Workers : Deliver(w, m)
  PROVE  TypeOK'
  <1> USE BoundsAssumption DEF TypeOK
  <1>1. ASSUME NEW w \in Workers, Deliver(w, m) PROVE TypeOK'
    <2>1. MongoTypes' /\ feed' = feed /\ faults' = faults
      BY <1>1, UnchangedTypes DEF Deliver
    <2>2. JetStreamTypes'
      BY <1>1 DEF Deliver, JetStreamTypes, SrvStates
    <2>3. RunnerTypes'
      BY <1>1 DEF Deliver, RunnerTypes, JetStreamTypes, Deliveries
    <2> QED
      BY <2>1, <2>2, <2>3
  <1>2. CASE Server(m)
    <2>1. RunnerTypes' /\ MongoTypes' /\ feed' = feed
      BY <1>2, UnchangedTypes DEF Server, AckWaitExpires, Exhaust
    <2>2. JetStreamTypes'
      BY <1>2 DEF Server, AckWaitExpires, Exhaust, JetStreamTypes, SrvStates
    <2>3. faults' \in 0 .. MaxFaults
      BY <1>2 DEF Server, AckWaitExpires, Exhaust, Fault
    <2> QED
      BY <2>1, <2>2, <2>3
  <1> QED
    BY <1>1, <1>2

\* The handler's writes to MongoDB keep the types.
LEMMA WriteTypes ==
  ASSUME TypeOK, NEW w \in Workers, NEW m \in Messages,
         Archive(w, m) \/ Claim(w, m) \/ Associate(w, m) \/ Apply(w, m)
  PROVE  MongoTypes'
  <1> USE EnvelopeTypes DEF TypeOK, MongoTypes
  <1>1. CASE Archive(w, m)
    <2>1. archive' \in [EventIds -> SUBSET Hashes]
      BY <1>1 DEF Archive
    <2> QED
      BY <1>1, <2>1 DEF Archive
  <1>2. CASE Claim(w, m)
    <2>1. inbox' \in [EventIds -> [status : InboxStatus, hashes : SUBSET Hashes]]
      <3>1. CASE inbox' = inbox
        BY <3>1
      <3>2. CASE inbox' = [inbox EXCEPT ![Env[m].id] =
                             [status |-> "PROCESSING", hashes |-> {Env[m].hash}]]
        BY <3>2 DEF InboxStatus
      <3> QED
        BY <1>2, <3>1, <3>2 DEF Claim
    <2> QED
      BY <1>2, <2>1 DEF Claim
  <1>3. CASE Associate(w, m)
    <2>0. assoc' = assoc \/ assoc' = assoc \cup {Env[m].id}
      BY <1>3 DEF Associate
    <2>1. assoc' \in SUBSET EventIds
      BY <2>0
    <2> QED
      BY <1>3, <2>1 DEF Associate
  <1>4. CASE Apply(w, m)
    <2>0. UNCHANGED <<archive, assoc>>
      BY <1>4 DEF Apply
    <2>1. CASE TxnStale(w, m)
      BY <2>0, <2>1 DEF TxnStale, MarkApplied, InboxStatus
    <2>2. CASE TxnGap(w, m)
      BY <2>0, <2>2 DEF TxnGap, GapCheckpoint, CheckpointStatus
    <2>3. CASE TxnApply(w, m)
      <3>1. inbox' \in [EventIds -> [status : InboxStatus, hashes : SUBSET Hashes]]
        BY <2>3 DEF TxnApply, MarkApplied, InboxStatus
      <3>2. checkpoint' \in [Aggregates -> [version : Nat, status : CheckpointStatus]]
        BY <2>3 DEF TxnApply, AdvancedCheckpoint, CheckpointStatus
      <3>3. record' \in [Aggregates -> SUBSET Messages]
        BY <2>3 DEF TxnApply
      <3>4. audit' \in [Aggregates -> Seq(Messages)]
        BY <2>3 DEF TxnApply
      <3> QED
        BY <2>0, <3>1, <3>2, <3>3, <3>4
    <2>4. CASE TxnRefused(w, m)
      BY <2>0, <2>4 DEF TxnRefused
    <2> QED
      BY <1>4, <2>1, <2>2, <2>3, <2>4 DEF Apply
  <1> QED
    BY <1>1, <1>2, <1>3, <1>4

\* What a runner does keeps the types of its own variables.
LEMMA RunnerStepTypes ==
  ASSUME TypeOK, NEW w \in Workers, NEW m \in Messages,
         Work(w, m) \/ Trouble(w, m)
  PROVE  RunnerTypes'
  <1> USE DEF TypeOK, RunnerTypes, Goto, Steps, HandlerSteps, ResultSteps
  <1>1. CASE Take(w, m)
    BY <1>1 DEF Take
  <1>2. CASE Archive(w, m)
    BY <1>2 DEF Archive
  <1>3. CASE Claim(w, m)
    BY <1>3 DEF Claim
  <1>4. CASE Associate(w, m)
    BY <1>4 DEF Associate
  <1>5. CASE Apply(w, m)
    <2>0. UNCHANGED <<batch, cur, att>>
      BY <1>5 DEF Apply
    <2>1. CASE TxnStale(w, m)
      BY <2>0, <2>1 DEF TxnStale
    <2>2. CASE TxnGap(w, m)
      BY <2>0, <2>2 DEF TxnGap
    <2>3. CASE TxnApply(w, m)
      BY <2>0, <2>3 DEF TxnApply
    <2>4. CASE TxnRefused(w, m)
      BY <2>0, <2>4 DEF TxnRefused
    <2> QED
      BY <1>5, <2>1, <2>2, <2>3, <2>4 DEF Apply
  <1>6. CASE Publish(w, m)
    BY <1>6 DEF Publish
  <1>7. CASE Ack(w, m) \/ Term(w, m) \/ Nak(w, m)
    BY <1>7, BoundsAssumption DEF Ack, Term, Nak, NextMessage, Resume
  <1>8. CASE DeadLetter(w, m)
    BY <1>8 DEF DeadLetter
  <1>9. CASE TxnRetried(w, m)
    <2>1. UNCHANGED <<batch, pc, cur, att>>
      BY <1>9 DEF TxnRetried
    <2>2. gapSeen' \in [Workers -> BOOLEAN] /\ changeSeen' \in [Workers -> BOOLEAN]
      BY <1>9 DEF TxnRetried
    <2> QED
      BY <2>1, <2>2
  <1>10. CASE AckLost(w, m) \/ DeadLetterFails(w, m)
    BY <1>10, BoundsAssumption DEF AckLost, DeadLetterFails, Reconnect, Resume
  <1>11. CASE SettleLost(w, m)
    <2>1. Resume(w) /\ (batch' = batch \/ batch' = [batch EXCEPT ![w] = {}])
      BY <1>11 DEF SettleLost, NextMessage, Reconnect
    <2> QED
      BY <2>1, BoundsAssumption DEF Resume
  <1> QED
    BY <1>1, <1>2, <1>3, <1>4, <1>5, <1>6, <1>7, <1>8, <1>9, <1>10, <1>11
    DEF Work, Trouble

\* Every step keeps the types.
LEMMA NextTypes ==
  ASSUME TypeOK, Next
  PROVE  TypeOK'
  <1> USE BoundsAssumption
  <1>1. ASSUME NEW m \in Messages, Server(m) \/ \E w \in Workers : Deliver(w, m)
        PROVE  TypeOK'
    BY <1>1, ServerTypes
  <1>2. ASSUME NEW w \in Workers, NEW m \in Messages, Work(w, m) PROVE TypeOK'
    <2>1. RunnerTypes'
      BY <1>2, RunnerStepTypes
    <2>2. MongoTypes'
      <3>1. CASE Archive(w, m) \/ Claim(w, m) \/ Associate(w, m) \/ Apply(w, m)
        BY <3>1, WriteTypes
      <3>2. CASE UNCHANGED mongoVars
        BY <3>2, UnchangedTypes DEF TypeOK
      <3> QED
        BY <1>2, <3>1, <3>2 DEF Work, Take, Publish, Ack, DeadLetter, Term, Nak
    <2>3. JetStreamTypes'
      <3>1. CASE Ack(w, m) \/ Term(w, m) \/ Nak(w, m)
        BY <3>1 DEF Ack, Term, Nak, SettleAs, TypeOK, JetStreamTypes, SrvStates
      <3>2. CASE DeadLetter(w, m)
        BY <3>2 DEF DeadLetter, TypeOK, JetStreamTypes
      <3>3. CASE UNCHANGED jsVars
        BY <3>3, UnchangedTypes DEF TypeOK
      <3> QED
        BY <1>2, <3>1, <3>2, <3>3 DEF Work, Take, Archive, Claim, Associate, Apply, Publish
    <2>4. feed' \in SUBSET (Aggregates \X Nat)
      <3>1. CASE Publish(w, m)
        BY <3>1, EnvelopeTypes DEF Publish, TypeOK
      <3>2. CASE feed' = feed
        BY <3>2 DEF TypeOK
      <3> QED
        BY <1>2, <3>1, <3>2 DEF Work, Take, Archive, Claim, Associate, Apply, Ack,
           DeadLetter, Term, Nak
    <2>5. faults' = faults
      BY <1>2 DEF Work, Take, Archive, Claim, Associate, Apply, Publish, Ack,
         DeadLetter, Term, Nak
    <2> QED
      BY <2>1, <2>2, <2>3, <2>4, <2>5 DEF TypeOK
  <1>3. ASSUME NEW w \in Workers, NEW m \in Messages, Trouble(w, m) PROVE TypeOK'
    <2>1. RunnerTypes'
      BY <1>3, RunnerStepTypes
    <2>2. MongoTypes' /\ feed' = feed
      BY <1>3, UnchangedTypes
      DEF TypeOK, Trouble, TxnRetried, AckLost, DeadLetterFails, SettleLost
    <2>3. JetStreamTypes'
      BY <1>3 DEF TypeOK, JetStreamTypes, jsVars, Trouble, TxnRetried, AckLost,
         DeadLetterFails, SettleLost, SettleAs, SrvStates
    <2>4. faults' \in 0 .. MaxFaults
      BY <1>3 DEF TypeOK, Fault, Trouble, TxnRetried, AckLost, DeadLetterFails, SettleLost
    <2> QED
      BY <2>1, <2>2, <2>3, <2>4 DEF TypeOK
  <1>4. ASSUME NEW w \in Workers, StepFails(w) \/ Crash(w) PROVE TypeOK'
    <2>1. JetStreamTypes' /\ MongoTypes' /\ feed' = feed
      BY <1>4, UnchangedTypes DEF TypeOK, StepFails, Crash
    <2>2. faults' \in 0 .. MaxFaults
      BY <1>4 DEF TypeOK, Fault, StepFails, Crash
    <2>3. RunnerTypes'
      <3>1. CASE StepFails(w)
        BY <3>1 DEF TypeOK, RunnerTypes, StepFails, Goto, Steps, HandlerSteps, ResultSteps
      <3>2. CASE Crash(w)
        BY <3>2 DEF TypeOK, RunnerTypes, Crash, Goto, Steps
      <3> QED
        BY <1>4, <3>1, <3>2
    <2> QED
      BY <2>1, <2>2, <2>3 DEF TypeOK
  <1> QED
    BY <1>1, <1>2, <1>3, <1>4 DEF Next

\* TypeOK holds in every reachable state, whatever the constants.
THEOREM TypeCorrect == Spec => []TypeOK
  <1>1. Init => TypeOK
    BY BoundsAssumption DEF Init, TypeOK, JetStreamTypes, RunnerTypes, MongoTypes, SrvStates, Steps, NoInbox, InboxStatus,
       NoCheckpoint, CheckpointStatus
  <1>2. TypeOK /\ [Next]_vars => TypeOK'
    <2>1. TypeOK /\ UNCHANGED vars => TypeOK'
      BY UnchangedTypes DEF TypeOK, vars, jsVars, runnerVars, mongoVars
    <2> QED
      BY <2>1, NextTypes
  <1> QED
    BY <1>1, <1>2, PTL DEF Spec

-----------------------------------------------------------------------------
(* Safety. *)

StoreInv ==
  /\ InboxHasPayload
  /\ ExactlyOnceInOrder
  /\ AppliedIsCovered
  /\ OnlyArchivedPayloadsProjected
  /\ AssociationNotBehind
  /\ GapHasWitness

ServerInv ==
  /\ AckedOnlyWhenApplied
  /\ TermedOnlyWhenDeadLettered
  /\ FeedOnlyCommitted

IInv == TypeOK /\ RunnersKnow /\ StoreInv /\ ServerInv

\* What the three answers of classifyCheckpoint say about the versions.
LEMMA Classification ==
  ASSUME NEW current, NEW v \in Nat, current.version \in Nat
  PROVE  /\ classifyCheckpoint(current, v) = "stale" <=> v <= current.version
         /\ classifyCheckpoint(current, v) = "gap" <=> v > current.version + 1
         /\ classifyCheckpoint(current, v) = "apply" <=> v = current.version + 1
  BY DEF classifyCheckpoint

\* What a transaction that reaches its version check knows.
LEMMA Decision ==
  ASSUME TypeOK, NEW m \in Messages, TxnDecision(m) \in {"stale", "gap", "apply"}
  PROVE  /\ inbox[Env[m].id].hashes = {Env[m].hash}
         /\ inbox[Env[m].id].status # "APPLIED"
         /\ TxnDecision(m) = "stale" =>
              Env[m].version <= checkpoint[Env[m].aggregate].version
         /\ TxnDecision(m) = "gap" =>
              Env[m].version > checkpoint[Env[m].aggregate].version + 1
         /\ TxnDecision(m) = "apply" =>
              Env[m].version = checkpoint[Env[m].aggregate].version + 1
  <1>1. checkpoint[Env[m].aggregate].version \in Nat /\ Env[m].version \in Nat
    BY EnvelopeTypes DEF TypeOK, MongoTypes
  <1>2. /\ inbox[Env[m].id].hashes = {Env[m].hash}
        /\ inbox[Env[m].id].status # "APPLIED"
        /\ TxnDecision(m) = classifyCheckpoint(checkpoint[Env[m].aggregate], Env[m].version)
    BY DEF TxnDecision
  <1> QED
    BY <1>1, <1>2, Classification

\* An invariant of documents survives a step that leaves those documents alone.
LEMMA UnchangedStore ==
  ASSUME TypeOK
  PROVE
  /\ InboxHasPayload /\ UNCHANGED inbox => InboxHasPayload'
  /\ ExactlyOnceInOrder /\ UNCHANGED <<checkpoint, record, audit>> => ExactlyOnceInOrder'
  /\ AppliedIsCovered /\ UNCHANGED <<inbox, checkpoint>> => AppliedIsCovered'
  /\ OnlyArchivedPayloadsProjected /\ UNCHANGED <<archive, audit>> =>
       OnlyArchivedPayloadsProjected'
  /\ AssociationNotBehind /\ UNCHANGED <<assoc, audit>> => AssociationNotBehind'
  /\ GapHasWitness /\ UNCHANGED <<inbox, checkpoint>> => GapHasWitness'
  <1>1. InboxHasPayload /\ UNCHANGED inbox => InboxHasPayload'
    BY DEF InboxHasPayload
  <1>2. ExactlyOnceInOrder /\ UNCHANGED <<checkpoint, record, audit>> => ExactlyOnceInOrder'
    BY EnvelopeTypes DEF ExactlyOnceInOrder, TypeOK, MongoTypes
  <1>3. AppliedIsCovered /\ UNCHANGED <<inbox, checkpoint>> => AppliedIsCovered'
    BY DEF AppliedIsCovered, AppliedEvent
  <1>4. OnlyArchivedPayloadsProjected /\ UNCHANGED <<archive, audit>> =>
          OnlyArchivedPayloadsProjected'
    BY DEF OnlyArchivedPayloadsProjected
  <1>5. AssociationNotBehind /\ UNCHANGED <<assoc, audit>> => AssociationNotBehind'
    BY DEF AssociationNotBehind
  <1>6. GapHasWitness /\ UNCHANGED <<inbox, checkpoint>> => GapHasWitness'
    <2> SUFFICES ASSUME GapHasWitness, UNCHANGED <<inbox, checkpoint>>,
                        NEW a \in Aggregates, checkpoint'[a].status = "GAP"
                 PROVE  \E n \in Messages :
                          /\ Env[n].aggregate = a
                          /\ Env[n].version > checkpoint[a].version + 1
                          /\ inbox[Env[n].id] = [status |-> "PROCESSING",
                                                 hashes |-> {Env[n].hash}]
      BY DEF GapHasWitness
    <2> QED
      BY DEF GapHasWitness
  <1> QED
    BY <1>1, <1>2, <1>3, <1>4, <1>5, <1>6

\* Only four steps of the handler write to MongoDB.
LEMMA Writers ==
  ASSUME Next
  PROVE  \/ UNCHANGED mongoVars
         \/ \E w \in Workers, m \in Messages :
              Archive(w, m) \/ Claim(w, m) \/ Associate(w, m) \/ Apply(w, m)
  <1>1. ASSUME NEW w \in Workers, NEW m \in Messages, Deliver(w, m) PROVE UNCHANGED mongoVars
    BY <1>1 DEF Deliver
  <1>2. ASSUME NEW m \in Messages, Server(m) PROVE UNCHANGED mongoVars
    BY <1>2 DEF Server, AckWaitExpires, Exhaust
  <1>3. ASSUME NEW w \in Workers, NEW m \in Messages, Work(w, m)
        PROVE  \/ UNCHANGED mongoVars
               \/ Archive(w, m) \/ Claim(w, m) \/ Associate(w, m) \/ Apply(w, m)
    BY <1>3 DEF Work, Take, Publish, Ack, DeadLetter, Term, Nak
  <1>4. ASSUME NEW w \in Workers, NEW m \in Messages, Trouble(w, m) PROVE UNCHANGED mongoVars
    BY <1>4 DEF Trouble, TxnRetried, AckLost, DeadLetterFails, SettleLost
  <1>5. ASSUME NEW w \in Workers, StepFails(w) \/ Crash(w) PROVE UNCHANGED mongoVars
    BY <1>5 DEF StepFails, Crash
  <1> QED
    BY <1>1, <1>2, <1>3, <1>4, <1>5 DEF Next

\* What no step undoes.
Grown ==
  /\ \A m \in Messages : AppliedEvent(m) => AppliedEvent(m)'
  /\ \A m \in Messages : archive[Env[m].id] = {Env[m].hash} =>
                           archive'[Env[m].id] = {Env[m].hash}
  /\ assoc \subseteq assoc'
  /\ \A a \in Aggregates : checkpoint[a].version <= checkpoint'[a].version

\* No step takes back an applied mark, an archive entry, an association or a version.
LEMMA StoreGrows ==
  ASSUME TypeOK, Next
  PROVE  Grown
  <1> USE EnvelopeTypes DEF TypeOK, MongoTypes, Grown, AppliedEvent
  <1>1. CASE UNCHANGED mongoVars
    BY <1>1 DEF mongoVars
  <1>2. ASSUME NEW w \in Workers, NEW m \in Messages, Archive(w, m) PROVE Grown
    <2>1. UNCHANGED <<inbox, assoc, checkpoint>>
      BY <1>2 DEF Archive
    <2>2. ASSUME NEW n \in Messages, archive[Env[n].id] = {Env[n].hash}
          PROVE  archive'[Env[n].id] = {Env[n].hash}
      <3>1. CASE archive' = archive
        BY <2>2, <3>1
      <3>2. CASE /\ archive[Env[m].id] \subseteq {Env[m].hash}
                 /\ archive' = [archive EXCEPT ![Env[m].id] = {Env[m].hash}]
        BY <2>2, <3>2
      <3> QED
        BY <1>2, <3>1, <3>2 DEF Archive
    <2>3. \A a \in Aggregates : checkpoint[a].version <= checkpoint'[a].version
      BY <2>1
    <2>4. \A n \in Messages : AppliedEvent(n) => AppliedEvent(n)'
      BY <2>1
    <2> QED
      BY <2>1, <2>2, <2>3, <2>4
  <1>3. ASSUME NEW w \in Workers, NEW m \in Messages, Claim(w, m) PROVE Grown
    <2>1. UNCHANGED <<archive, assoc, checkpoint>>
      BY <1>3 DEF Claim
    <2>2. \A n \in Messages : inbox[Env[n].id].status # "NONE" =>
                                inbox'[Env[n].id] = inbox[Env[n].id]
      BY <1>3 DEF Claim
    <2> QED
      BY <2>1, <2>2
  <1>4. ASSUME NEW w \in Workers, NEW m \in Messages, Associate(w, m) PROVE Grown
    BY <1>4 DEF Associate
  <1>5. ASSUME NEW w \in Workers, NEW m \in Messages, Apply(w, m) PROVE Grown
    <2>0. UNCHANGED <<archive, assoc>>
      BY <1>5 DEF Apply
    <2>1. \A n \in Messages : AppliedEvent(n) => AppliedEvent(n)'
      <3>1. CASE inbox' = inbox
        BY <3>1
      <3>2. CASE MarkApplied(Env[m].id)
        BY <3>2 DEF MarkApplied
      <3> QED
        BY <1>5, <3>1, <3>2 DEF Apply, TxnStale, TxnGap, TxnApply, TxnRefused
    <2>2. \A a \in Aggregates : checkpoint[a].version <= checkpoint'[a].version
      <3>1. CASE checkpoint' = checkpoint
        BY <3>1
      <3>2. CASE TxnGap(w, m)
        BY <3>2 DEF TxnGap, GapCheckpoint
      <3>3. CASE TxnApply(w, m)
        <4>1. Env[m].version > checkpoint[Env[m].aggregate].version
          BY <3>3, Decision DEF TxnApply
        <4> QED
          BY <3>3, <4>1 DEF TxnApply, AdvancedCheckpoint
      <3> QED
        BY <1>5, <3>1, <3>2, <3>3 DEF Apply, TxnStale, TxnRefused
    <2> QED
      BY <2>0, <2>1, <2>2
  <1> QED
    BY <1>1, <1>2, <1>3, <1>4, <1>5, Writers

\* The documents stay consistent when a delivery is archived, claimed or associated.
LEMMA ClaimKeepsStore ==
  ASSUME TypeOK, StoreInv, Grown, NEW w \in Workers, NEW m \in Messages,
         Archive(w, m) \/ Claim(w, m) \/ Associate(w, m)
  PROVE  StoreInv'
  <1> USE EnvelopeTypes DEF TypeOK, MongoTypes
  <1>0. UNCHANGED <<checkpoint, record, audit>>
    BY DEF Archive, Claim, Associate
  <1>a. \A a \in Aggregates : \A i \in 1 .. Len(audit[a]) : audit[a][i] \in Messages
    OBVIOUS
  <1>1. ExactlyOnceInOrder'
    BY <1>0 DEF StoreInv, ExactlyOnceInOrder
  <1>2. OnlyArchivedPayloadsProjected'
    BY <1>0, <1>a DEF StoreInv, OnlyArchivedPayloadsProjected, Grown
  <1>3. AssociationNotBehind'
    BY <1>0, <1>a DEF StoreInv, AssociationNotBehind, Grown
  <1>4. CASE inbox' = inbox
    <2>1. InboxHasPayload' /\ AppliedIsCovered' /\ GapHasWitness'
      BY <1>0, <1>4 DEF StoreInv, InboxHasPayload, AppliedIsCovered, AppliedEvent, GapHasWitness
    <2> QED
      BY <1>1, <1>2, <1>3, <2>1 DEF StoreInv
  <1>5. CASE /\ inbox[Env[m].id].status = "NONE"
             /\ inbox' = [inbox EXCEPT ![Env[m].id] =
                            [status |-> "PROCESSING", hashes |-> {Env[m].hash}]]
    <2>1. InboxHasPayload'
      BY <1>5 DEF StoreInv, InboxHasPayload
    <2>2. AppliedIsCovered'
      BY <1>0, <1>5 DEF StoreInv, AppliedIsCovered, AppliedEvent
    <2>3. GapHasWitness'
      <3> SUFFICES ASSUME NEW a \in Aggregates, checkpoint[a].status = "GAP"
                   PROVE  \E n \in Messages :
                            /\ Env[n].aggregate = a
                            /\ Env[n].version > checkpoint[a].version + 1
                            /\ inbox'[Env[n].id] = [status |-> "PROCESSING",
                                                    hashes |-> {Env[n].hash}]
        BY <1>0 DEF GapHasWitness
      <3>1. PICK n \in Messages :
              /\ Env[n].aggregate = a
              /\ Env[n].version > checkpoint[a].version + 1
              /\ inbox[Env[n].id] = [status |-> "PROCESSING", hashes |-> {Env[n].hash}]
        BY DEF StoreInv, GapHasWitness
      <3>2. inbox'[Env[n].id] = inbox[Env[n].id]
        BY <1>5, <3>1
      <3> QED
        BY <3>1, <3>2
    <2> QED
      BY <1>1, <1>2, <1>3, <2>1, <2>2, <2>3 DEF StoreInv
  <1> QED
    BY <1>4, <1>5 DEF Archive, Claim, Associate

\* Two messages with the same event id and payload carry the same version.
LEMMA SameEvent ==
  ASSUME NEW m \in Messages, NEW n \in Messages,
         Env[m].id = Env[n].id, Env[m].hash = Env[n].hash
  PROVE  Env[m] = Env[n]
  BY EnvAssumption

\* Marking an event applied that the checkpoint covers keeps what is said of the inbox.
LEMMA MarkCovered ==
  ASSUME TypeOK, StoreInv, Grown, NEW m \in Messages,
         inbox[Env[m].id].hashes = {Env[m].hash},
         MarkApplied(Env[m].id),
         Env[m].version <= checkpoint'[Env[m].aggregate].version,
         checkpoint' \in [Aggregates -> [version : Nat, status : CheckpointStatus]]
  PROVE  InboxHasPayload' /\ AppliedIsCovered'
  <1> USE EnvelopeTypes DEF TypeOK, MongoTypes
  <1>0. /\ \A e \in EventIds : e # Env[m].id => inbox'[e] = inbox[e]
        /\ inbox'[Env[m].id].status = "APPLIED"
        /\ inbox'[Env[m].id].hashes = {Env[m].hash}
    BY DEF MarkApplied
  <1>1. InboxHasPayload'
    <2>1. ASSUME NEW e \in EventIds
          PROVE  inbox'[e].status = "NONE" <=> inbox'[e].hashes = {}
      <3>1. CASE e = Env[m].id
        BY <1>0, <3>1
      <3>2. CASE e # Env[m].id
        BY <1>0, <3>2 DEF StoreInv, InboxHasPayload
      <3> QED
        BY <3>1, <3>2
    <2> QED
      BY <2>1 DEF InboxHasPayload
  <1>2. ASSUME NEW n \in Messages, AppliedEvent(n)'
        PROVE  Env[n].version <= checkpoint'[Env[n].aggregate].version
    <2>1. CASE AppliedEvent(n)
      <3>1. Env[n].version <= checkpoint[Env[n].aggregate].version
        BY <2>1 DEF StoreInv, AppliedIsCovered
      <3>2. checkpoint[Env[n].aggregate].version <= checkpoint'[Env[n].aggregate].version
        BY DEF Grown
      <3> QED
        BY <3>1, <3>2
    <2>2. CASE ~AppliedEvent(n)
      <3>1. Env[n].id = Env[m].id
        BY <1>0, <1>2, <2>2 DEF AppliedEvent
      <3>2. Env[n].hash = Env[m].hash
        BY <1>0, <1>2, <3>1 DEF AppliedEvent
      <3>3. Env[n] = Env[m]
        BY <3>1, <3>2, SameEvent
      <3> QED
        BY <3>3
    <2> QED
      BY <2>1, <2>2
  <1> QED
    BY <1>1, <1>2 DEF AppliedIsCovered

\* The witness of another aggregate's gap, or of a gap beyond m, is not m.
LEMMA WitnessKept ==
  ASSUME TypeOK, NEW m \in Messages, NEW n \in Messages,
         inbox[Env[m].id].hashes = {Env[m].hash},
         MarkApplied(Env[m].id),
         inbox[Env[n].id] = [status |-> "PROCESSING", hashes |-> {Env[n].hash}],
         Env[n] # Env[m]
  PROVE  inbox'[Env[n].id] = inbox[Env[n].id]
  <1>1. Env[n].id # Env[m].id
    <2> SUFFICES ASSUME Env[n].id = Env[m].id PROVE FALSE
      OBVIOUS
    <2>1. Env[n].hash = Env[m].hash
      OBVIOUS
    <2> QED
      BY <2>1, SameEvent
  <1> QED
    BY <1>1, EnvelopeTypes DEF MarkApplied, TypeOK, MongoTypes

\* A transaction that finds a stale event only touches the inbox.
LEMMA StaleKeepsStore ==
  ASSUME TypeOK, StoreInv, Grown, NEW w \in Workers, NEW m \in Messages,
         TxnStale(w, m), UNCHANGED <<archive, assoc>>
  PROVE  StoreInv'
  <1> USE EnvelopeTypes DEF TypeOK, MongoTypes
  <1>0. UNCHANGED <<archive, assoc, checkpoint, record, audit>> /\ MarkApplied(Env[m].id)
    BY DEF TxnStale
  <1>1. /\ inbox[Env[m].id].hashes = {Env[m].hash}
        /\ Env[m].version <= checkpoint[Env[m].aggregate].version
    BY Decision DEF TxnStale
  <1>2. InboxHasPayload' /\ AppliedIsCovered'
    BY <1>0, <1>1, MarkCovered
  <1>3. ExactlyOnceInOrder' /\ OnlyArchivedPayloadsProjected' /\ AssociationNotBehind'
    BY <1>0, UnchangedStore DEF StoreInv
  <1>4. GapHasWitness'
    <2> SUFFICES ASSUME NEW a \in Aggregates, checkpoint[a].status = "GAP"
                 PROVE  \E n \in Messages :
                          /\ Env[n].aggregate = a
                          /\ Env[n].version > checkpoint[a].version + 1
                          /\ inbox'[Env[n].id] = [status |-> "PROCESSING",
                                                  hashes |-> {Env[n].hash}]
      BY <1>0 DEF GapHasWitness
    <2>1. PICK n \in Messages :
            /\ Env[n].aggregate = a
            /\ Env[n].version > checkpoint[a].version + 1
            /\ inbox[Env[n].id] = [status |-> "PROCESSING", hashes |-> {Env[n].hash}]
      BY DEF StoreInv, GapHasWitness
    <2>2. Env[n] # Env[m]
      <3>1. checkpoint[a].version \in Nat
        OBVIOUS
      <3> QED
        BY <1>1, <2>1, <3>1
    <2>3. inbox'[Env[n].id] = inbox[Env[n].id]
      BY <1>0, <1>1, <2>1, <2>2, WitnessKept
    <2> QED
      BY <2>1, <2>3
  <1> QED
    BY <1>2, <1>3, <1>4 DEF StoreInv

\* A transaction that finds a gap marks the checkpoint; its event is the witness.
LEMMA GapKeepsStore ==
  ASSUME TypeOK, StoreInv, NEW w \in Workers, NEW m \in Messages,
         TxnGap(w, m), UNCHANGED <<archive, assoc>>
  PROVE  StoreInv'
  <1> USE EnvelopeTypes DEF TypeOK, MongoTypes
  <1> DEFINE b == Env[m].aggregate
  <1>0. /\ UNCHANGED <<archive, assoc, inbox, record, audit>>
        /\ checkpoint' = [checkpoint EXCEPT ![b] = GapCheckpoint(@)]
    BY DEF TxnGap
  <1>1. \A a \in Aggregates : checkpoint'[a].version = checkpoint[a].version
    BY <1>0 DEF GapCheckpoint
  <1>2. /\ inbox[Env[m].id].hashes = {Env[m].hash}
        /\ inbox[Env[m].id].status # "APPLIED"
        /\ Env[m].version > checkpoint[b].version + 1
    BY Decision DEF TxnGap
  <1>3. InboxHasPayload' /\ AppliedIsCovered'
    BY <1>0, <1>1 DEF StoreInv, InboxHasPayload, AppliedIsCovered, AppliedEvent
  <1>4. ExactlyOnceInOrder' /\ OnlyArchivedPayloadsProjected' /\ AssociationNotBehind'
    <2>1. ExactlyOnceInOrder'
      BY <1>0, <1>1 DEF StoreInv, ExactlyOnceInOrder
    <2>2. OnlyArchivedPayloadsProjected' /\ AssociationNotBehind'
      BY <1>0, UnchangedStore DEF StoreInv
    <2> QED
      BY <2>1, <2>2
  <1>5. inbox[Env[m].id] = [status |-> "PROCESSING", hashes |-> {Env[m].hash}]
    <2>1. inbox[Env[m].id].status # "NONE"
      BY <1>2 DEF StoreInv, InboxHasPayload
    <2>2. inbox[Env[m].id] \in [status : InboxStatus, hashes : SUBSET Hashes]
      OBVIOUS
    <2> QED
      BY <1>2, <2>1, <2>2 DEF InboxStatus
  <1>6. GapHasWitness'
    <2> SUFFICES ASSUME NEW a \in Aggregates, checkpoint'[a].status = "GAP"
                 PROVE  \E n \in Messages :
                          /\ Env[n].aggregate = a
                          /\ Env[n].version > checkpoint[a].version + 1
                          /\ inbox[Env[n].id] = [status |-> "PROCESSING",
                                                 hashes |-> {Env[n].hash}]
      BY <1>0, <1>1 DEF GapHasWitness
    <2>1. CASE a = b
      BY <1>2, <1>5, <2>1
    <2>2. CASE a # b
      <3>1. checkpoint[a].status = "GAP"
        BY <1>0, <2>2
      <3> QED
        BY <3>1 DEF StoreInv, GapHasWitness
    <2> QED
      BY <2>1, <2>2
  <1> QED
    BY <1>3, <1>4, <1>6 DEF StoreInv

\* What Append adds to a sequence, and what it keeps.
LEMMA Appended ==
  ASSUME NEW S, NEW s \in Seq(S), NEW x \in S
  PROVE  /\ Len(Append(s, x)) = Len(s) + 1
         /\ Append(s, x)[Len(s) + 1] = x
         /\ \A i \in 1 .. Len(s) : Append(s, x)[i] = s[i]
         /\ Append(s, x) # << >>
         /\ Len(s) \in Nat
  <1>1. Len(s) \in Nat /\ Len(Append(s, x)) = Len(s) + 1
    OBVIOUS
  <1>2. Append(s, x)[Len(s) + 1] = x /\ \A i \in 1 .. Len(s) : Append(s, x)[i] = s[i]
    OBVIOUS
  <1> QED
    BY <1>1, <1>2

\* The transaction that applies the next version extends the audit trail by it.
LEMMA ApplyKeepsStore ==
  ASSUME TypeOK, TypeOK', StoreInv, Grown, NEW w \in Workers, NEW m \in Messages,
         TxnApply(w, m), UNCHANGED <<archive, assoc>>,
         archive[Env[m].id] = {Env[m].hash},
         Env[m].verdict = "valid",
         Env[m].approval => Env[m].id \in assoc
  PROVE  StoreInv'
  <1> USE EnvelopeTypes
  <1> DEFINE b == Env[m].aggregate
  <1>0. /\ b \in Aggregates
        /\ audit[b] \in Seq(Messages)
        /\ audit' = [audit EXCEPT ![b] = Append(@, m)]
        /\ record' = [record EXCEPT ![b] = {m}]
        /\ checkpoint' = [checkpoint EXCEPT ![b] =
                            [version |-> Env[m].version, status |-> "CURRENT"]]
        /\ MarkApplied(Env[m].id)
    BY DEF TxnApply, AdvancedCheckpoint, TypeOK, MongoTypes
  <1>1. /\ inbox[Env[m].id].hashes = {Env[m].hash}
        /\ Env[m].version = checkpoint[b].version + 1
    BY Decision DEF TxnApply
  <1>2. /\ Len(audit'[b]) = Len(audit[b]) + 1
        /\ audit'[b][Len(audit[b]) + 1] = m
        /\ \A i \in 1 .. Len(audit[b]) : audit'[b][i] = audit[b][i]
        /\ audit'[b] # << >>
        /\ Len(audit[b]) \in Nat
    <2>1. audit'[b] = Append(audit[b], m)
      BY <1>0 DEF TypeOK, MongoTypes
    <2> QED
      BY <1>0, <2>1, Appended
  <1>3. ASSUME NEW a \in Aggregates, a # b
        PROVE  audit'[a] = audit[a] /\ record'[a] = record[a] /\ checkpoint'[a] = checkpoint[a]
    BY <1>0, <1>3 DEF TypeOK, MongoTypes
  <1>4. record'[b] = {m} /\ checkpoint'[b].version = Env[m].version
        /\ checkpoint'[b].status = "CURRENT"
    BY <1>0 DEF TypeOK, MongoTypes
  <1>5. InboxHasPayload' /\ AppliedIsCovered'
    <2>1. Env[m].version <= checkpoint'[b].version
      BY <1>4
    <2>2. checkpoint' \in [Aggregates -> [version : Nat, status : CheckpointStatus]]
      BY DEF TypeOK, MongoTypes
    <2> QED
      BY <1>0, <1>1, <2>1, <2>2, MarkCovered
  <1>6. ExactlyOnceInOrder'
    <2> SUFFICES ASSUME NEW a \in Aggregates
                 PROVE  /\ Len(audit'[a]) = checkpoint'[a].version
                        /\ \A i \in 1 .. Len(audit'[a]) : /\ Env[audit'[a][i]].version = i
                                                          /\ Env[audit'[a][i]].aggregate = a
                        /\ record'[a] = IF audit'[a] = << >> THEN {}
                                        ELSE {audit'[a][Len(audit'[a])]}
      BY DEF ExactlyOnceInOrder
    <2>1. CASE a # b
      <3>1. /\ Len(audit[a]) = checkpoint[a].version
            /\ \A i \in 1 .. Len(audit[a]) : /\ Env[audit[a][i]].version = i
                                             /\ Env[audit[a][i]].aggregate = a
            /\ record[a] = IF audit[a] = << >> THEN {} ELSE {audit[a][Len(audit[a])]}
        BY DEF StoreInv, ExactlyOnceInOrder
      <3>2. audit'[a] = audit[a] /\ record'[a] = record[a] /\ checkpoint'[a] = checkpoint[a]
        BY <1>3, <2>1
      <3> QED
        BY <3>1, <3>2
    <2>2. CASE a = b
      <3>1. Len(audit[b]) = checkpoint[b].version
        BY <1>0 DEF StoreInv, ExactlyOnceInOrder
      <3>2. \A i \in 1 .. Len(audit[b]) : /\ Env[audit[b][i]].version = i
                                          /\ Env[audit[b][i]].aggregate = b
        BY <1>0 DEF StoreInv, ExactlyOnceInOrder
      <3>3. ASSUME NEW i \in 1 .. Len(audit'[b])
            PROVE  Env[audit'[b][i]].version = i /\ Env[audit'[b][i]].aggregate = b
        <4>1. CASE i \in 1 .. Len(audit[b])
          BY <1>2, <3>2, <4>1
        <4>2. CASE i = Len(audit[b]) + 1
          BY <1>1, <1>2, <3>1, <4>2
        <4> QED
          BY <1>2, <4>1, <4>2
      <3> QED
        BY <1>1, <1>2, <1>4, <2>2, <3>1, <3>3
    <2> QED
      BY <2>1, <2>2
  <1>7. ASSUME NEW a \in Aggregates, NEW i \in 1 .. Len(audit'[a])
        PROVE  \/ i \in 1 .. Len(audit[a]) /\ audit'[a][i] = audit[a][i]
               \/ audit'[a][i] = m
    <2>1. CASE a # b
      BY <1>3, <2>1
    <2>2. CASE a = b
      BY <1>2, <2>2
    <2> QED
      BY <2>1, <2>2
  <1>8. OnlyArchivedPayloadsProjected'
    <2> SUFFICES ASSUME NEW a \in Aggregates, NEW i \in 1 .. Len(audit'[a])
                 PROVE  /\ Env[audit'[a][i]].verdict = "valid"
                        /\ archive[Env[audit'[a][i]].id] = {Env[audit'[a][i]].hash}
      BY DEF OnlyArchivedPayloadsProjected
    <2>1. CASE audit'[a][i] = m
      BY <2>1
    <2>2. CASE i \in 1 .. Len(audit[a]) /\ audit'[a][i] = audit[a][i]
      BY <2>2 DEF StoreInv, OnlyArchivedPayloadsProjected
    <2> QED
      BY <1>7, <2>1, <2>2
  <1>9. AssociationNotBehind'
    <2> SUFFICES ASSUME NEW a \in Aggregates, NEW i \in 1 .. Len(audit'[a])
                 PROVE  Env[audit'[a][i]].approval => Env[audit'[a][i]].id \in assoc
      BY DEF AssociationNotBehind
    <2> QED
      BY <1>7 DEF StoreInv, AssociationNotBehind
  <1>10. GapHasWitness'
    <2> SUFFICES ASSUME NEW a \in Aggregates, checkpoint'[a].status = "GAP"
                 PROVE  \E n \in Messages :
                          /\ Env[n].aggregate = a
                          /\ Env[n].version > checkpoint'[a].version + 1
                          /\ inbox'[Env[n].id] = [status |-> "PROCESSING",
                                                  hashes |-> {Env[n].hash}]
      BY DEF GapHasWitness
    <2>1. a # b /\ checkpoint'[a] = checkpoint[a]
      BY <1>3, <1>4
    <2>2. PICK n \in Messages :
            /\ Env[n].aggregate = a
            /\ Env[n].version > checkpoint[a].version + 1
            /\ inbox[Env[n].id] = [status |-> "PROCESSING", hashes |-> {Env[n].hash}]
      BY <2>1 DEF StoreInv, GapHasWitness
    <2>3. inbox'[Env[n].id] = inbox[Env[n].id]
      <3>1. Env[n] # Env[m]
        BY <2>1, <2>2
      <3> QED
        BY <1>0, <1>1, <2>2, <3>1, WitnessKept
    <2> QED
      BY <2>1, <2>2, <2>3
  <1> QED
    BY <1>5, <1>6, <1>8, <1>9, <1>10 DEF StoreInv

\* Every step keeps the documents consistent.
LEMMA StoreStep ==
  ASSUME IInv, TypeOK', Next
  PROVE  StoreInv'
  <1>0. TypeOK /\ StoreInv /\ RunnersKnow /\ Grown
    BY StoreGrows DEF IInv
  <1>1. CASE UNCHANGED mongoVars
    BY <1>0, <1>1, UnchangedStore DEF StoreInv, mongoVars
  <1>2. ASSUME NEW w \in Workers, NEW m \in Messages,
               Archive(w, m) \/ Claim(w, m) \/ Associate(w, m)
        PROVE  StoreInv'
    BY <1>0, <1>2, ClaimKeepsStore
  <1>3. ASSUME NEW w \in Workers, NEW m \in Messages, Apply(w, m)
        PROVE  StoreInv'
    <2>0. UNCHANGED <<archive, assoc>> /\ At(w, m, "apply")
      BY <1>3 DEF Apply
    <2>1. CASE TxnStale(w, m)
      BY <1>0, <2>0, <2>1, StaleKeepsStore
    <2>2. CASE TxnGap(w, m)
      BY <1>0, <2>0, <2>2, GapKeepsStore
    <2>3. CASE TxnApply(w, m)
      <3>1. /\ archive[Env[m].id] = {Env[m].hash}
            /\ Env[m].verdict = "valid"
            /\ Env[m].approval => Env[m].id \in assoc
        BY <1>0, <2>0 DEF RunnersKnow, Knows, At
      <3> QED
        BY <1>0, <2>0, <2>3, <3>1, ApplyKeepsStore
    <2>4. CASE TxnRefused(w, m)
      BY <1>0, <2>0, <2>4, UnchangedStore DEF StoreInv, TxnRefused
    <2> QED
      BY <1>3, <2>1, <2>2, <2>3, <2>4 DEF Apply
  <1> QED
    BY <1>1, <1>2, <1>3, Writers

-----------------------------------------------------------------------------
(* What the runners know. *)

\* A step of runner w leaves the local state of every other runner alone.
LEMMA OthersUntouched ==
  ASSUME TypeOK, NEW w \in Workers, NEW v \in Workers, v # w, NEW m \in Messages,
         Work(w, m) \/ Trouble(w, m)
  PROVE  /\ pc'[v] = pc[v] /\ cur'[v] = cur[v]
         /\ gapSeen'[v] = gapSeen[v] /\ changeSeen'[v] = changeSeen[v]
  <1> USE DEF Goto, Resume, NextMessage, Reconnect, TypeOK, RunnerTypes
  <1>1. CASE Take(w, m) \/ Archive(w, m) \/ Claim(w, m) \/ Associate(w, m)
    BY <1>1 DEF Take, Archive, Claim, Associate
  <1>2. CASE Apply(w, m)
    BY <1>2 DEF Apply, TxnStale, TxnGap, TxnApply, TxnRefused
  <1>3. CASE Publish(w, m) \/ Ack(w, m) \/ DeadLetter(w, m) \/ Term(w, m) \/ Nak(w, m)
    BY <1>3 DEF Publish, Ack, DeadLetter, Term, Nak
  <1>4. CASE Trouble(w, m)
    BY <1>4 DEF Trouble, TxnRetried, AckLost, DeadLetterFails, SettleLost
  <1> QED
    BY <1>1, <1>2, <1>3, <1>4 DEF Work

\* Dead letters are never taken back.
LEMMA DeadLettersStay ==
  ASSUME Next
  PROVE  dlq \subseteq dlq'
  <1>1. ASSUME NEW w \in Workers, NEW m \in Messages, Deliver(w, m) PROVE dlq \subseteq dlq'
    BY <1>1 DEF Deliver
  <1>2. ASSUME NEW m \in Messages, Server(m) PROVE dlq \subseteq dlq'
    BY <1>2 DEF Server, AckWaitExpires, Exhaust
  <1>3. ASSUME NEW w \in Workers, NEW m \in Messages, Work(w, m) PROVE dlq \subseteq dlq'
    BY <1>3 DEF Work, Take, Archive, Claim, Associate, Apply, Publish, Ack, DeadLetter,
                Term, Nak, jsVars
  <1>4. ASSUME NEW w \in Workers, NEW m \in Messages, Trouble(w, m) PROVE dlq \subseteq dlq'
    BY <1>4 DEF Trouble, TxnRetried, AckLost, DeadLetterFails, SettleLost, jsVars
  <1>5. ASSUME NEW w \in Workers, StepFails(w) \/ Crash(w) PROVE dlq \subseteq dlq'
    BY <1>5 DEF StepFails, Crash, jsVars
  <1> QED
    BY <1>1, <1>2, <1>3, <1>4, <1>5 DEF Next

\* What a runner knows stays true while others work.
LEMMA KnowledgeLasts ==
  ASSUME TypeOK, TypeOK', Grown, dlq \subseteq dlq', NEW v \in Workers, Knows(v),
         pc'[v] = pc[v], cur'[v] = cur[v],
         gapSeen'[v] = gapSeen[v], changeSeen'[v] = changeSeen[v]
  PROVE  Knows(v)'
  <1>1. ASSUME NEW m \in cur[v]
        PROVE  /\ pc[v] = "ok" \/ (pc[v] = "publish" /\ ~gapSeen[v]) => AppliedEvent(m)'
               /\ pc[v] = "term" => m \in dlq'
               /\ pc[v] \in {"claim", "associate", "apply"} =>
                    /\ archive'[Env[m].id] = {Env[m].hash}
                    /\ Env[m].verdict \in {"valid", "association", "conflict"}
               /\ pc[v] = "apply" => /\ Env[m].verdict = "valid"
                                     /\ Env[m].approval => Env[m].id \in assoc'
               /\ changeSeen[v] =>
                    Env[m].version <= checkpoint'[Env[m].aggregate].version + 1
               /\ changeSeen[v] /\ pc[v] = "publish" =>
                    Env[m].version <= checkpoint'[Env[m].aggregate].version
    <2>0. m \in Messages
      BY DEF TypeOK, RunnerTypes
    <2>1. /\ Env[m].aggregate \in Aggregates
          /\ Env[m].version \in Nat
          /\ checkpoint[Env[m].aggregate].version \in Nat
          /\ checkpoint'[Env[m].aggregate].version \in Nat
          /\ checkpoint[Env[m].aggregate].version <= checkpoint'[Env[m].aggregate].version
      BY <2>0, EnvelopeTypes DEF TypeOK, MongoTypes, Grown
    <2>2. /\ AppliedEvent(m) => AppliedEvent(m)'
          /\ archive[Env[m].id] = {Env[m].hash} => archive'[Env[m].id] = {Env[m].hash}
          /\ assoc \subseteq assoc'
      BY <2>0 DEF Grown
    <2> QED
      BY <2>1, <2>2 DEF Knows
  <1> QED
    BY <1>1 DEF Knows

\* A runner without a message knows nothing.
LEMMA IdleKnows ==
  ASSUME NEW w \in Workers, cur'[w] = {}, ~gapSeen'[w], ~changeSeen'[w]
  PROVE  Knows(w)'
  BY DEF Knows

\* What a runner must know after a step outside the transaction.
LEMMA SingleKnows ==
  ASSUME NEW w \in Workers, NEW m \in Messages, cur'[w] = {m},
         ~gapSeen'[w], ~changeSeen'[w], pc'[w] # "publish",
         pc'[w] = "ok" => AppliedEvent(m)',
         pc'[w] = "term" => m \in dlq',
         pc'[w] \in {"claim", "associate", "apply"} =>
           /\ archive'[Env[m].id] = {Env[m].hash}
           /\ Env[m].verdict \in {"valid", "association", "conflict"},
         pc'[w] = "apply" => /\ Env[m].verdict = "valid"
                             /\ Env[m].approval => Env[m].id \in assoc'
  PROVE  Knows(w)'
  BY DEF Knows

\* The runner's own step leaves it with the knowledge its next step needs.
LEMMA HandlerKnows ==
  ASSUME IInv, TypeOK', NEW w \in Workers, NEW m \in Messages,
         Take(w, m) \/ Archive(w, m) \/ Claim(w, m) \/ Associate(w, m)
  PROVE  Knows(w)'
  <1> USE EnvelopeTypes DEF TypeOK, RunnerTypes, MongoTypes, Goto, At
  <1>0. TypeOK /\ Knows(w)
    BY DEF IInv, RunnersKnow
  <1>1. CASE Take(w, m)
    <2>1. cur'[w] = {m} /\ pc'[w] = "archive" /\ ~gapSeen'[w] /\ ~changeSeen'[w]
      BY <1>0, <1>1 DEF Take, Knows
    <2> QED
      BY <2>1, SingleKnows
  <1>2. CASE Archive(w, m)
    <2>1. cur'[w] = {m} /\ ~gapSeen'[w] /\ ~changeSeen'[w]
      BY <1>0, <1>2 DEF Archive, Knows
    <2>2. CASE pc'[w] \in {"deterministic", "transient"}
      BY <2>1, <2>2, SingleKnows
    <2>3. CASE /\ pc'[w] = "claim"
               /\ archive' = [archive EXCEPT ![Env[m].id] = {Env[m].hash}]
               /\ Env[m].verdict \notin {"contract", "mapping"}
      <3>1. archive'[Env[m].id] = {Env[m].hash} /\ Env[m].verdict \in {"valid", "association", "conflict"}
        BY <1>0, <2>3 DEF Verdicts
      <3> QED
        BY <2>1, <2>3, <3>1, SingleKnows
    <2> QED
      BY <1>0, <1>2, <2>2, <2>3 DEF Archive
  <1>3. CASE Claim(w, m)
    <2>1. cur'[w] = {m} /\ ~gapSeen'[w] /\ ~changeSeen'[w] /\ archive' = archive
      BY <1>0, <1>3 DEF Claim, Knows
    <2>2. archive[Env[m].id] = {Env[m].hash} /\ Env[m].verdict \in {"valid", "association", "conflict"}
      BY <1>0, <1>3 DEF Claim, Knows
    <2>3. CASE pc'[w] = "associate" \/ pc'[w] = "transient"
      BY <2>1, <2>2, <2>3, SingleKnows
    <2>4. CASE pc'[w] = "apply" /\ ~Env[m].approval
      <3>1. Env[m].verdict = "valid"
        BY <2>2, <2>4, EnvAssumption
      <3> QED
        BY <2>1, <2>2, <2>4, <3>1, SingleKnows
    <2>5. CASE /\ pc'[w] = "ok" /\ inbox' = inbox
               /\ inbox[Env[m].id].hashes = {Env[m].hash}
               /\ inbox[Env[m].id].status = "APPLIED"
      BY <2>1, <2>5, SingleKnows DEF AppliedEvent
    <2> QED
      BY <1>0, <1>3, <2>3, <2>4, <2>5 DEF Claim
  <1>4. CASE Associate(w, m)
    <2>1. cur'[w] = {m} /\ ~gapSeen'[w] /\ ~changeSeen'[w] /\ archive' = archive
      BY <1>0, <1>4 DEF Associate, Knows
    <2>2. archive[Env[m].id] = {Env[m].hash} /\ Env[m].verdict \in {"valid", "association", "conflict"}
      BY <1>0, <1>4 DEF Associate, Knows
    <2>3. CASE pc'[w] \in {"deterministic", "transient"}
      BY <2>1, <2>3, SingleKnows
    <2>4. CASE /\ pc'[w] = "apply" /\ Env[m].verdict \notin {"association", "conflict"}
               /\ assoc' = assoc \cup {Env[m].id}
      BY <2>1, <2>2, <2>4, SingleKnows
    <2> QED
      BY <1>0, <1>4, <2>3, <2>4 DEF Associate
  <1> QED
    BY <1>1, <1>2, <1>3, <1>4

\* What the transaction leaves behind for the code after it.
LEMMA TransactionKnows ==
  ASSUME IInv, TypeOK', NEW w \in Workers, NEW m \in Messages,
         Apply(w, m) \/ TxnRetried(w, m)
  PROVE  Knows(w)'
  <1> USE EnvelopeTypes DEF TypeOK, RunnerTypes, MongoTypes, Goto, At
  <1>0. TypeOK /\ Knows(w)
    BY DEF IInv, RunnersKnow
  <1>1. /\ pc[w] = "apply" /\ cur[w] = {m} /\ cur'[w] = {m}
        /\ UNCHANGED <<archive, assoc>>
        /\ archive[Env[m].id] = {Env[m].hash}
        /\ Env[m].verdict = "valid"
        /\ Env[m].approval => Env[m].id \in assoc
        /\ changeSeen[w] => Env[m].version <= checkpoint[Env[m].aggregate].version + 1
    BY <1>0 DEF Apply, TxnRetried, Knows, mongoVars
  <1>2. /\ Env[m].version \in Nat
        /\ checkpoint[Env[m].aggregate].version \in Nat
        /\ checkpoint'[Env[m].aggregate].version \in Nat
        /\ Env[m].aggregate \in Aggregates
    BY <1>0
  <1>3. CASE TxnStale(w, m)
    <2>1. /\ pc'[w] = "publish"
          /\ checkpoint' = checkpoint
          /\ Env[m].version <= checkpoint[Env[m].aggregate].version
          /\ AppliedEvent(m)'
      BY <1>0, <1>3, Decision DEF TxnStale, MarkApplied, AppliedEvent
    <2> QED
      BY <1>1, <1>2, <2>1 DEF Knows
  <1>4. CASE TxnGap(w, m)
    <2>1. /\ pc'[w] = "publish" /\ gapSeen'[w] /\ changeSeen'[w] = changeSeen[w]
          /\ checkpoint'[Env[m].aggregate].version = checkpoint[Env[m].aggregate].version
          /\ Env[m].version > checkpoint[Env[m].aggregate].version + 1
      BY <1>0, <1>4, Decision DEF TxnGap, GapCheckpoint
    <2>2. ~changeSeen'[w]
      BY <1>1, <1>2, <2>1
    <2> QED
      BY <1>1, <1>2, <2>1, <2>2 DEF Knows
  <1>5. CASE TxnApply(w, m)
    <2>1. /\ pc'[w] = "publish"
          /\ checkpoint'[Env[m].aggregate].version = Env[m].version
          /\ AppliedEvent(m)'
      BY <1>0, <1>5, Decision DEF TxnApply, MarkApplied, AppliedEvent, AdvancedCheckpoint
    <2> QED
      BY <1>1, <1>2, <2>1 DEF Knows
  <1>6. CASE TxnRefused(w, m)
    <2>1. ~gapSeen'[w] /\ ~changeSeen'[w] /\ inbox' = inbox
      BY <1>0, <1>6 DEF TxnRefused
    <2>2. CASE pc'[w] = "transient"
      BY <1>1, <2>1, <2>2, SingleKnows
    <2>3. CASE pc'[w] = "ok" /\ TxnDecision(m) = "already"
      <3>1. /\ inbox[Env[m].id].hashes = {Env[m].hash}
            /\ inbox[Env[m].id].status = "APPLIED"
        BY <2>3 DEF TxnDecision, classifyCheckpoint
      <3> QED
        BY <1>1, <2>1, <2>3, <3>1, SingleKnows DEF AppliedEvent
    <2> QED
      BY <1>0, <1>6, <2>2, <2>3 DEF TxnRefused
  <1>7. CASE TxnRetried(w, m)
    <2>1. pc'[w] = "apply" /\ UNCHANGED <<checkpoint, inbox>>
      BY <1>1, <1>7 DEF TxnRetried, mongoVars
    <2>2. changeSeen'[w] => Env[m].version <= checkpoint[Env[m].aggregate].version + 1
      <3>1. CASE TxnDecision(m) = "gap"
        <4>1. changeSeen' = changeSeen
          BY <1>7, <3>1 DEF TxnRetried
        <4> QED
          BY <1>1, <4>1
      <3>2. CASE TxnDecision(m) = "apply"
        <4>1. Env[m].version = checkpoint[Env[m].aggregate].version + 1
          BY <1>0, <3>2, Decision
        <4> QED
          BY <1>2, <4>1
      <3> QED
        BY <1>7, <3>1, <3>2 DEF TxnRetried
    <2> QED
      BY <1>1, <2>1, <2>2 DEF Knows
  <1> QED
    BY <1>3, <1>4, <1>5, <1>6, <1>7 DEF Apply

\* Publishing, dead-lettering and settling leave the runner with what it needs.
LEMMA SettlingKnows ==
  ASSUME IInv, TypeOK', NEW w \in Workers, NEW m \in Messages,
         \/ Publish(w, m) \/ Ack(w, m) \/ AckLost(w, m) \/ DeadLetter(w, m)
         \/ DeadLetterFails(w, m) \/ Term(w, m) \/ Nak(w, m) \/ SettleLost(w, m)
  PROVE  Knows(w)'
  <1> USE DEF TypeOK, RunnerTypes, Goto, At
  <1>0. TypeOK /\ Knows(w)
    BY DEF IInv, RunnersKnow
  <1>1. CASE Publish(w, m)
    <2>1. /\ cur[w] = {m} /\ cur'[w] = {m} /\ ~gapSeen'[w] /\ ~changeSeen'[w]
          /\ inbox' = inbox /\ pc[w] = "publish"
      BY <1>0, <1>1 DEF Publish, mongoVars
    <2>2. CASE pc'[w] = "transient"
      BY <2>1, <2>2, SingleKnows
    <2>3. CASE pc'[w] = "ok" /\ ~gapSeen[w]
      <3>1. AppliedEvent(m)
        BY <1>0, <2>1, <2>3 DEF Knows
      <3> QED
        BY <2>1, <2>3, <3>1, SingleKnows DEF AppliedEvent
    <2> QED
      BY <1>0, <1>1, <2>2, <2>3 DEF Publish
  <1>2. CASE DeadLetter(w, m)
    <2>1. cur'[w] = {m} /\ ~gapSeen'[w] /\ ~changeSeen'[w] /\ pc'[w] = "term" /\ m \in dlq'
      BY <1>0, <1>2 DEF DeadLetter, DeadLetterDue, Knows
    <2> QED
      BY <2>1, SingleKnows
  <1>3. CASE \/ Ack(w, m) \/ AckLost(w, m) \/ DeadLetterFails(w, m)
             \/ Term(w, m) \/ Nak(w, m) \/ SettleLost(w, m)
    <2>1. pc[w] \notin {"apply", "publish"} /\ Resume(w)
      BY <1>3 DEF Ack, AckLost, DeadLetterFails, DeadLetterDue, Term, Nak, NakDue, SettleLost,
                  NextMessage, Reconnect
    <2>2. cur'[w] = {} /\ ~gapSeen'[w] /\ ~changeSeen'[w]
      BY <1>0, <2>1 DEF Resume, Knows
    <2> QED
      BY <2>2, IdleKnows
  <1> QED
    BY <1>1, <1>2, <1>3

\* An error or a crash makes the runner forget.
LEMMA FailingKnows ==
  ASSUME IInv, TypeOK', NEW w \in Workers, StepFails(w) \/ Crash(w)
  PROVE  Knows(w)'
  <1> USE DEF TypeOK, RunnerTypes, Goto
  <1>0. TypeOK /\ Knows(w)
    BY DEF IInv, RunnersKnow
  <1>1. CASE StepFails(w)
    <2>1. cur'[w] = cur[w] /\ pc'[w] = "transient" /\ ~gapSeen'[w] /\ ~changeSeen'[w]
      BY <1>0, <1>1 DEF StepFails
    <2> QED
      BY <1>0, <2>1 DEF Knows
  <1>2. CASE Crash(w)
    <2>1. cur'[w] = {} /\ ~gapSeen'[w] /\ ~changeSeen'[w]
      BY <1>0, <1>2 DEF Crash
    <2> QED
      BY <2>1, IdleKnows
  <1> QED
    BY <1>1, <1>2

\* Every step keeps what every runner knows.
LEMMA KnowledgeStep ==
  ASSUME IInv, TypeOK', Next
  PROVE  RunnersKnow'
  <1>0. TypeOK /\ RunnersKnow /\ Grown /\ dlq \subseteq dlq'
    BY StoreGrows, DeadLettersStay DEF IInv
  <1>1. ASSUME NEW w \in Workers, NEW m \in Messages, Deliver(w, m) PROVE RunnersKnow'
    <2>1. UNCHANGED <<pc, cur, gapSeen, changeSeen>>
      BY <1>1 DEF Deliver
    <2> QED
      BY <1>0, <2>1, KnowledgeLasts DEF RunnersKnow
  <1>2. ASSUME NEW m \in Messages, Server(m) PROVE RunnersKnow'
    <2>1. UNCHANGED <<pc, cur, gapSeen, changeSeen>>
      BY <1>2 DEF Server, AckWaitExpires, Exhaust, runnerVars
    <2> QED
      BY <1>0, <2>1, KnowledgeLasts DEF RunnersKnow
  <1>3. ASSUME NEW w \in Workers, NEW m \in Messages, Work(w, m) \/ Trouble(w, m)
        PROVE  RunnersKnow'
    <2>1. Knows(w)'
      BY <1>3, HandlerKnows, TransactionKnows, SettlingKnows DEF Work, Trouble
    <2>2. ASSUME NEW v \in Workers, v # w PROVE Knows(v)'
      <3>1. /\ pc'[v] = pc[v] /\ cur'[v] = cur[v]
            /\ gapSeen'[v] = gapSeen[v] /\ changeSeen'[v] = changeSeen[v]
        BY <1>0, <1>3, <2>2, OthersUntouched
      <3> QED
        BY <1>0, <3>1, KnowledgeLasts DEF RunnersKnow
    <2> QED
      BY <2>1, <2>2 DEF RunnersKnow
  <1>4. ASSUME NEW w \in Workers, StepFails(w) \/ Crash(w) PROVE RunnersKnow'
    <2>1. Knows(w)'
      BY <1>4, FailingKnows
    <2>2. ASSUME NEW v \in Workers, v # w PROVE Knows(v)'
      <3>1. /\ pc'[v] = pc[v] /\ cur'[v] = cur[v]
            /\ gapSeen'[v] = gapSeen[v] /\ changeSeen'[v] = changeSeen[v]
        BY <1>0, <1>4, <2>2 DEF StepFails, Crash, Goto, TypeOK, RunnerTypes
      <3> QED
        BY <1>0, <3>1, KnowledgeLasts DEF RunnersKnow
    <2> QED
      BY <2>1, <2>2 DEF RunnersKnow
  <1> QED
    BY <1>1, <1>2, <1>3, <1>4 DEF Next

-----------------------------------------------------------------------------
(* What the server and the feed show, and the theorems. *)

\* A message is settled as acked or terminated only by Ack, AckLost and Term.
LEMMA Settlers ==
  ASSUME TypeOK, Next, NEW n \in Messages, srv'[n] # srv[n], srv'[n] \in {"acked", "termed"}
  PROVE  \E w \in Workers : \/ srv'[n] = "acked" /\ (Ack(w, n) \/ AckLost(w, n))
                            \/ srv'[n] = "termed" /\ Term(w, n)
  <1> USE DEF TypeOK, JetStreamTypes, jsVars, SettleAs
  <1>1. ASSUME NEW w \in Workers, NEW m \in Messages, Deliver(w, m) PROVE FALSE
    BY <1>1 DEF Deliver
  <1>2. ASSUME NEW m \in Messages, Server(m) PROVE FALSE
    BY <1>2 DEF Server, AckWaitExpires, Exhaust
  <1>3. ASSUME NEW w \in Workers, NEW m \in Messages, Work(w, m) \/ Trouble(w, m)
        PROVE  \/ srv'[n] = "acked" /\ (Ack(w, n) \/ AckLost(w, n))
               \/ srv'[n] = "termed" /\ Term(w, n)
    <2>1. ~(Take(w, m) \/ Archive(w, m) \/ Claim(w, m) \/ Associate(w, m))
      BY DEF Take, Archive, Claim, Associate
    <2>2. ~(Apply(w, m) \/ Publish(w, m) \/ DeadLetter(w, m) \/ TxnRetried(w, m))
      BY DEF Apply, Publish, DeadLetter, TxnRetried
    <2>3. ~(DeadLetterFails(w, m) \/ SettleLost(w, m) \/ Nak(w, m))
      BY DEF DeadLetterFails, SettleLost, Nak
    <2>4. CASE Ack(w, m)
      BY <2>4 DEF Ack
    <2>5. CASE AckLost(w, m)
      BY <2>5 DEF AckLost
    <2>6. CASE Term(w, m)
      BY <2>6 DEF Term
    <2> QED
      BY <1>3, <2>1, <2>2, <2>3, <2>4, <2>5, <2>6 DEF Work, Trouble
  <1>4. ASSUME NEW w \in Workers, StepFails(w) \/ Crash(w) PROVE FALSE
    BY <1>4 DEF StepFails, Crash
  <1> QED
    BY <1>1, <1>2, <1>3, <1>4 DEF Next

\* Only Publish writes to the feed.
LEMMA Publishers ==
  ASSUME Next
  PROVE  \/ feed' = feed
         \/ \E w \in Workers, m \in Messages : Publish(w, m)
  <1>1. ASSUME NEW w \in Workers, NEW m \in Messages, Deliver(w, m) PROVE feed' = feed
    BY <1>1 DEF Deliver
  <1>2. ASSUME NEW m \in Messages, Server(m) PROVE feed' = feed
    BY <1>2 DEF Server, AckWaitExpires, Exhaust
  <1>3. ASSUME NEW w \in Workers, NEW m \in Messages, Work(w, m)
        PROVE  feed' = feed \/ Publish(w, m)
    BY <1>3 DEF Work, Take, Archive, Claim, Associate, Apply, Ack, DeadLetter, Term, Nak
  <1>4. ASSUME NEW w \in Workers, NEW m \in Messages, Trouble(w, m) PROVE feed' = feed
    BY <1>4 DEF Trouble, TxnRetried, AckLost, DeadLetterFails, SettleLost
  <1>5. ASSUME NEW w \in Workers, StepFails(w) \/ Crash(w) PROVE feed' = feed
    BY <1>5 DEF StepFails, Crash
  <1> QED
    BY <1>1, <1>2, <1>3, <1>4, <1>5 DEF Next

\* Every step keeps what the server and the feed show.
LEMMA ServerStep ==
  ASSUME IInv, TypeOK', Next
  PROVE  ServerInv'
  <1>0. TypeOK /\ RunnersKnow /\ Grown /\ dlq \subseteq dlq' /\ ServerInv
    BY StoreGrows, DeadLettersStay DEF IInv
  <1>1. ASSUME NEW n \in Messages, srv'[n] = "acked" PROVE AppliedEvent(n)'
    <2>1. AppliedEvent(n)
      <3>1. CASE srv[n] = "acked"
        BY <1>0, <3>1 DEF ServerInv, AckedOnlyWhenApplied
      <3>2. CASE srv[n] # "acked"
        <4>1. PICK w \in Workers : Ack(w, n) \/ AckLost(w, n)
          BY <1>0, <1>1, <3>2, Settlers
        <4> QED
          BY <1>0, <4>1 DEF Ack, AckLost, At, RunnersKnow, Knows
      <3> QED
        BY <3>1, <3>2
    <2> QED
      BY <1>0, <2>1 DEF Grown
  <1>2. ASSUME NEW n \in Messages, srv'[n] = "termed" PROVE n \in dlq'
    <2>1. CASE srv[n] = "termed"
      BY <1>0, <2>1 DEF ServerInv, TermedOnlyWhenDeadLettered
    <2>2. CASE srv[n] # "termed"
      <3>1. PICK w \in Workers : Term(w, n)
        BY <1>0, <1>2, <2>2, Settlers
      <3> QED
        BY <1>0, <3>1 DEF Term, At, RunnersKnow, Knows
    <2> QED
      BY <2>1, <2>2
  <1>3. ASSUME NEW c \in feed' PROVE c[2] <= checkpoint'[c[1]].version
    <2>0. /\ feed \in SUBSET (Aggregates \X Nat)
          /\ feed' \in SUBSET (Aggregates \X Nat)
      BY <1>0 DEF TypeOK
    <2>1. c[1] \in Aggregates /\ c[2] \in Nat
      BY <2>0, <1>3
    <2>2. /\ checkpoint[c[1]].version <= checkpoint'[c[1]].version
          /\ checkpoint[c[1]].version \in Nat
          /\ checkpoint'[c[1]].version \in Nat
      BY <1>0, <2>1 DEF Grown, TypeOK, MongoTypes
    <2>3. c[2] <= checkpoint[c[1]].version
      <3>1. CASE c \in feed
        BY <1>0, <3>1 DEF ServerInv, FeedOnlyCommitted
      <3>2. CASE c \notin feed
        <4>1. PICK w \in Workers, m \in Messages : Publish(w, m)
          BY <1>3, <3>2, Publishers
        <4>2. changeSeen[w] /\ c = <<Env[m].aggregate, Env[m].version>>
          BY <1>3, <3>2, <4>1 DEF Publish
        <4>3. Env[m].version <= checkpoint[Env[m].aggregate].version
          BY <1>0, <4>1, <4>2 DEF Publish, At, RunnersKnow, Knows
        <4> QED
          BY <4>2, <4>3
      <3> QED
        BY <3>1, <3>2
    <2> QED
      BY <2>1, <2>2, <2>3
  <1> QED
    BY <1>1, <1>2, <1>3 DEF ServerInv, AckedOnlyWhenApplied, TermedOnlyWhenDeadLettered,
                            FeedOnlyCommitted

\* The invariant holds before the first delivery, with every collection empty.
LEMMA InitInv ==
  ASSUME Init
  PROVE  RunnersKnow /\ StoreInv /\ ServerInv
  <1> USE EnvelopeTypes DEF Init, NoInbox, NoCheckpoint
  <1>1. RunnersKnow
    BY DEF RunnersKnow, Knows
  <1>2. InboxHasPayload /\ AppliedIsCovered /\ GapHasWitness
    BY DEF InboxHasPayload, AppliedIsCovered, AppliedEvent, GapHasWitness
  <1>3. ExactlyOnceInOrder /\ OnlyArchivedPayloadsProjected /\ AssociationNotBehind
    BY DEF ExactlyOnceInOrder, OnlyArchivedPayloadsProjected, AssociationNotBehind
  <1>4. ServerInv
    BY DEF ServerInv, AckedOnlyWhenApplied, TermedOnlyWhenDeadLettered, FeedOnlyCommitted
  <1> QED
    BY <1>1, <1>2, <1>3, <1>4 DEF StoreInv

\* A stuttering step keeps the invariant.
LEMMA StutterInv ==
  ASSUME IInv, TypeOK', UNCHANGED vars
  PROVE  RunnersKnow' /\ StoreInv' /\ ServerInv'
  <1>0. /\ TypeOK /\ RunnersKnow /\ StoreInv /\ ServerInv
        /\ UNCHANGED <<srv, dlq, feed, pc, cur, gapSeen, changeSeen>>
        /\ UNCHANGED <<archive, inbox, checkpoint, record, audit, assoc>>
    BY DEF IInv, vars
  <1>1. Grown
    <2>1. \A a \in Aggregates : checkpoint[a].version \in Nat
      BY <1>0 DEF TypeOK, MongoTypes
    <2> QED
      BY <1>0, <2>1 DEF Grown, AppliedEvent
  <1>2. RunnersKnow'
    BY <1>0, <1>1, KnowledgeLasts DEF RunnersKnow
  <1>3. StoreInv'
    BY <1>0, UnchangedStore DEF StoreInv
  <1>4. ServerInv'
    BY <1>0 DEF ServerInv, AckedOnlyWhenApplied, TermedOnlyWhenDeadLettered, FeedOnlyCommitted,
                AppliedEvent
  <1> QED
    BY <1>2, <1>3, <1>4

\* The inductive invariant: the documents, the runners' knowledge and the server's
\* view stay consistent for every number of runners, messages, deliveries and faults.
THEOREM PipelineInvariant == Spec => []IInv
  <1>1. Init => RunnersKnow /\ StoreInv /\ ServerInv
    BY InitInv
  <1>2. IInv /\ TypeOK' /\ [Next]_vars => IInv'
    <2>1. IInv /\ TypeOK' /\ Next => RunnersKnow' /\ StoreInv' /\ ServerInv'
      BY StoreStep, KnowledgeStep, ServerStep
    <2>2. IInv /\ TypeOK' /\ UNCHANGED vars => RunnersKnow' /\ StoreInv' /\ ServerInv'
      BY StutterInv
    <2> QED
      BY <2>1, <2>2 DEF IInv
  <1>3. TypeOK /\ RunnersKnow /\ StoreInv /\ ServerInv => IInv
    BY DEF IInv
  <1> QED
    BY <1>1, <1>2, <1>3, TypeCorrect, PTL DEF Spec

\* Whatever is delivered twice, late or out of order, the audit trail of an aggregate
\* is versions 1..n once each, n is its checkpoint and the record is the last of them.
THEOREM ExactlyOnceTheorem == Spec => []ExactlyOnceInOrder
  <1>1. IInv => ExactlyOnceInOrder
    BY DEF IInv, StoreInv
  <1> QED
    BY <1>1, PipelineInvariant, PTL

\* An acked message has been applied, with exactly its payload.
THEOREM AckTheorem == Spec => []AckedOnlyWhenApplied
  <1>1. IInv => AckedOnlyWhenApplied
    BY DEF IInv, ServerInv
  <1> QED
    BY <1>1, PipelineInvariant, PTL

\* A terminated message has its dead letter stored.
THEOREM DeadLetterTheorem == Spec => []TermedOnlyWhenDeadLettered
  <1>1. IInv => TermedOnlyWhenDeadLettered
    BY DEF IInv, ServerInv
  <1> QED
    BY <1>1, PipelineInvariant, PTL

\* An event marked APPLIED in the inbox is covered by its aggregate's checkpoint.
THEOREM CoveredTheorem == Spec => []AppliedIsCovered
  <1>1. IInv => AppliedIsCovered
    BY DEF IInv, StoreInv
  <1> QED
    BY <1>1, PipelineInvariant, PTL

\* Only valid payloads that were archived under their event id are projected.
THEOREM ArchivedTheorem == Spec => []OnlyArchivedPayloadsProjected
  <1>1. IInv => OnlyArchivedPayloadsProjected
    BY DEF IInv, StoreInv
  <1> QED
    BY <1>1, PipelineInvariant, PTL

\* A projected approval always has its association written.
THEOREM AssociationTheorem == Spec => []AssociationNotBehind
  <1>1. IInv => AssociationNotBehind
    BY DEF IInv, StoreInv
  <1> QED
    BY <1>1, PipelineInvariant, PTL

\* A checkpoint is GAP only while an event beyond the hole waits in the inbox.
THEOREM GapTheorem == Spec => []GapHasWitness
  <1>1. IInv => GapHasWitness
    BY DEF IInv, StoreInv
  <1> QED
    BY <1>1, PipelineInvariant, PTL

\* The feed announces committed versions only.
THEOREM FeedTheorem == Spec => []FeedOnlyCommitted
  <1>1. IInv => FeedOnlyCommitted
    BY DEF IInv, ServerInv
  <1> QED
    BY <1>1, PipelineInvariant, PTL

\* A step either leaves the log and the record of an aggregate alone, or appends
\* the next version to the one and shows it in the other.
LEMMA LogStep ==
  ASSUME IInv, Next
  PROVE  \/ UNCHANGED <<audit, record>> /\ \A a \in Aggregates :
                                             checkpoint'[a].version = checkpoint[a].version
         \/ \E m \in Messages :
              /\ Env[m].verdict = "valid"
              /\ Env[m].version = checkpoint[Env[m].aggregate].version + 1
              /\ audit' = [audit EXCEPT ![Env[m].aggregate] = Append(@, m)]
              /\ record' = [record EXCEPT ![Env[m].aggregate] = {m}]
              /\ checkpoint' = [checkpoint EXCEPT ![Env[m].aggregate] =
                                  AdvancedCheckpoint(Env[m].version)]
  <1>0. TypeOK /\ RunnersKnow
    BY DEF IInv
  <1>1. CASE UNCHANGED mongoVars
    BY <1>1 DEF mongoVars
  <1>2. ASSUME NEW w \in Workers, NEW m \in Messages,
               Archive(w, m) \/ Claim(w, m) \/ Associate(w, m)
        PROVE  UNCHANGED <<audit, record, checkpoint>>
    BY <1>2 DEF Archive, Claim, Associate
  <1>3. ASSUME NEW w \in Workers, NEW m \in Messages, Apply(w, m), ~TxnApply(w, m)
        PROVE  UNCHANGED <<audit, record>> /\ \A a \in Aggregates :
                                                checkpoint'[a].version = checkpoint[a].version
    <2>1. CASE TxnGap(w, m)
      BY <1>0, <2>1 DEF TxnGap, GapCheckpoint, TypeOK, MongoTypes
    <2>2. CASE TxnStale(w, m) \/ TxnRefused(w, m)
      BY <2>2 DEF TxnStale, TxnRefused
    <2> QED
      BY <1>3, <2>1, <2>2 DEF Apply
  <1>4. ASSUME NEW w \in Workers, NEW m \in Messages, Apply(w, m), TxnApply(w, m)
        PROVE  /\ Env[m].verdict = "valid"
               /\ Env[m].version = checkpoint[Env[m].aggregate].version + 1
               /\ audit' = [audit EXCEPT ![Env[m].aggregate] = Append(@, m)]
               /\ record' = [record EXCEPT ![Env[m].aggregate] = {m}]
               /\ checkpoint' = [checkpoint EXCEPT ![Env[m].aggregate] =
                                   AdvancedCheckpoint(Env[m].version)]
    <2>1. Env[m].verdict = "valid"
      BY <1>0, <1>4 DEF Apply, At, RunnersKnow, Knows
    <2>2. Env[m].version = checkpoint[Env[m].aggregate].version + 1
      BY <1>0, <1>4, Decision DEF TxnApply
    <2> QED
      BY <1>4, <2>1, <2>2 DEF TxnApply
  <1> QED
    BY <1>1, <1>2, <1>3, <1>4, Writers

\* Checkpoints move one version at a time, never back, and together with the record.
THEOREM CheckpointTheorem == Spec => CheckpointsAdvanceByOne
  <1>1. ASSUME IInv, Next, NEW a \in Aggregates PROVE CheckpointStep(a)
    <2>0. TypeOK /\ ExactlyOnceInOrder
      BY <1>1 DEF IInv, StoreInv
    <2>1. CASE /\ UNCHANGED <<audit, record>>
               /\ \A b \in Aggregates : checkpoint'[b].version = checkpoint[b].version
      BY <2>1 DEF CheckpointStep
    <2>2. ASSUME NEW m \in Messages,
                 Env[m].version = checkpoint[Env[m].aggregate].version + 1,
                 record' = [record EXCEPT ![Env[m].aggregate] = {m}],
                 checkpoint' = [checkpoint EXCEPT ![Env[m].aggregate] =
                                  AdvancedCheckpoint(Env[m].version)]
          PROVE  CheckpointStep(a)
      <3>1. CASE a # Env[m].aggregate
        BY <2>0, <2>2, <3>1, EnvelopeTypes DEF CheckpointStep, TypeOK, MongoTypes
      <3>2. CASE a = Env[m].aggregate
        <4>1. record'[a] = {m} /\ checkpoint'[a].version = checkpoint[a].version + 1
          BY <2>0, <2>2, <3>2, EnvelopeTypes DEF TypeOK, MongoTypes, AdvancedCheckpoint
        <4>2. \A n \in record[a] : Env[n].version = checkpoint[a].version
          <5>1. /\ Len(audit[a]) = checkpoint[a].version
                /\ \A i \in 1 .. Len(audit[a]) : Env[audit[a][i]].version = i
                /\ record[a] = IF audit[a] = << >> THEN {} ELSE {audit[a][Len(audit[a])]}
            BY <2>0 DEF ExactlyOnceInOrder
          <5>2. audit[a] \in Seq(Messages)
            BY <2>0 DEF TypeOK, MongoTypes
          <5>3. audit[a] # << >> => Len(audit[a]) \in 1 .. Len(audit[a])
            BY <5>2
          <5> QED
            BY <5>1, <5>3
        <4>3. checkpoint[a].version \in Nat
          BY <2>0 DEF TypeOK, MongoTypes
        <4>4. m \notin record[a]
          BY <2>2, <3>2, <4>2, <4>3
        <4> QED
          BY <4>1, <4>4 DEF CheckpointStep
      <3> QED
        BY <3>1, <3>2
    <2> QED
      BY <1>1, <2>1, <2>2, LogStep
  <1>2. IInv /\ [Next]_vars => [\A a \in Aggregates : CheckpointStep(a)]_vars
    BY <1>1
  <1> QED
    BY <1>2, PipelineInvariant, PTL DEF Spec, CheckpointsAdvanceByOne

\* The pipeline implements the ordered read model of OrderedProjection.
THEOREM RefinementTheorem == Spec => ImplementsOrderedProjection
  <1>1. Init => Ordered!OInit
    BY DEF Init, Ordered!OInit
  <1>2. ASSUME IInv, Next PROVE Ordered!ONext \/ UNCHANGED <<audit, record>>
    <2>0. TypeOK /\ ExactlyOnceInOrder
      BY <1>2 DEF IInv, StoreInv
    <2>1. ASSUME NEW m \in Messages,
                 Env[m].verdict = "valid",
                 Env[m].version = checkpoint[Env[m].aggregate].version + 1,
                 audit' = [audit EXCEPT ![Env[m].aggregate] = Append(@, m)],
                 record' = [record EXCEPT ![Env[m].aggregate] = {m}]
          PROVE  Ordered!Accept(m)
      <3>1. Env[m].version = Len(audit[Env[m].aggregate]) + 1
        BY <2>0, <2>1, EnvelopeTypes DEF ExactlyOnceInOrder
      <3> QED
        BY <2>1, <3>1 DEF Ordered!Accept, Acceptable, AggregateOf, VersionOf
    <2> QED
      BY <1>2, <2>1, LogStep DEF Ordered!ONext
  <1>3. IInv /\ [Next]_vars => [Ordered!ONext]_Ordered!ovars
    BY <1>2 DEF Ordered!ovars, vars
  <1> QED
    BY <1>1, <1>3, PipelineInvariant, PTL DEF Spec, ImplementsOrderedProjection, Ordered!OSpec
=============================================================================
