-------------------------- MODULE ProjectionRebuild --------------------------
(***************************************************************************)
(* Rebuilding the read model (modules/projection/rebuild.go,               *)
(* read_pointer.go and the staging half of store.go): API calls start and  *)
(* cancel rebuild operations, workers replay the event archive into a      *)
(* staging collection of their own and switch the read pointer to it,      *)
(* while the live projector keeps archiving and applying events.           *)
(*                                                                         *)
(* One tenant, workspace and table, and one aggregate of it; an event is   *)
(* its version, and a collection is the version of the record it holds (0  *)
(* for none).  ProjectionPipeline models the live projector in full: here  *)
(* it archives an event, and applies it in a transaction that reads its    *)
(* snapshot first and conflicts with writes to what it writes.             *)
(***************************************************************************)
EXTENDS ProjectionStore, FiniteSets

CONSTANTS
  Ops,           \* rebuild operation ids
  Workers,       \* ProjectionRebuildWorker instances
  Callers,       \* concurrent API calls
  Keys,          \* idempotency keys
  LastVersion,   \* events of the aggregate: versions 1 .. LastVersion
  Unmappable,    \* versions that the staged mapping generation refuses
  ArchiveLimit,  \* MaxArchivedReplayEvents
  MaxCancels,    \* bound: Cancel calls of one behaviour
  MaxRevision,   \* bound: no worker takes up an operation beyond this revision
  MaxFaults      \* bound: crashes, store errors and failed generation builds

Versions == 1 .. LastVersion

ASSUME RebuildAssumption ==
  /\ LastVersion \in Nat /\ ArchiveLimit \in Nat
  /\ MaxCancels \in Nat /\ MaxRevision \in Nat /\ MaxFaults \in Nat
  /\ Unmappable \subseteq Versions

Runnable  == {"ACCEPTED", "RUNNING", "CANCEL_REQUESTED"}
Finished  == {"CANCELLED", "SUCCEEDED", "FAILED"}

VARIABLES
  \* API
  op,         \* op[o]: status and revision of the operation document
  created,    \* created[k]: receipt of Start under key k ({} or one operation)
  cancelled,  \* cancelled[k]: receipt of Cancel under key k ({} or one)
  call,       \* call[c]: the call c has under way ({} or one)
  cancels,
  \* workers
  pc, cur,    \* where the worker is, and its operation ({} or one)
  rev,        \* revision of the document the worker read last ("latest")
  staged,     \* revision of the document the worker saved last ("staged")
  todo,       \* archived versions still to be replayed
  item,       \* version the worker's replay is about to write
  top,        \* newest version of the second archive listing
  \* MongoDB
  archive,    \* versions in projection_event_archive
  applied,    \* versions marked APPLIED in the inbox
  checkpoint, \* version of the aggregate's checkpoint
  coll,       \* coll[s]: record version in collection s
  active,     \* operation of the ACTIVE read pointer ({} or one)
  retired,    \* whether a RETIRED read pointer exists
  \* the live projector's transaction
  live,       \* [version, checkpoint, coll, found] it has read ({} or one)
  faults

apiVars    == <<created, cancelled, call, cancels>>
workerVars == <<pc, cur, rev, staged, todo, item, top>>
dataVars   == <<archive, applied, checkpoint, coll, active, retired>>
vars == <<op, created, cancelled, call, cancels, pc, cur, rev, staged, todo,
          item, top, archive, applied, checkpoint, coll, active, retired, live, faults>>

\* Collections: "records", and one staging collection per operation.
Default == "records"
Collections == {Default} \cup Ops

\* ActiveCollection, activeRecordsCollection.
ActiveCollection == IF active = {} THEN Default ELSE CHOOSE o \in Ops : active = {o}

Calls == [kind : {"start"}, key : Keys]
         \cup [kind : {"cancel"}, key : Keys, op : Ops, status : Runnable, rev : Nat]

WorkerSteps == {"idle", "claim", "build", "check", "stage", "recheck", "list", "replay",
                "write", "stopped", "verify", "collect", "activate", "finish", "cancel", "fail", "failsave"}

\* Operations, workers, collections and the projector have the shape the code gives them.
TypeOK ==
  /\ op \in [Ops -> [status : {"NONE"} \cup Runnable \cup Finished, revision : Nat]]
  /\ created \in [Keys -> SUBSET Ops]
  /\ cancelled \in [Keys -> SUBSET [op : Ops, rev : Nat]]
  /\ call \in [Callers -> SUBSET Calls]
  /\ cancels \in 0 .. MaxCancels
  /\ pc \in [Workers -> WorkerSteps]
  /\ cur \in [Workers -> SUBSET Ops]
  /\ rev \in [Workers -> Nat] /\ staged \in [Workers -> Nat]
  /\ todo \in [Workers -> SUBSET Versions]
  /\ item \in [Workers -> 0 .. LastVersion] /\ top \in [Workers -> 0 .. LastVersion]
  /\ archive \in SUBSET Versions /\ applied \in SUBSET archive
  /\ checkpoint \in 0 .. LastVersion
  /\ coll \in [Collections -> 0 .. LastVersion]
  /\ active \in SUBSET Ops /\ Cardinality(active) <= 1 /\ retired \in BOOLEAN
  /\ live \in SUBSET [version : Versions, checkpoint : 0 .. LastVersion,
                      coll : Collections, found : 0 .. LastVersion]
  /\ faults \in 0 .. MaxFaults

Init ==
  /\ op = [o \in Ops |-> [status |-> "NONE", revision |-> 0]]
  /\ created = [k \in Keys |-> {}]
  /\ cancelled = [k \in Keys |-> {}]
  /\ call = [c \in Callers |-> {}]
  /\ cancels = 0
  /\ pc = [w \in Workers |-> "idle"]
  /\ cur = [w \in Workers |-> {}]
  /\ rev = [w \in Workers |-> 0]
  /\ staged = [w \in Workers |-> 0]
  /\ todo = [w \in Workers |-> {}]
  /\ item = [w \in Workers |-> 0]
  /\ top = [w \in Workers |-> 0]
  /\ archive = {} /\ applied = {}
  /\ checkpoint = 0
  /\ coll = [s \in Collections |-> 0]
  /\ active = {} /\ retired = FALSE
  /\ live = {}
  /\ faults = 0

Fault == faults < MaxFaults /\ faults' = faults + 1

\* SaveCAS: the document changes only at the revision it was read at.
Save(o, status) == op' = [op EXCEPT ![o] = [status |-> status, revision |-> @.revision + 1]]

-----------------------------------------------------------------------------
(* Start and Cancel. *)

Begin(c, request) == call' = [call EXCEPT ![c] = {request}]
Return(c) == call' = [call EXCEPT ![c] = {}]

\* findReceipt; an existing receipt is the answer.
Start(c, k) ==
  /\ call[c] = {}
  /\ created[k] = {}
  /\ Begin(c, [kind |-> "start", key |-> k])
  /\ UNCHANGED <<op, created, cancelled, cancels, workerVars, dataVars, live, faults>>

\* One transaction: the operation, its audit entry and the receipt.  A receipt
\* that another call has saved in the meantime aborts it.
StartCommit(c, r) ==
  /\ call[c] = {r} /\ r.kind = "start"
  /\ \/ /\ created[r.key] = {}
        /\ \E o \in Ops : /\ op[o].status = "NONE"
                          /\ Save(o, "ACCEPTED")
                          /\ created' = [created EXCEPT ![r.key] = {o}]
     \/ /\ created[r.key] # {}
        /\ UNCHANGED <<op, created>>
  /\ Return(c)
  /\ UNCHANGED <<cancelled, cancels, workerVars, dataVars, live, faults>>

\* The request hash of Cancel covers the operation's revision.
Receipt(r) == [op |-> r.op, rev |-> r.rev]

\* findReceipt: the answer is the receipt's when its hash is the request's, an
\* idempotency conflict otherwise.
Answered(k) == cancelled[k] # {}

\* Find, findReceipt and the status checks.
Cancel(c, k, o) ==
  /\ call[c] = {} /\ op[o].status # "NONE" /\ cancels < MaxCancels
  /\ cancels' = cancels + 1
  /\ \/ Answered(k) /\ UNCHANGED call
     \/ ~Answered(k) /\ op[o].status \in Finished /\ UNCHANGED call
     \/ /\ ~Answered(k) /\ op[o].status \in Runnable
        /\ Begin(c, [kind |-> "cancel", key |-> k, op |-> o,
                     status |-> op[o].status, rev |-> op[o].revision])
  /\ UNCHANGED <<op, created, cancelled, workerVars, dataVars, live, faults>>

\* Mutant: the status is written whatever happened since it was read.
CancelCommitBlindly(c, r) ==
  /\ call[c] = {r} /\ r.kind = "cancel" /\ r.status # "CANCEL_REQUESTED"
  /\ Save(r.op, IF r.status = "ACCEPTED" THEN "CANCELLED" ELSE "CANCEL_REQUESTED")
  /\ cancelled' = [cancelled EXCEPT ![r.key] = {Receipt(r)}]
  /\ Return(c)
  /\ UNCHANGED <<created, cancels, workerVars, dataVars, live, faults>>

\* One transaction: the status, an audit entry and the receipt.
CancelCommit(c, r) ==
  /\ call[c] = {r} /\ r.kind = "cancel" /\ r.status # "CANCEL_REQUESTED"
  /\ \/ /\ op[r.op].revision = r.rev /\ ~Answered(r.key)
        /\ Save(r.op, IF r.status = "ACCEPTED" THEN "CANCELLED" ELSE "CANCEL_REQUESTED")
        /\ cancelled' = [cancelled EXCEPT ![r.key] = {Receipt(r)}]
     \/ /\ op[r.op].revision # r.rev \/ Answered(r.key)
        /\ UNCHANGED <<op, cancelled>>
  /\ Return(c)
  /\ UNCHANGED <<created, cancels, workerVars, dataVars, live, faults>>

\* saveCancelReceipt: while a request is pending, a further call only adds its
\* receipt, outside a transaction and whatever the operation has become.
CancelReceipt(c, r) ==
  /\ call[c] = {r} /\ r.kind = "cancel" /\ r.status = "CANCEL_REQUESTED"
  /\ \/ /\ ~Answered(r.key)
        /\ cancelled' = [cancelled EXCEPT ![r.key] = {Receipt(r)}]
     \/ Answered(r.key) /\ UNCHANGED cancelled
  /\ Return(c)
  /\ UNCHANGED <<op, created, cancels, workerVars, dataVars, live, faults>>

-----------------------------------------------------------------------------
(* ProjectionRebuildService.process, one step per store access. *)

Goto(w, step) == pc' = [pc EXCEPT ![w] = step]

At(w, o, step) == pc[w] = step /\ cur[w] = {o}

\* process returns, with or without an error: the next poll starts afresh.
Leave(w) ==
  /\ Goto(w, "idle")
  /\ cur' = [cur EXCEPT ![w] = {}]
  /\ rev' = [rev EXCEPT ![w] = 0]
  /\ staged' = [staged EXCEPT ![w] = 0]
  /\ todo' = [todo EXCEPT ![w] = {}]
  /\ item' = [item EXCEPT ![w] = 0]
  /\ top' = [top EXCEPT ![w] = 0]

\* Mutant: an operation that is RUNNING is left to the worker that claimed it.
PollSkipsRunning(w, o) ==
  /\ pc[w] = "idle" /\ op[o].status \in {"ACCEPTED", "CANCEL_REQUESTED"}
  /\ op[o].revision <= MaxRevision
  /\ Goto(w, IF op[o].status = "ACCEPTED" THEN "claim" ELSE "cancel")
  /\ cur' = [cur EXCEPT ![w] = {o}]
  /\ rev' = [rev EXCEPT ![w] = op[o].revision]
  /\ UNCHANGED <<op, apiVars, staged, todo, item, top, dataVars, live, faults>>

\* ListRunnable, and the branch on the status it returned.
Poll(w, o) ==
  /\ pc[w] = "idle" /\ op[o].status \in Runnable
  /\ op[o].revision <= MaxRevision
  /\ Goto(w, CASE op[o].status = "ACCEPTED" -> "claim"
                [] op[o].status = "RUNNING" -> "build"
                [] OTHER -> "cancel")
  /\ cur' = [cur EXCEPT ![w] = {o}]
  /\ rev' = [rev EXCEPT ![w] = op[o].revision]
  /\ UNCHANGED <<op, apiVars, staged, todo, item, top, dataVars, live, faults>>

\* SaveCAS to a status, from the revision read last; the worker goes on at a
\* step, or leaves when the revision has changed.
CompareAndSave(w, o, status, next) ==
  \/ /\ op[o].revision = rev[w]
     /\ Save(o, status)
     /\ staged' = [staged EXCEPT ![w] = rev[w] + 1]
     /\ Goto(w, next)
     /\ UNCHANGED <<cur, rev, todo, item, top>>
  \/ /\ op[o].revision # rev[w]
     /\ Leave(w)
     /\ UNCHANGED op

Claim(w, o) ==
  /\ At(w, o, "claim")
  /\ CompareAndSave(w, o, "RUNNING", "build")
  /\ UNCHANGED <<apiVars, dataVars, live, faults>>

\* MappingGenerationBuilder.Build: an error of it ends in fail.
Build(w, o) ==
  /\ At(w, o, "build")
  /\ \/ Goto(w, "check") /\ UNCHANGED faults
     \/ Goto(w, "fail") /\ Fault
  /\ UNCHANGED <<op, apiVars, cur, rev, staged, todo, item, top, dataVars, live>>

\* Find, and what process does with a status that is no longer RUNNING.
CheckThen(w, o, next) ==
  \/ /\ op[o].status \in {"RUNNING", "CANCEL_REQUESTED"}
     /\ Goto(w, IF op[o].status = "RUNNING" THEN next ELSE "cancel")
     /\ rev' = [rev EXCEPT ![w] = op[o].revision]
     /\ UNCHANGED <<cur, staged, todo, item, top>>
  \/ /\ op[o].status \notin {"RUNNING", "CANCEL_REQUESTED"}
     /\ Leave(w)

Check(w, o) ==
  /\ \/ At(w, o, "check") /\ CheckThen(w, o, "stage")
     \/ At(w, o, "recheck") /\ CheckThen(w, o, "list")
     \/ At(w, o, "verify") /\ CheckThen(w, o, "collect")
     \/ At(w, o, "fail") /\ CheckThen(w, o, "failsave")
  /\ UNCHANGED <<op, apiVars, dataVars, live, faults>>

\* The staging generation is saved with the operation.
Stage(w, o) ==
  /\ At(w, o, "stage")
  /\ CompareAndSave(w, o, "RUNNING", "recheck")
  /\ UNCHANGED <<apiVars, dataVars, live, faults>>

\* MongoProjectionEventArchive.List: the archive, cut after archiveReplayPageSize
\* entries, one more than the limit.
Listings == {s \in SUBSET archive :
               \/ s = archive /\ Cardinality(s) <= ArchiveLimit + 1
               \/ Cardinality(s) = ArchiveLimit + 1}

\* Mutant: an archive of exactly the limit is refused.
ListRefusesFull(w, o) ==
  /\ At(w, o, "list")
  /\ \E entries \in Listings :
       \/ /\ Cardinality(entries) < ArchiveLimit
          /\ todo' = [todo EXCEPT ![w] = entries]
          /\ Goto(w, "replay")
       \/ /\ Cardinality(entries) >= ArchiveLimit
          /\ Goto(w, "fail")
          /\ UNCHANGED todo
  /\ UNCHANGED <<op, apiVars, cur, rev, staged, item, top, dataVars, live, faults>>

\* replay lists the archive, and refuses one that is larger than its window.
List(w, o) ==
  /\ At(w, o, "list")
  /\ \E entries \in Listings :
       \/ /\ Cardinality(entries) <= ArchiveLimit
          /\ todo' = [todo EXCEPT ![w] = entries]
          /\ Goto(w, "replay")
       \/ /\ Cardinality(entries) > ArchiveLimit
          /\ Goto(w, "fail")
          /\ UNCHANGED todo
  /\ UNCHANGED <<op, apiVars, cur, rev, staged, item, top, dataVars, live, faults>>

\* Mutant: every entry is written, whatever the staging collection holds.
ReplayUnordered(w, o) ==
  /\ At(w, o, "replay")
  /\ \/ /\ todo[w] = {}
        /\ Goto(w, "verify")
        /\ UNCHANGED <<todo, item>>
     \/ \E v \in todo[w] :
          /\ todo' = [todo EXCEPT ![w] = @ \ {v}]
          /\ item' = [item EXCEPT ![w] = v]
          /\ Goto(w, "write")
  /\ UNCHANGED <<op, apiVars, cur, rev, staged, top, dataVars, live, faults>>

\* replay, for the next entry in the order of occurrence: Find, Handle, and the
\* read of applyStaging.  Any status but RUNNING counts as a cancellation.
Replay(w, o) ==
  /\ At(w, o, "replay")
  /\ \/ /\ todo[w] = {}
        /\ Goto(w, "verify")
        /\ UNCHANGED <<todo, item>>
     \/ /\ todo[w] # {} /\ op[o].status # "RUNNING"
        /\ Goto(w, "stopped")
        /\ UNCHANGED <<todo, item>>
     \/ /\ op[o].status = "RUNNING"
        /\ \E v \in todo[w] :
             /\ todo' = [todo EXCEPT ![w] = @ \ {v}]
             /\ item' = [item EXCEPT ![w] = v]
             /\ Goto(w, IF v \in Unmappable THEN "fail"
                        ELSE IF coll[o] >= v THEN "replay" ELSE "write")
  /\ UNCHANGED <<op, apiVars, cur, rev, staged, top, dataVars, live, faults>>

\* The replacement of applyStaging, with no regard to what happened since its read.
Write(w, o) ==
  /\ At(w, o, "write")
  /\ coll' = [coll EXCEPT ![o] = item[w]]
  /\ Goto(w, "replay")
  /\ UNCHANGED <<op, apiVars, cur, rev, staged, todo, item, top, archive, applied,
                 checkpoint, active, retired, live, faults>>

\* After a cancelled replay process reads the operation again, and finishes it
\* as cancelled unless it is so already.
Stopped(w, o) ==
  /\ At(w, o, "stopped")
  /\ \/ /\ op[o].status = "CANCELLED"
        /\ Leave(w)
     \/ /\ op[o].status # "CANCELLED"
        /\ rev' = [rev EXCEPT ![w] = op[o].revision]
        /\ Goto(w, "cancel")
        /\ UNCHANGED <<cur, staged, todo, item, top>>
  /\ UNCHANGED <<op, apiVars, dataVars, live, faults>>

Newest(s) == IF s = {} THEN 0 ELSE CHOOSE v \in s : \A u \in s : u <= v

\* activateReadPointers lists the archive once more for the checkpoints.
Collect(w, o) ==
  /\ At(w, o, "collect")
  /\ \E entries \in Listings : top' = [top EXCEPT ![w] = Newest(entries)]
  /\ Goto(w, "activate")
  /\ UNCHANGED <<op, apiVars, cur, rev, staged, todo, item, dataVars, live, faults>>

\* Mutant: the checkpoint becomes the newest one that was listed, older or not.
ActivateRewinds(w, o) ==
  /\ At(w, o, "activate")
  /\ \/ /\ active = {} \/ ~retired
        /\ retired' = (retired \/ active # {})
        /\ active' = {o}
        /\ checkpoint' = top[w]
        /\ Goto(w, "finish")
     \/ /\ active # {} /\ retired
        /\ Goto(w, "fail")
        /\ UNCHANGED <<active, retired, checkpoint>>
  /\ UNCHANGED <<op, apiVars, cur, rev, staged, todo, item, top, archive, applied, coll,
                 live, faults>>

\* ActivateManyWithCheckpoints, one transaction: the ACTIVE pointer becomes
\* RETIRED, the new one is inserted, and the checkpoint moves forward only.  The
\* unique index covers the status, so a second RETIRED pointer is refused.
Activate(w, o) ==
  /\ At(w, o, "activate")
  /\ \/ /\ active = {} \/ ~retired
        /\ retired' = (retired \/ active # {})
        /\ active' = {o}
        /\ checkpoint' = IF top[w] > checkpoint THEN top[w] ELSE checkpoint
        /\ Goto(w, "finish")
     \/ /\ active # {} /\ retired
        /\ Goto(w, "fail")
        /\ UNCHANGED <<active, retired, checkpoint>>
  /\ UNCHANGED <<op, apiVars, cur, rev, staged, todo, item, top, archive, applied, coll,
                 live, faults>>

\* The last SaveCAS, at the revision of the staging save.
Finish(w, o) ==
  /\ At(w, o, "finish")
  /\ IF op[o].revision = staged[w] THEN Save(o, "SUCCEEDED") ELSE UNCHANGED op
  /\ Leave(w)
  /\ UNCHANGED <<apiVars, dataVars, live, faults>>

\* finishCancelled, and the save of fail.
Conclude(w, o) ==
  /\ pc[w] \in {"cancel", "failsave"} /\ cur[w] = {o}
  /\ IF op[o].revision = rev[w]
     THEN Save(o, IF pc[w] = "cancel" THEN "CANCELLED" ELSE "FAILED")
     ELSE UNCHANGED op
  /\ Leave(w)
  /\ UNCHANGED <<apiVars, dataVars, live, faults>>

\* An error of the archive, the staging collection or the pointer transaction is
\* left to fail.  At "finish" the transaction has committed and its outcome was
\* unknown to the driver.
StoreFails(w) ==
  /\ pc[w] \in {"list", "replay", "write", "collect", "activate", "finish"}
  /\ Goto(w, "fail")
  /\ Fault
  /\ UNCHANGED <<op, apiVars, cur, rev, staged, todo, item, top, dataVars, live>>

\* A crash, or an error of the operations store, anywhere: process starts over
\* at the next poll.
Interrupted(w) ==
  /\ pc[w] # "idle"
  /\ Leave(w)
  /\ Fault
  /\ UNCHANGED <<op, apiVars, dataVars, live>>

-----------------------------------------------------------------------------
(* The live projector. *)

\* Handle archives the event before anything else.
LiveArchive(v) ==
  /\ v \notin archive
  /\ archive' = archive \cup {v}
  /\ UNCHANGED <<op, apiVars, workerVars, applied, checkpoint, coll, active, retired,
                 live, faults>>

\* Apply starts its transaction: what it decides on and where it will write.
LiveRead(v) ==
  /\ live = {} /\ v \in archive \ applied /\ v \notin Unmappable
  /\ live' = {[version |-> v, checkpoint |-> checkpoint, coll |-> ActiveCollection,
               found |-> coll[ActiveCollection]]}
  /\ UNCHANGED <<op, apiVars, workerVars, dataVars, faults>>

\* The transaction commits unless a document it writes has changed since.  A
\* stale event is only marked; one beyond a gap is left to be delivered again.
LiveCommit(t) ==
  LET decision == classifyCheckpoint([version |-> t.checkpoint], t.version) IN
  /\ live = {t}
  /\ \/ /\ decision = "stale"
        /\ applied' = applied \cup {t.version}
        /\ UNCHANGED <<checkpoint, coll>>
     \/ /\ decision = "gap"
        /\ UNCHANGED <<applied, checkpoint, coll>>
     \/ /\ decision = "apply" /\ checkpoint = t.checkpoint /\ coll[t.coll] = t.found
        /\ applied' = applied \cup {t.version}
        /\ checkpoint' = t.version
        /\ coll' = [coll EXCEPT ![t.coll] = t.version]
     \/ /\ decision = "apply" /\ (checkpoint # t.checkpoint \/ coll[t.coll] # t.found)
        /\ UNCHANGED <<applied, checkpoint, coll>>
  /\ live' = {}
  /\ UNCHANGED <<op, apiVars, workerVars, archive, active, retired, faults>>

-----------------------------------------------------------------------------
ApiStep(c) ==
  \/ \E k \in Keys : Start(c, k) \/ \E o \in Ops : Cancel(c, k, o)
  \/ \E r \in call[c] : StartCommit(c, r) \/ CancelCommit(c, r) \/ CancelReceipt(c, r)

WorkerStep(w) ==
  \E o \in Ops :
    \/ Poll(w, o)    \/ Claim(w, o)   \/ Build(w, o)    \/ Check(w, o)
    \/ Stage(w, o)   \/ List(w, o)    \/ Replay(w, o)   \/ Write(w, o)
    \/ Stopped(w, o) \/ Collect(w, o) \/ Activate(w, o) \/ Finish(w, o)
    \/ Conclude(w, o)

LiveStep == \/ \E v \in Versions : LiveArchive(v) \/ LiveRead(v)
            \/ \E t \in live : LiveCommit(t)

Next == \/ \E c \in Callers : ApiStep(c)
        \/ \E w \in Workers : WorkerStep(w) \/ Interrupted(w) \/ StoreFails(w)
        \/ LiveStep

Spec == Init /\ [][Next]_vars

-----------------------------------------------------------------------------
(* Properties. *)

\* The documented state machine (docs/phase-2-rebuild-design.md:41-49): one
\* revision per change, and what an operation ended as is final.  An operation is
\* created together with the receipt of a key that had none, so callers that race
\* with one key start one rebuild.
Follows == [NONE |-> {"ACCEPTED"}, ACCEPTED |-> {"RUNNING", "CANCELLED"},
            RUNNING |-> {"RUNNING", "SUCCEEDED", "FAILED", "CANCEL_REQUESTED"},
            CANCEL_REQUESTED |-> {"CANCELLED"},
            CANCELLED |-> {}, SUCCEEDED |-> {}, FAILED |-> {}]
OperationStep(o) ==
  op'[o] # op[o] => /\ op'[o].status \in Follows[op[o].status]
                    /\ op'[o].revision = op[o].revision + 1
                    /\ op[o].status = "NONE" =>
                         \E k \in Keys : created[k] = {} /\ created'[k] = {o}

\* The collection that reads go to is never behind the checkpoint: no event that
\* the live projector would skip as stale is missing from the read model, also
\* across a pointer switch.
VisibleCoversCheckpoint == coll[ActiveCollection] >= checkpoint

\* Neither a pointer switch nor a live transaction that raced with it moves the
\* checkpoint back, so no event is applied over a newer one.
CheckpointNeverMovesBack == [][checkpoint' >= checkpoint]_vars

\* A rebuild fails only for a cause: a fault, an event that the generation
\* refuses, or an archive beyond its window.
FailsOnlyForCause ==
  (\E o \in Ops : op[o].status = "FAILED") =>
    faults > 0 \/ archive \cap Unmappable # {} \/ Cardinality(archive) > ArchiveLimit
=============================================================================
