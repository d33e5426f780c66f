----------------------- MODULE ProjectionRebuildProofs -----------------------
(* Proofs about ProjectionRebuild, for every set of operations, workers, callers   *)
(* and keys, any number of events and any limits.                                  *)
EXTENDS MCProjectionRebuild, FiniteSetTheorems, WellFoundedInduction, TLAPS

\* The live projector's transaction is about an archived event, and one pointer is ACTIVE.
RebuildTypes ==
  TypeOK /\ (\A t \in live : t.version \in archive) /\ \A o, x \in active : o = x

\* A call that read an operation knows its status as long as the revision stands.
CallsKnow ==
  \A c \in Callers : \A r \in call[c] : r.kind = "cancel" =>
    /\ r.rev <= op[r.op].revision
    /\ op[r.op].revision = r.rev => op[r.op].status = r.status

\* Steps of a worker that follow its save of the staging generation.
AfterStage == {"recheck", "list", "replay", "write", "stopped", "verify", "collect", "activate",
               "finish"}

\* What an operation can be, as far as a worker at a step can tell.
Seen(step) ==
  CASE step = "claim" -> {"ACCEPTED", "RUNNING", "CANCEL_REQUESTED"} \cup Finished
    [] step \in {"stopped", "cancel"} -> {"CANCEL_REQUESTED"} \cup Finished
    [] OTHER -> {"RUNNING", "CANCEL_REQUESTED"} \cup Finished

\* A worker too knows more, from the document it read or saved last, while that one stands.
WorkerKnows(w) ==
  pc[w] # "idle" =>
    \E o \in Ops :
      /\ cur[w] = {o} /\ op[o].status \in Seen(pc[w]) /\ rev[w] <= op[o].revision
      /\ pc[w] = "claim" /\ op[o].revision = rev[w] => op[o].status = "ACCEPTED"
      /\ pc[w] \in {"stage", "failsave"} /\ op[o].revision = rev[w] => op[o].status = "RUNNING"
      /\ pc[w] = "cancel" /\ op[o].revision = rev[w] => op[o].status # "CANCELLED"
      /\ pc[w] \in AfterStage =>
           /\ staged[w] <= op[o].revision
           /\ op[o].revision = staged[w] => op[o].status = "RUNNING"

\* What the operation of a worker can be while no other worker is about.
Expected(step) ==
  CASE step = "claim" -> {"ACCEPTED", "CANCELLED"}
    [] step \in {"stopped", "cancel"} -> {"CANCEL_REQUESTED"}
    [] OTHER -> {"RUNNING", "CANCEL_REQUESTED"}

WorkerOwns(w) == pc[w] # "idle" => \A o \in cur[w] : op[o].status \in Expected(pc[w])

OneAtATime == \A w, x \in Workers : pc[w] # "idle" /\ pc[x] # "idle" => w = x

KnowsInv == CallsKnow /\ \A w \in Workers : WorkerKnows(w)
OwnsInv == \A w \in Workers : WorkerOwns(w)

\* While the projector rests, a worker that is past its listing has what is archived in
\* its staging collection or still to replay, and a switch finds all of it there.
CollectionHolds(w) ==
  pc[w] \in {"replay", "write", "verify", "collect", "activate"} =>
    \A o \in cur[w] :
      /\ Cardinality(archive) <= ArchiveLimit
      /\ pc[w] = "replay" => \A v \in archive : v \in todo[w] \/ v <= coll[o]
      /\ pc[w] = "write" => /\ coll[o] < item[w]
                            /\ \A v \in archive : v \in todo[w] \/ v <= item[w]
      /\ pc[w] \in {"verify", "collect", "activate"} => \A v \in archive : v <= coll[o]
      /\ pc[w] = "activate" => /\ top[w] \in archive \cup {0}
                               /\ \A v \in archive : v <= top[w]

\* The checkpoint is the version of an archived event, the visible collection holds it, and
\* a transaction that may still apply its event writes to the visible collection.
CoverInv ==
  /\ checkpoint \in archive \cup {0}
  /\ VisibleCoversCheckpoint
  /\ \A t \in live : checkpoint = t.checkpoint /\ t.version = t.checkpoint + 1 =>
       t.coll = ActiveCollection
  /\ \A w \in Workers : CollectionHolds(w)

-----------------------------------------------------------------------------
(* Types. *)

OperationSet == [status : {"NONE"} \cup Runnable \cup Finished, revision : Nat]
ApiTypes ==
  /\ created \in [Keys -> SUBSET Ops]
  /\ cancelled \in [Keys -> SUBSET [op : Ops, rev : Nat]]
  /\ call \in [Callers -> SUBSET Calls]
  /\ cancels \in 0 .. MaxCancels
WorkerTypes ==
  /\ pc \in [Workers -> WorkerSteps]
  /\ cur \in [Workers -> SUBSET Ops]
  /\ rev \in [Workers -> Nat] /\ staged \in [Workers -> Nat]
  /\ todo \in [Workers -> SUBSET Versions]
  /\ item \in [Workers -> 0 .. LastVersion] /\ top \in [Workers -> 0 .. LastVersion]
DataTypes ==
  /\ archive \in SUBSET Versions /\ applied \in SUBSET archive
  /\ checkpoint \in 0 .. LastVersion
  /\ coll \in [Collections -> 0 .. LastVersion]
  /\ active \in SUBSET Ops /\ Cardinality(active) <= 1 /\ retired \in BOOLEAN
  /\ \A o, x \in active : o = x
LiveSet == [version : Versions, checkpoint : 0 .. LastVersion, coll : Collections,
            found : 0 .. LastVersion]
LiveTypes == live \in SUBSET LiveSet /\ \A t \in live : t.version \in archive

LEMMA TypesInParts ==
  RebuildTypes <=> /\ op \in [Ops -> OperationSet] /\ ApiTypes /\ WorkerTypes /\ DataTypes
                   /\ LiveTypes /\ faults \in 0 .. MaxFaults
  BY DEF RebuildTypes, TypeOK, OperationSet, ApiTypes, WorkerTypes, DataTypes, LiveTypes, LiveSet

\* A finite set of versions has a newest one.
LEMMA NewestExists ==
  ASSUME NEW s \in SUBSET Versions, s # {}
  PROVE  Newest(s) \in s /\ \A u \in s : u <= Newest(s)
  <1> DEFINE B == {n \in Nat : \A u \in s : u <= n}
             R == {ss \in Nat \X Nat : ss[1] < ss[2]}
  <1>0. LastVersion \in Nat /\ s \subseteq Nat
    BY RebuildAssumption DEF Versions
  <1>1. B \subseteq Nat /\ B # {}
    <2>1. \A u \in s : u <= LastVersion
      BY <1>0 DEF Versions
    <2>2. LastVersion \in B
      BY <1>0, <2>1
    <2> QED
      BY <2>2
  <1>2. IsWellFoundedOn(R, Nat)
    BY NatLessThanWellFounded DEF OpToRel, R
  <1>3. PICK x \in B : \A y \in B : ~(<<y, x>> \in R)
    <2> HIDE DEF R, B
    <2> QED
      BY <1>1, <1>2, WFMin
  <1>4. \A y \in B : ~(y < x)
    <2> SUFFICES ASSUME NEW y \in B, y < x PROVE FALSE
      OBVIOUS
    <2>1. <<y, x>> \in R
      BY <1>1
    <2> QED
      BY <1>3, <2>1
  <1>5. x \in s
    <2> SUFFICES ASSUME x \notin s PROVE FALSE
      OBVIOUS
    <2>1. PICK u \in s : TRUE
      OBVIOUS
    <2>2. \A v \in s : v \in Nat /\ v <= x /\ v # x /\ x \in Nat /\ v > 0
      BY <1>0 DEF Versions
    <2>3. x - 1 \in Nat /\ \A v \in s : v <= x - 1
      BY <2>1, <2>2
    <2>4. x - 1 \in B
      BY <2>3
    <2> QED
      BY <1>4, <2>2, <2>3, <2>4
  <1>6. \A u \in s : u <= x
    OBVIOUS
  <1> QED
    BY <1>5, <1>6 DEF Newest

LEMMA SaveType ==
  ASSUME op \in [Ops -> OperationSet], NEW o \in Ops,
         NEW status \in Runnable \cup Finished, Save(o, status)
  PROVE  /\ op' \in [Ops -> OperationSet]
         /\ op'[o].status = status /\ op'[o].revision = op[o].revision + 1
         /\ \A x \in Ops : x # o => op'[x] = op[x]
  BY DEF Save, OperationSet

LEMMA LeaveType ==
  ASSUME WorkerTypes, NEW w \in Workers, Leave(w)
  PROVE  WorkerTypes' /\ pc'[w] = "idle" /\ cur'[w] = {}
  BY RebuildAssumption DEF WorkerTypes, Leave, Goto, WorkerSteps

LEMMA ApiStepTypes ==
  ASSUME RebuildTypes, NEW c \in Callers, ApiStep(c)
  PROVE  RebuildTypes'
  <1>0. /\ op \in [Ops -> OperationSet] /\ ApiTypes /\ WorkerTypes /\ DataTypes
        /\ LiveTypes /\ faults \in 0 .. MaxFaults
    BY TypesInParts
  <1>1. UNCHANGED <<workerVars, dataVars, live, faults>>
    BY DEF ApiStep, Start, Cancel, StartCommit, CancelCommit, CancelReceipt
  <1>2. WorkerTypes' /\ DataTypes' /\ LiveTypes' /\ faults' \in 0 .. MaxFaults
    BY <1>0, <1>1 DEF WorkerTypes, DataTypes, LiveTypes, workerVars, dataVars
  <1>3. ASSUME NEW k \in Keys, Start(c, k) PROVE op' \in [Ops -> OperationSet] /\ ApiTypes'
    <2>1. [kind |-> "start", key |-> k] \in Calls
      BY DEF Calls
    <2> QED
      BY <1>0, <1>3, <2>1 DEF Start, Begin, ApiTypes
  <1>4. ASSUME NEW k \in Keys, NEW o \in Ops, Cancel(c, k, o)
        PROVE  op' \in [Ops -> OperationSet] /\ ApiTypes'
    <2>1. op[o].status \in Runnable =>
            [kind |-> "cancel", key |-> k, op |-> o, status |-> op[o].status,
             rev |-> op[o].revision] \in Calls
      BY <1>0 DEF Calls, OperationSet
    <2>2. call' \in [Callers -> SUBSET Calls]
      BY <1>0, <1>4, <2>1 DEF Cancel, Begin, ApiTypes
    <2>3. cancels' \in 0 .. MaxCancels
      BY <1>0, <1>4, RebuildAssumption DEF Cancel, ApiTypes
    <2> QED
      BY <1>0, <1>4, <2>2, <2>3 DEF Cancel, ApiTypes
  <1>5. ASSUME NEW r \in call[c], StartCommit(c, r)
        PROVE  op' \in [Ops -> OperationSet] /\ ApiTypes'
    <2>1. call' \in [Callers -> SUBSET Calls]
      BY <1>0, <1>5 DEF StartCommit, Return, ApiTypes
    <2>2. op' \in [Ops -> OperationSet]
      BY <1>0, <1>5, SaveType DEF StartCommit, Runnable
    <2>3. created' \in [Keys -> SUBSET Ops]
      BY <1>0, <1>5 DEF StartCommit, ApiTypes
    <2> QED
      BY <1>0, <1>5, <2>1, <2>2, <2>3 DEF StartCommit, ApiTypes
  <1>6. ASSUME NEW r \in call[c], CancelCommit(c, r) \/ CancelReceipt(c, r)
        PROVE  op' \in [Ops -> OperationSet] /\ ApiTypes'
    <2>0. r \in Calls /\ r.kind = "cancel"
      BY <1>0, <1>6 DEF ApiTypes, CancelCommit, CancelReceipt
    <2>1. r.op \in Ops /\ r.rev \in Nat
      BY <2>0 DEF Calls
    <2>2. call' \in [Callers -> SUBSET Calls]
      BY <1>0, <1>6 DEF CancelCommit, CancelReceipt, Return, ApiTypes
    <2>3. op' \in [Ops -> OperationSet]
      BY <1>0, <1>6, <2>1, SaveType DEF CancelCommit, CancelReceipt, Runnable, Finished
    <2>4. cancelled' \in [Keys -> SUBSET [op : Ops, rev : Nat]]
      BY <1>0, <1>6, <2>1 DEF CancelCommit, CancelReceipt, ApiTypes, Receipt
    <2> QED
      BY <1>0, <1>6, <2>2, <2>3, <2>4 DEF CancelCommit, CancelReceipt, ApiTypes
  <1>7. op' \in [Ops -> OperationSet] /\ ApiTypes'
    BY <1>3, <1>4, <1>5, <1>6 DEF ApiStep
  <1>8. RebuildTypes' <=> (/\ op \in [Ops -> OperationSet] /\ ApiTypes /\ WorkerTypes /\ DataTypes
                           /\ LiveTypes /\ faults \in 0 .. MaxFaults)'
    BY TypesInParts, PTL
  <1> QED
    BY <1>2, <1>7, <1>8

LEMMA LiveStepTypes ==
  ASSUME RebuildTypes, LiveStep
  PROVE  RebuildTypes'
  <1>0. /\ op \in [Ops -> OperationSet] /\ ApiTypes /\ WorkerTypes /\ DataTypes
        /\ LiveTypes /\ faults \in 0 .. MaxFaults
    BY TypesInParts
  <1>1. UNCHANGED <<op, apiVars, workerVars, faults, active, retired>>
    BY DEF LiveStep, LiveArchive, LiveRead, LiveCommit, dataVars
  <1>2. op' \in [Ops -> OperationSet] /\ ApiTypes' /\ WorkerTypes' /\ faults' \in 0 .. MaxFaults
    BY <1>0, <1>1 DEF WorkerTypes, ApiTypes, workerVars, apiVars
  <1>3. ASSUME NEW v \in Versions, LiveArchive(v) PROVE DataTypes' /\ LiveTypes'
    BY <1>0, <1>3 DEF LiveArchive, DataTypes, LiveTypes
  <1>4. ASSUME NEW v \in Versions, LiveRead(v) PROVE DataTypes' /\ LiveTypes'
    <2>1. ActiveCollection \in Collections
      <3>1. CASE active = {}
        BY <3>1 DEF ActiveCollection, Collections
      <3>2. CASE active # {}
        <4>1. PICK o \in Ops : active = {o}
          BY <1>0, <3>2 DEF DataTypes
        <4>2. ActiveCollection = o
          BY <3>2, <4>1 DEF ActiveCollection
        <4> QED
          BY <4>2 DEF Collections
      <3> QED
        BY <3>1, <3>2
    <2> QED
      BY <1>0, <1>4, <2>1 DEF LiveRead, DataTypes, LiveTypes, LiveSet, dataVars
  <1>5. ASSUME NEW t \in live, LiveCommit(t) PROVE DataTypes' /\ LiveTypes'
    <2>1. /\ t.version \in Versions /\ t.version \in archive /\ t.coll \in Collections
          /\ t.version \in 0 .. LastVersion
      BY <1>0 DEF LiveTypes, LiveSet, Versions
    <2>2. applied' \in {applied, applied \cup {t.version}} /\ archive' = archive
          /\ checkpoint' \in {checkpoint, t.version} /\ live' = {}
      BY <1>5 DEF LiveCommit
    <2>3. coll' = coll \/ coll' = [coll EXCEPT ![t.coll] = t.version]
      BY <1>5 DEF LiveCommit
    <2>4. coll' \in [Collections -> 0 .. LastVersion]
      BY <1>0, <2>1, <2>3 DEF DataTypes
    <2>5. applied' \in SUBSET archive' /\ archive' \in SUBSET Versions
          /\ checkpoint' \in 0 .. LastVersion
      BY <1>0, <2>1, <2>2 DEF DataTypes
    <2>6. active' = active /\ retired' = retired
      BY <1>1
    <2>7. DataTypes'
      BY <1>0, <2>4, <2>5, <2>6 DEF DataTypes
    <2> QED
      BY <2>2, <2>7 DEF LiveTypes
  <1>6. DataTypes' /\ LiveTypes'
    BY <1>3, <1>4, <1>5 DEF LiveStep
  <1>8. RebuildTypes' <=> (/\ op \in [Ops -> OperationSet] /\ ApiTypes /\ WorkerTypes /\ DataTypes
                           /\ LiveTypes /\ faults \in 0 .. MaxFaults)'
    BY TypesInParts, PTL
  <1> QED
    BY <1>2, <1>6, <1>8
\* Steps of a worker other than leaving.
LEMMA GoesOn ==
  ASSUME WorkerTypes, NEW w \in Workers, NEW step \in WorkerSteps, Goto(w, step)
  PROVE  pc' \in [Workers -> WorkerSteps] /\ pc'[w] = step
  BY DEF WorkerTypes, Goto

LEMMA WorkerStepTypes ==
  ASSUME RebuildTypes, NEW w \in Workers, WorkerStep(w) \/ Interrupted(w) \/ StoreFails(w)
  PROVE  RebuildTypes'
  <1>0. /\ op \in [Ops -> OperationSet] /\ ApiTypes /\ WorkerTypes /\ DataTypes
        /\ LiveTypes /\ faults \in 0 .. MaxFaults
    BY TypesInParts
  <1> USE DEF WorkerSteps
  <1>1. ASSUME NEW o \in Ops, NEW status \in Runnable \cup Finished, NEW next \in WorkerSteps,
               CompareAndSave(w, o, status, next)
        PROVE  op' \in [Ops -> OperationSet] /\ WorkerTypes'
    <2>1. CASE Leave(w) /\ UNCHANGED op
      BY <1>0, <2>1, LeaveType
    <2>2. CASE /\ Save(o, status) /\ staged' = [staged EXCEPT ![w] = rev[w] + 1]
               /\ Goto(w, next) /\ UNCHANGED <<cur, rev, todo, item, top>>
      BY <1>0, <2>2, SaveType, GoesOn DEF WorkerTypes
    <2> QED
      BY <1>1, <2>1, <2>2 DEF CompareAndSave
  <1>2. ASSUME NEW o \in Ops, NEW next \in WorkerSteps, CheckThen(w, o, next) PROVE WorkerTypes'
    <2>1. CASE Leave(w)
      BY <1>0, <2>1, LeaveType
    <2>2. ASSUME NEW step \in WorkerSteps, Goto(w, step), rev' = [rev EXCEPT ![w] = op[o].revision],
                 UNCHANGED <<cur, staged, todo, item, top>>
          PROVE  WorkerTypes'
      BY <1>0, <2>2, GoesOn DEF WorkerTypes, OperationSet
    <2> QED
      BY <1>2, <2>1, <2>2 DEF CheckThen
  <1>3. ASSUME NEW o \in Ops, Poll(w, o) PROVE WorkerTypes'
    <2>1. \E step \in WorkerSteps : Goto(w, step)
      BY <1>3 DEF Poll
    <2>2. cur' \in [Workers -> SUBSET Ops] /\ rev' \in [Workers -> Nat]
      BY <1>0, <1>3 DEF Poll, WorkerTypes, OperationSet
    <2> QED
      BY <1>0, <1>3, <2>1, <2>2, GoesOn DEF Poll, WorkerTypes
  <1>4. ASSUME NEW o \in Ops, Claim(w, o) \/ Stage(w, o)
        PROVE  op' \in [Ops -> OperationSet] /\ WorkerTypes'
    BY <1>1, <1>4 DEF Claim, Stage, Runnable
  <1>5. ASSUME NEW o \in Ops, Build(w, o) \/ StoreFails(w) PROVE WorkerTypes'
    <2>1. \E step \in WorkerSteps : Goto(w, step)
      BY <1>5 DEF Build, StoreFails
    <2> QED
      BY <1>0, <1>5, <2>1, GoesOn DEF Build, StoreFails, WorkerTypes
  <1>6. ASSUME NEW o \in Ops, Check(w, o) PROVE WorkerTypes'
    BY <1>2, <1>6 DEF Check
  <1>7. ASSUME NEW o \in Ops, List(w, o) PROVE WorkerTypes'
    <2>1. \E step \in WorkerSteps : Goto(w, step)
      BY <1>7 DEF List
    <2>2. todo' \in [Workers -> SUBSET Versions]
      BY <1>0, <1>7 DEF List, Listings, WorkerTypes, DataTypes
    <2> QED
      BY <1>0, <1>7, <2>1, <2>2, GoesOn DEF List, WorkerTypes
  <1>8. ASSUME NEW o \in Ops, Replay(w, o) PROVE WorkerTypes'
    <2>1. \E step \in WorkerSteps : Goto(w, step)
      BY <1>8 DEF Replay
    <2>2. todo' = todo \/ \E v \in todo[w] : todo' = [todo EXCEPT ![w] = @ \ {v}]
      BY <1>8 DEF Replay
    <2>3. item' = item \/ \E v \in todo[w] : item' = [item EXCEPT ![w] = v]
      BY <1>8 DEF Replay
    <2>4. \A v \in todo[w] : v \in 0 .. LastVersion
      BY <1>0 DEF WorkerTypes, Versions
    <2>5. todo' \in [Workers -> SUBSET Versions]
      BY <1>0, <2>2 DEF WorkerTypes
    <2>6. item' \in [Workers -> 0 .. LastVersion]
      BY <1>0, <2>3, <2>4 DEF WorkerTypes
    <2> QED
      BY <1>0, <1>8, <2>1, <2>5, <2>6, GoesOn DEF Replay, WorkerTypes
  <1>9. ASSUME NEW o \in Ops, Write(w, o) PROVE WorkerTypes' /\ DataTypes'
    <2>1. coll' \in [Collections -> 0 .. LastVersion]
      BY <1>0, <1>9 DEF Write, WorkerTypes, DataTypes, Collections
    <2>2. Goto(w, "replay")
      BY <1>9 DEF Write
    <2>3. pc' \in [Workers -> WorkerSteps]
      BY <1>0, <2>2, GoesOn
    <2>4. DataTypes'
      BY <1>0, <1>9, <2>1 DEF Write, DataTypes
    <2> QED
      BY <1>0, <1>9, <2>3, <2>4 DEF Write, WorkerTypes
  <1>10. ASSUME NEW o \in Ops, Stopped(w, o) PROVE WorkerTypes'
    <2>1. CASE Leave(w)
      BY <1>0, <2>1, LeaveType
    <2>2. CASE /\ rev' = [rev EXCEPT ![w] = op[o].revision] /\ Goto(w, "cancel")
               /\ UNCHANGED <<cur, staged, todo, item, top>>
      BY <1>0, <2>2, GoesOn DEF WorkerTypes, OperationSet
    <2> QED
      BY <1>10, <2>1, <2>2 DEF Stopped
  <1>11. ASSUME NEW o \in Ops, Collect(w, o) PROVE WorkerTypes'
    <2>1. Goto(w, "activate")
      BY <1>11 DEF Collect
    <2>2. PICK entries \in Listings : top' = [top EXCEPT ![w] = Newest(entries)]
      BY <1>11 DEF Collect
    <2>3. Newest(entries) \in 0 .. LastVersion
      <3>1. entries \in SUBSET Versions
        BY <1>0 DEF Listings, DataTypes
      <3>2. CASE entries = {}
        BY <3>2, RebuildAssumption DEF Newest
      <3>3. CASE entries # {}
        <4>1. Newest(entries) \in Versions
          BY <3>1, <3>3, NewestExists
        <4> QED
          BY <4>1, RebuildAssumption DEF Versions
      <3> QED
        BY <3>2, <3>3
    <2> QED
      BY <1>0, <1>11, <2>1, <2>2, <2>3, GoesOn DEF Collect, WorkerTypes
  <1>12. ASSUME NEW o \in Ops, Activate(w, o) PROVE WorkerTypes' /\ DataTypes'
    <2>1. \E step \in WorkerSteps : Goto(w, step)
      BY <1>12 DEF Activate
    <2>2. WorkerTypes'
      BY <1>0, <1>12, <2>1, GoesOn DEF Activate, WorkerTypes
    <2>3. active' = active \/ active' = {o}
      BY <1>12 DEF Activate
    <2>4. checkpoint' = checkpoint \/ checkpoint' = top[w]
      BY <1>12 DEF Activate
    <2>5. retired' = retired \/ retired' = (retired \/ active # {})
      BY <1>12 DEF Activate
    <2>6. retired' \in BOOLEAN
      BY <1>0, <2>5, Zenon DEF DataTypes
    <2>7. Cardinality({o}) = 1
      BY FS_Singleton
    <2>8. active' \in SUBSET Ops /\ Cardinality(active') <= 1 /\ \A x, y \in active' : x = y
      BY <1>0, <2>3, <2>7 DEF DataTypes
    <2>9. checkpoint' \in 0 .. LastVersion
      BY <1>0, <2>4 DEF DataTypes, WorkerTypes
    <2>10. archive' = archive /\ applied' = applied /\ coll' = coll
      BY <1>12 DEF Activate
    <2> QED
      BY <1>0, <2>2, <2>6, <2>8, <2>9, <2>10 DEF DataTypes
  <1>13. ASSUME NEW o \in Ops, Finish(w, o) \/ Conclude(w, o)
         PROVE  op' \in [Ops -> OperationSet] /\ WorkerTypes'
    <2>1. op' = op \/ \E status \in Runnable \cup Finished : Save(o, status)
      BY <1>13 DEF Finish, Conclude, Finished
    <2>2. Leave(w)
      BY <1>13 DEF Finish, Conclude
    <2> QED
      BY <1>0, <2>1, <2>2, SaveType, LeaveType
  <1> HIDE DEF WorkerSteps
  <1>15. op' \in [Ops -> OperationSet]
    BY <1>0, <1>4, <1>13 DEF WorkerStep, Interrupted, StoreFails, Poll, Build, Check, List, Replay,
       Write, Stopped, Collect, Activate
  <1>16. WorkerTypes'
    <2>1. CASE StoreFails(w)
      BY <1>0, <2>1, GoesOn DEF StoreFails, WorkerTypes, WorkerSteps
    <2> QED
      BY <1>3, <1>4, <1>5, <1>6, <1>7, <1>8, <1>9, <1>10, <1>11, <1>12, <1>13, <2>1,
         LeaveType, <1>0 DEF WorkerStep, Interrupted
  <1>17. DataTypes'
    <2>1. ASSUME UNCHANGED dataVars PROVE DataTypes'
      BY <1>0, <2>1 DEF DataTypes, dataVars
    <2> QED
      BY <1>9, <1>12, <2>1 DEF WorkerStep, Interrupted, StoreFails, Poll, Build, Check, List, Replay,
         Stopped, Collect, Claim, Stage, Finish, Conclude
  <1>18. live' = live /\ archive' = archive /\ UNCHANGED apiVars
    BY DEF WorkerStep, Interrupted, StoreFails, Poll, Build, Check, List, Replay,
         Stopped, Collect, Claim, Stage, Finish, Conclude, Write, Activate, dataVars
  <1>19. LiveTypes' /\ ApiTypes'
    BY <1>0, <1>18 DEF LiveTypes, ApiTypes, apiVars
  <1>20. faults' \in 0 .. MaxFaults
    <2>1. faults' = faults \/ Fault
      BY DEF WorkerStep, Interrupted, StoreFails, Poll, Build, Check, List, Replay,
         Stopped, Collect, Claim, Stage, Finish, Conclude, Write, Activate
    <2> QED
      BY <1>0, <2>1, RebuildAssumption DEF Fault
  <1>21. RebuildTypes' <=> (/\ op \in [Ops -> OperationSet] /\ ApiTypes /\ WorkerTypes /\ DataTypes
                            /\ LiveTypes /\ faults \in 0 .. MaxFaults)'
    BY TypesInParts, PTL
  <1> QED
    BY <1>15, <1>16, <1>17, <1>19, <1>20, <1>21

LEMMA NextTypes ==
  ASSUME RebuildTypes, [Next]_vars
  PROVE  RebuildTypes'
  <1>1. CASE UNCHANGED vars
    BY <1>1 DEF vars, RebuildTypes, TypeOK
  <1> QED
    BY <1>1, ApiStepTypes, LiveStepTypes, WorkerStepTypes DEF Next

LEMMA InitTypes == Init => RebuildTypes
  <1> SUFFICES ASSUME Init PROVE RebuildTypes
    OBVIOUS
  <1>1. Cardinality(active) = 0
    BY FS_EmptySet DEF Init
  <1>2. op \in [Ops -> OperationSet] /\ ApiTypes /\ LiveTypes
    BY RebuildAssumption DEF Init, OperationSet, ApiTypes, LiveTypes
  <1>3. WorkerTypes
    BY RebuildAssumption DEF Init, WorkerTypes, WorkerSteps
  <1>4. DataTypes /\ faults \in 0 .. MaxFaults
    <2>1. retired \in BOOLEAN
      BY DEF Init
    <2>2. /\ archive = {} /\ applied = {} /\ checkpoint = 0 /\ active = {} /\ faults = 0
          /\ coll = [s \in Collections |-> 0]
      BY DEF Init
    <2> QED
      BY <1>1, <2>1, <2>2, RebuildAssumption DEF DataTypes
  <1> QED
    BY <1>2, <1>3, <1>4, TypesInParts

LEMMA TypesInvariant == Spec => []RebuildTypes
  BY InitTypes, NextTypes, PTL DEF Spec

\* Operations, calls, workers, collections and the projector keep their shape, for any
\* interleaving of API calls, workers, faults and live events.
THEOREM RebuildTypeCorrect == Spec => []TypeOK
  <1>1. RebuildTypes => TypeOK
    BY DEF RebuildTypes
  <1> QED
    BY <1>1, TypesInvariant, PTL

\* ActivateManyWithCheckpoints and the live Apply: neither a pointer switch with an old
\* listing nor a live transaction that raced with it moves the checkpoint back.
THEOREM CheckpointAdvances == Spec => CheckpointNeverMovesBack
  <1>1. ASSUME RebuildTypes, [Next]_vars PROVE [checkpoint' >= checkpoint]_vars
    <2>0. /\ checkpoint \in Nat /\ \A w \in Workers : top[w] \in Nat
          /\ \A t \in live : t.version \in Nat /\ t.checkpoint \in Nat
      BY <1>1, TypesInParts DEF DataTypes, WorkerTypes, LiveTypes, LiveSet, Versions
    <2>1. ASSUME NEW w \in Workers, NEW o \in Ops, Activate(w, o) PROVE checkpoint' >= checkpoint
      BY <2>0, <2>1 DEF Activate
    <2>2. ASSUME NEW t \in live, LiveCommit(t) PROVE checkpoint' >= checkpoint
      BY <2>0, <2>2 DEF LiveCommit, classifyCheckpoint
    <2>3. CASE checkpoint' = checkpoint
      BY <2>0, <2>3
    <2>4. ASSUME NEW c \in Callers, ApiStep(c) PROVE checkpoint' = checkpoint
      BY <2>4 DEF ApiStep, Start, Cancel, StartCommit, CancelCommit, CancelReceipt, dataVars
    <2>5. ASSUME NEW w \in Workers, WorkerStep(w) \/ Interrupted(w) \/ StoreFails(w)
          PROVE  checkpoint' = checkpoint \/ \E o \in Ops : Activate(w, o)
      BY <2>5 DEF WorkerStep, Interrupted, StoreFails, Poll, Build, Check, List, Replay, Stopped,
         Collect, Claim, Stage, Finish, Conclude, Write, dataVars
    <2>6. CASE LiveStep
      BY <2>2, <2>3, <2>6 DEF LiveStep, LiveArchive, LiveRead, dataVars
    <2> QED
      BY <1>1, <2>1, <2>3, <2>4, <2>5, <2>6 DEF Next
  <1> QED
    BY <1>1, TypesInvariant, PTL DEF Spec, CheckpointNeverMovesBack
-----------------------------------------------------------------------------
(* The state machine of an operation. *)

\* The one departure from it: a slower worker of a finished operation takes it for cancelled.
LateCancel(o) ==
  /\ op[o].status \in {"SUCCEEDED", "FAILED"}
  /\ op'[o].status = "CANCELLED" /\ op'[o].revision = op[o].revision + 1

Follow(o) == OperationStep(o) \/ LateCancel(o)

\* What an operation can be seen as stays so.
LEMMA SeenStays ==
  ASSUME op \in [Ops -> OperationSet], NEW o \in Ops, Follow(o), NEW step,
         op[o].status \in Seen(step)
  PROVE  op'[o].status \in Seen(step)
  <1>1. CASE step = "claim"
    BY <1>1 DEF Follow, OperationStep, LateCancel, Seen, Follows, Finished, OperationSet
  <1>2. CASE step \in {"stopped", "cancel"}
    BY <1>2 DEF Follow, OperationStep, LateCancel, Seen, Follows, Finished, OperationSet
  <1>3. CASE step \notin {"claim", "stopped", "cancel"}
    BY <1>3 DEF Follow, OperationStep, LateCancel, Seen, Follows, Finished, OperationSet
  <1> QED
    BY <1>1, <1>2, <1>3

LEMMA RevisionGrows ==
  ASSUME op \in [Ops -> OperationSet], NEW o \in Ops, Follow(o)
  PROVE  op[o].revision \in Nat /\ (op'[o] = op[o] \/ op'[o].revision = op[o].revision + 1)
  BY DEF Follow, OperationStep, LateCancel, OperationSet

\* The worker stays where it is.
LEMMA KnowsKept ==
  ASSUME op \in [Ops -> OperationSet], WorkerTypes, NEW w \in Workers, WorkerKnows(w),
         \A o \in Ops : Follow(o),
         pc'[w] = pc[w], cur'[w] = cur[w], rev'[w] = rev[w], staged'[w] = staged[w]
  PROVE  WorkerKnows(w)'
  <1> SUFFICES ASSUME pc[w] # "idle" PROVE WorkerKnows(w)'
    BY DEF WorkerKnows
  <1>1. PICK o \in Ops :
      /\ cur[w] = {o} /\ op[o].status \in Seen(pc[w]) /\ rev[w] <= op[o].revision
      /\ pc[w] = "claim" /\ op[o].revision = rev[w] => op[o].status = "ACCEPTED"
      /\ pc[w] \in {"stage", "failsave"} /\ op[o].revision = rev[w] => op[o].status = "RUNNING"
      /\ pc[w] = "cancel" /\ op[o].revision = rev[w] => op[o].status # "CANCELLED"
      /\ pc[w] \in AfterStage =>
           /\ staged[w] <= op[o].revision
           /\ op[o].revision = staged[w] => op[o].status = "RUNNING"
    BY DEF WorkerKnows
  <1>2. rev[w] \in Nat /\ staged[w] \in Nat
    BY DEF WorkerTypes
  <1>3. op[o].revision \in Nat /\ (op'[o] = op[o] \/ op'[o].revision = op[o].revision + 1)
    BY RevisionGrows
  <1>4. op'[o].status \in Seen(pc[w])
    BY <1>1, SeenStays
  <1>5. /\ rev[w] <= op'[o].revision
        /\ pc[w] = "claim" /\ op'[o].revision = rev[w] => op'[o].status = "ACCEPTED"
        /\ pc[w] \in {"stage", "failsave"} /\ op'[o].revision = rev[w] => op'[o].status = "RUNNING"
        /\ pc[w] = "cancel" /\ op'[o].revision = rev[w] => op'[o].status # "CANCELLED"
        /\ pc[w] \in AfterStage =>
           /\ staged[w] <= op'[o].revision
           /\ op'[o].revision = staged[w] => op'[o].status = "RUNNING"
    BY <1>1, <1>2, <1>3
  <1> QED
    BY <1>1, <1>4, <1>5 DEF WorkerKnows, Seen

LEMMA CallsKept ==
  ASSUME op \in [Ops -> OperationSet], ApiTypes, CallsKnow, \A o \in Ops : Follow(o),
         \A c \in Callers : call'[c] \subseteq call[c]
  PROVE  CallsKnow'
  <1> SUFFICES ASSUME NEW c \in Callers, NEW r \in call[c], r.kind = "cancel"
               PROVE  /\ r.rev <= op'[r.op].revision
                      /\ op'[r.op].revision = r.rev => op'[r.op].status = r.status
    BY DEF CallsKnow
  <1>1. r.op \in Ops /\ r.rev \in Nat
    BY DEF ApiTypes, Calls
  <1>2. r.rev <= op[r.op].revision /\ (op[r.op].revision = r.rev => op[r.op].status = r.status)
    BY DEF CallsKnow
  <1>3. /\ op[r.op].revision \in Nat
        /\ op'[r.op] = op[r.op] \/ op'[r.op].revision = op[r.op].revision + 1
    BY <1>1, RevisionGrows
  <1> QED
    BY <1>1, <1>2, <1>3

ApiMoves(o) == OperationStep(o) /\ (op[o].status = "CANCEL_REQUESTED" => op'[o] = op[o])

\* An API call follows the state machine, and leaves a requested cancellation to the worker.
LEMMA ApiFollows ==
  ASSUME RebuildTypes, CallsKnow, NEW c \in Callers, ApiStep(c)
  PROVE  \A o \in Ops : ApiMoves(o)
  <1>0. op \in [Ops -> OperationSet] /\ ApiTypes
    BY TypesInParts
  <1>1. CASE op' = op
    BY <1>1 DEF ApiMoves, OperationStep
  <1>2. ASSUME NEW r \in call[c], StartCommit(c, r), op' # op PROVE \A o \in Ops : ApiMoves(o)
    <2>0. r \in Calls /\ r.kind = "start" /\ r.key \in Keys
      BY <1>0, <1>2 DEF StartCommit, ApiTypes, Calls
    <2>1. PICK o \in Ops : /\ op[o].status = "NONE" /\ Save(o, "ACCEPTED") /\ created[r.key] = {}
                           /\ created' = [created EXCEPT ![r.key] = {o}]
      BY <1>2 DEF StartCommit
    <2>2. /\ op'[o].status = "ACCEPTED" /\ op'[o].revision = op[o].revision + 1
          /\ \A x \in Ops : x # o => op'[x] = op[x]
      BY <1>0, <2>1, SaveType DEF Runnable
    <2>3. created'[r.key] = {o}
      BY <1>0, <2>0, <2>1 DEF ApiTypes
    <2> QED
      BY <2>0, <2>1, <2>2, <2>3 DEF ApiMoves, OperationStep, Follows
  <1>3. ASSUME NEW r \in call[c], CancelCommit(c, r), op' # op PROVE \A o \in Ops : ApiMoves(o)
    <2>0. r \in Calls /\ r.kind = "cancel" /\ r.op \in Ops /\ r.status \in {"ACCEPTED", "RUNNING"}
      BY <1>0, <1>3 DEF CancelCommit, ApiTypes, Calls, Runnable
    <2>1. op[r.op].revision = r.rev
          /\ Save(r.op, IF r.status = "ACCEPTED" THEN "CANCELLED" ELSE "CANCEL_REQUESTED")
      BY <1>3 DEF CancelCommit
    <2>2. op[r.op].status = r.status
      BY <2>0, <2>1 DEF CallsKnow
    <2>3. /\ op'[r.op].status = IF r.status = "ACCEPTED" THEN "CANCELLED" ELSE "CANCEL_REQUESTED"
          /\ op'[r.op].revision = op[r.op].revision + 1
          /\ \A x \in Ops : x # r.op => op'[x] = op[x]
      BY <1>0, <2>0, <2>1, SaveType DEF Runnable, Finished
    <2> QED
      BY <2>0, <2>2, <2>3 DEF ApiMoves, OperationStep, Follows
  <1> QED
    BY <1>1, <1>2, <1>3 DEF ApiStep, Start, Cancel, CancelReceipt
\* A worker saves an operation only as the document it has read allows, except that it may
\* take a finished one for cancelled.
LEMMA WorkerFollows ==
  ASSUME RebuildTypes, NEW w \in Workers, WorkerKnows(w),
         WorkerStep(w) \/ Interrupted(w) \/ StoreFails(w)
  PROVE  /\ \A o \in Ops : Follow(o)
         /\ WorkerOwns(w) => \A o \in Ops : OperationStep(o)
  <1>0. op \in [Ops -> OperationSet]
    BY TypesInParts
  <1>1. CASE op' = op
    BY <1>1 DEF OperationStep, Follow
  <1>2. ASSUME NEW o \in Ops, NEW status \in Runnable \cup Finished, Save(o, status),
               status \in Follows[op[o].status], op[o].status # "NONE"
        PROVE  \A x \in Ops : OperationStep(x)
    BY <1>0, <1>2, SaveType DEF OperationStep
  <1>3. ASSUME NEW o \in Ops, NEW step, At(w, o, step), step # "idle"
        PROVE  /\ op[o].status \in Seen(step) /\ pc[w] = step
               /\ step = "claim" /\ op[o].revision = rev[w] => op[o].status = "ACCEPTED"
               /\ step \in {"stage", "failsave"} /\ op[o].revision = rev[w] => op[o].status = "RUNNING"
               /\ step = "cancel" /\ op[o].revision = rev[w] => op[o].status # "CANCELLED"
               /\ step \in AfterStage /\ op[o].revision = staged[w] => op[o].status = "RUNNING"
               /\ WorkerOwns(w) => op[o].status \in Expected(step)
    BY <1>3 DEF At, WorkerKnows, WorkerOwns
  <1>4. ASSUME NEW o \in Ops, Claim(w, o), op' # op PROVE \A x \in Ops : OperationStep(x)
    <2>1. op[o].status = "ACCEPTED" /\ Save(o, "RUNNING")
      BY <1>3, <1>4 DEF Claim, CompareAndSave
    <2> QED
      BY <1>2, <2>1 DEF Follows, Runnable
  <1>5. ASSUME NEW o \in Ops, Stage(w, o), op' # op PROVE \A x \in Ops : OperationStep(x)
    <2>1. op[o].status = "RUNNING" /\ Save(o, "RUNNING")
      BY <1>3, <1>5 DEF Stage, CompareAndSave
    <2> QED
      BY <1>2, <2>1 DEF Follows, Runnable
  <1>6. ASSUME NEW o \in Ops, Finish(w, o), op' # op PROVE \A x \in Ops : OperationStep(x)
    <2>1. op[o].status = "RUNNING" /\ Save(o, "SUCCEEDED")
      BY <1>3, <1>6 DEF Finish, AfterStage
    <2> QED
      BY <1>2, <2>1 DEF Follows, Finished
  <1>7. ASSUME NEW o \in Ops, Conclude(w, o), pc[w] = "failsave", op' # op
        PROVE  \A x \in Ops : OperationStep(x)
    <2>1. op[o].status = "RUNNING" /\ Save(o, "FAILED")
      BY <1>3, <1>7 DEF Conclude, At
    <2> QED
      BY <1>2, <2>1 DEF Follows, Finished
  <1>8. ASSUME NEW o \in Ops, Conclude(w, o), pc[w] = "cancel", op' # op
        PROVE  /\ \A x \in Ops : Follow(x)
               /\ WorkerOwns(w) => \A x \in Ops : OperationStep(x)
    <2>1. /\ op[o].status \in {"CANCEL_REQUESTED", "SUCCEEDED", "FAILED"} /\ Save(o, "CANCELLED")
          /\ WorkerOwns(w) => op[o].status = "CANCEL_REQUESTED"
      BY <1>3, <1>8 DEF Conclude, At, Seen, Expected, Finished
    <2>2. CASE op[o].status = "CANCEL_REQUESTED"
      BY <1>2, <2>1, <2>2 DEF Follows, Finished, Follow
    <2>4. CASE op[o].status \in {"SUCCEEDED", "FAILED"}
      <3>1. /\ op'[o].status = "CANCELLED" /\ op'[o].revision = op[o].revision + 1
            /\ \A x \in Ops : x # o => op'[x] = op[x]
        BY <1>0, <2>1, SaveType DEF Finished
      <3> QED
        BY <2>1, <2>4, <3>1 DEF Follow, LateCancel, OperationStep
    <2> QED
      BY <2>1, <2>2, <2>4
  <1> QED
    BY <1>1, <1>4, <1>5, <1>6, <1>7, <1>8 DEF Follow, WorkerStep, Interrupted, StoreFails, Poll,
       Build, Check, List, Replay, Stopped, Collect, Write, Activate, Conclude

\* The worker goes on with what it knows.
LEMMA KnowsOn ==
  ASSUME WorkerTypes, NEW w \in Workers, NEW step \in WorkerSteps, WorkerKnows(w), Goto(w, step),
         UNCHANGED <<op, cur, rev, staged>>, pc[w] # "idle",
         step \notin {"idle", "claim", "stage", "failsave", "cancel"},
         step \in AfterStage => pc[w] \in AfterStage,
         \A o \in cur[w] : op[o].status \in Seen(pc[w]) => op[o].status \in Seen(step)
  PROVE  WorkerKnows(w)'
  <1>1. pc'[w] = step
    BY GoesOn
  <1>2. PICK o \in Ops :
      /\ cur[w] = {o} /\ op[o].status \in Seen(pc[w]) /\ rev[w] <= op[o].revision
      /\ pc[w] \in AfterStage =>
           /\ staged[w] <= op[o].revision
           /\ op[o].revision = staged[w] => op[o].status = "RUNNING"
    BY DEF WorkerKnows
  <1>3. op[o].status \in Seen(step)
    BY <1>2
  <1>4. op' = op /\ cur' = cur /\ rev' = rev /\ staged' = staged
    OBVIOUS
  <1> QED
    BY <1>1, <1>2, <1>3, <1>4 DEF WorkerKnows, Seen

\* Other workers are left alone.
LEMMA OthersStay ==
  ASSUME WorkerTypes, NEW w \in Workers, WorkerStep(w) \/ Interrupted(w) \/ StoreFails(w),
         NEW x \in Workers, x # w
  PROVE  /\ pc'[x] = pc[x] /\ cur'[x] = cur[x] /\ rev'[x] = rev[x] /\ staged'[x] = staged[x]
         /\ todo'[x] = todo[x] /\ item'[x] = item[x] /\ top'[x] = top[x]
  <1> USE DEF WorkerTypes
  <1>1. pc'[x] = pc[x] /\ cur'[x] = cur[x] /\ rev'[x] = rev[x] /\ staged'[x] = staged[x]
    <2>1. ASSUME NEW o \in Ops, NEW status, NEW next,
                 CompareAndSave(w, o, status, next) \/ CheckThen(w, o, next)
          PROVE  pc'[x] = pc[x] /\ cur'[x] = cur[x] /\ rev'[x] = rev[x] /\ staged'[x] = staged[x]
      BY <2>1 DEF CompareAndSave, CheckThen, Leave, Goto
    <2>2. ASSUME NEW o \in Ops, Claim(w, o) \/ Stage(w, o) \/ Check(w, o)
          PROVE  pc'[x] = pc[x] /\ cur'[x] = cur[x] /\ rev'[x] = rev[x] /\ staged'[x] = staged[x]
      BY <2>1, <2>2 DEF Claim, Stage, Check
    <2> QED
      BY <2>2 DEF WorkerStep, Interrupted, StoreFails, Poll, Build, List, Replay, Write, Stopped,
         Collect, Activate, Finish, Conclude, Leave, Goto
  <1>2. todo'[x] = todo[x] /\ item'[x] = item[x] /\ top'[x] = top[x]
    <2>1. ASSUME NEW o \in Ops, NEW status, NEW next,
                 CompareAndSave(w, o, status, next) \/ CheckThen(w, o, next)
          PROVE  todo'[x] = todo[x] /\ item'[x] = item[x] /\ top'[x] = top[x]
      BY <2>1 DEF CompareAndSave, CheckThen, Leave
    <2>2. ASSUME NEW o \in Ops, Claim(w, o) \/ Stage(w, o) \/ Check(w, o)
          PROVE  todo'[x] = todo[x] /\ item'[x] = item[x] /\ top'[x] = top[x]
      BY <2>1, <2>2 DEF Claim, Stage, Check
    <2> QED
      BY <2>2 DEF WorkerStep, Interrupted, StoreFails, Poll, Build, List, Replay, Write, Stopped,
         Collect, Activate, Finish, Conclude, Leave
  <1> QED
    BY <1>1, <1>2
\* What a worker knows after a step of its own, and what its operation is when it is alone.
LEMMA WorkerLearns ==
  ASSUME RebuildTypes, NEW w \in Workers, WorkerKnows(w),
         WorkerStep(w) \/ Interrupted(w) \/ StoreFails(w)
  PROVE  WorkerKnows(w)' /\ (WorkerOwns(w) => WorkerOwns(w)')
  <1>0. op \in [Ops -> OperationSet] /\ WorkerTypes
    BY TypesInParts
  <1>1. ASSUME Leave(w) PROVE WorkerKnows(w)' /\ WorkerOwns(w)'
    BY <1>0, <1>1, LeaveType DEF WorkerKnows, WorkerOwns
  <1> DEFINE Middle == {"build", "check", "stage", "recheck", "list", "replay", "write", "verify",
                        "collect", "activate", "finish", "fail", "failsave"}
  <1>2. \A step \in Middle : /\ Seen(step) = {"RUNNING", "CANCEL_REQUESTED"} \cup Finished
                             /\ Expected(step) = {"RUNNING", "CANCEL_REQUESTED"}
    BY DEF Seen, Expected
  <1>3. ASSUME NEW step \in WorkerSteps, Goto(w, step), UNCHANGED <<op, cur, rev, staged>>,
               pc[w] \in Middle, step \in Middle \ {"stage", "failsave"},
               step \in AfterStage => pc[w] \in AfterStage
        PROVE  WorkerKnows(w)' /\ (WorkerOwns(w) => WorkerOwns(w)')
    <2>1. WorkerKnows(w)'
      BY <1>0, <1>2, <1>3, KnowsOn
    <2>2. WorkerOwns(w) => WorkerOwns(w)'
      BY <1>0, <1>2, <1>3, GoesOn DEF WorkerOwns
    <2> QED
      BY <2>1, <2>2
  <1>4. ASSUME NEW o \in Ops, Build(w, o) PROVE WorkerKnows(w)' /\ (WorkerOwns(w) => WorkerOwns(w)')
    BY <1>3, <1>4 DEF Build, At, AfterStage, WorkerSteps
  <1>5. ASSUME NEW o \in Ops, List(w, o) PROVE WorkerKnows(w)' /\ (WorkerOwns(w) => WorkerOwns(w)')
    BY <1>3, <1>5 DEF List, At, AfterStage, WorkerSteps
  <1>6. ASSUME NEW o \in Ops, Write(w, o) \/ Collect(w, o)
        PROVE  WorkerKnows(w)' /\ (WorkerOwns(w) => WorkerOwns(w)')
    BY <1>3, <1>6 DEF Write, Collect, At, AfterStage, WorkerSteps
  <1>7. ASSUME NEW o \in Ops, Activate(w, o) PROVE WorkerKnows(w)' /\ (WorkerOwns(w) => WorkerOwns(w)')
    BY <1>3, <1>7 DEF Activate, At, AfterStage, WorkerSteps
  <1>8. ASSUME StoreFails(w) PROVE WorkerKnows(w)' /\ (WorkerOwns(w) => WorkerOwns(w)')
    BY <1>3, <1>8 DEF StoreFails, AfterStage, WorkerSteps
  <1>9. ASSUME NEW o \in Ops, Replay(w, o) PROVE WorkerKnows(w)' /\ (WorkerOwns(w) => WorkerOwns(w)')
    <2>1. pc[w] = "replay" /\ cur[w] = {o} /\ UNCHANGED <<op, cur, rev, staged>>
      BY <1>9 DEF Replay, At
    <2>2. ASSUME Goto(w, "stopped"), op[o].status # "RUNNING"
          PROVE  WorkerKnows(w)' /\ (WorkerOwns(w) => WorkerOwns(w)')
      <3>1. op[o].status \in Seen("replay") => op[o].status \in Seen("stopped")
        BY <2>2 DEF Seen
      <3>2. op[o].status \in Expected("replay") => op[o].status \in Expected("stopped")
        BY <2>2 DEF Expected
      <3>3. WorkerKnows(w)'
        BY <1>0, <2>1, <2>2, <3>1, KnowsOn DEF WorkerSteps, AfterStage
      <3>4. pc'[w] = "stopped"
        BY <1>0, <2>2, GoesOn DEF WorkerSteps
      <3>5. WorkerOwns(w) => WorkerOwns(w)'
        BY <2>1, <3>2, <3>4 DEF WorkerOwns
      <3> QED
        BY <3>3, <3>5
    <2>3. ASSUME NEW step \in {"verify", "fail", "replay", "write"}, Goto(w, step)
          PROVE  WorkerKnows(w)' /\ (WorkerOwns(w) => WorkerOwns(w)')
      BY <1>3, <2>1, <2>3 DEF AfterStage, WorkerSteps
    <2>4. \/ Goto(w, "stopped") /\ op[o].status # "RUNNING"
          \/ \E step \in {"verify", "fail", "replay", "write"} : Goto(w, step)
      BY <1>9 DEF Replay
    <2> QED
      BY <2>2, <2>3, <2>4
  <1>10. ASSUME NEW o \in Ops, Poll(w, o) PROVE WorkerKnows(w)' /\ WorkerOwns(w)'
    <2>1. /\ op' = op /\ cur'[w] = {o} /\ rev'[w] = op[o].revision /\ op[o].revision \in Nat
          /\ \/ op[o].status = "ACCEPTED" /\ Goto(w, "claim")
             \/ op[o].status = "RUNNING" /\ Goto(w, "build")
             \/ op[o].status = "CANCEL_REQUESTED" /\ Goto(w, "cancel")
      BY <1>0, <1>10 DEF Poll, WorkerTypes, OperationSet, Runnable
    <2>2. \/ op[o].status = "ACCEPTED" /\ pc'[w] = "claim"
          \/ op[o].status = "RUNNING" /\ pc'[w] = "build"
          \/ op[o].status = "CANCEL_REQUESTED" /\ pc'[w] = "cancel"
      BY <1>0, <2>1, GoesOn DEF WorkerSteps
    <2>3. op[o].status \in Seen(pc'[w]) /\ op[o].status \in Expected(pc'[w])
      BY <2>2 DEF Seen, Expected
    <2>4. pc'[w] \notin AfterStage /\ pc'[w] \notin {"stage", "failsave"}
      BY <2>2 DEF AfterStage
    <2>5. WorkerOwns(w)'
      BY <2>1, <2>3 DEF WorkerOwns
    <2>6. WorkerKnows(w)'
      BY <2>1, <2>2, <2>3, <2>4 DEF WorkerKnows, Seen
    <2> QED
      BY <2>5, <2>6
  <1>11. ASSUME NEW o \in Ops, NEW status \in Runnable \cup Finished, NEW next \in WorkerSteps,
                CompareAndSave(w, o, status, next), cur[w] = {o}, pc[w] # "idle",
                status = "RUNNING", next \in {"build", "recheck"}
         PROVE  WorkerKnows(w)' /\ WorkerOwns(w)'
    <2>1. CASE Leave(w)
      BY <1>1, <2>1
    <2>2. CASE /\ op[o].revision = rev[w] /\ Save(o, status)
               /\ staged' = [staged EXCEPT ![w] = rev[w] + 1]
               /\ Goto(w, next) /\ UNCHANGED <<cur, rev, todo, item, top>>
      <3>1. op'[o].status = "RUNNING" /\ op'[o].revision = op[o].revision + 1
        BY <1>0, <1>11, <2>2, SaveType
      <3>2. pc'[w] = next /\ staged'[w] = rev[w] + 1 /\ rev[w] \in Nat /\ rev'[w] = rev[w]
            /\ cur'[w] = {o}
        BY <1>0, <1>11, <2>2, GoesOn DEF WorkerTypes
      <3>3. op'[o].status \in Seen(next) /\ op'[o].status \in Expected(next)
        BY <1>11, <3>1 DEF Seen, Expected
      <3>4. rev'[w] <= op'[o].revision /\ staged'[w] <= op'[o].revision
        BY <2>2, <3>1, <3>2
      <3>5. WorkerKnows(w)'
        BY <1>11, <3>1, <3>2, <3>3, <3>4 DEF WorkerKnows, Seen
      <3>6. WorkerOwns(w)'
        BY <3>2, <3>3 DEF WorkerOwns
      <3> QED
        BY <3>5, <3>6
    <2> QED
      BY <1>11, <2>1, <2>2 DEF CompareAndSave
  <1>12. ASSUME NEW o \in Ops, Claim(w, o) \/ Stage(w, o) PROVE WorkerKnows(w)' /\ WorkerOwns(w)'
    BY <1>11, <1>12 DEF Claim, Stage, At, Runnable, WorkerSteps
  <1>13. ASSUME NEW o \in Ops, NEW step \in WorkerSteps, CheckThen(w, o, step), cur[w] = {o},
                pc[w] # "idle", UNCHANGED op, step \in {"stage", "list", "collect", "failsave"},
                step \in AfterStage => pc[w] \in AfterStage
         PROVE  WorkerKnows(w)' /\ WorkerOwns(w)'
    <2>1. CASE Leave(w)
      BY <1>1, <2>1
    <2>2. ASSUME NEW next \in WorkerSteps, Goto(w, next),
                 rev' = [rev EXCEPT ![w] = op[o].revision], UNCHANGED <<cur, staged>>,
                 \/ op[o].status = "RUNNING" /\ next = step
                 \/ op[o].status = "CANCEL_REQUESTED" /\ next = "cancel"
          PROVE  WorkerKnows(w)' /\ WorkerOwns(w)'
      <3>1. pc'[w] = next /\ rev'[w] = op[o].revision /\ cur'[w] = {o} /\ staged'[w] = staged[w]
            /\ op[o].revision \in Nat /\ op' = op
        BY <1>0, <1>13, <2>2, GoesOn DEF WorkerTypes, OperationSet
      <3>2. op[o].status \in Seen(next) /\ op[o].status \in Expected(next) /\ next # "claim"
            /\ (next = "cancel" => op[o].status # "CANCELLED")
        BY <1>13, <2>2 DEF Seen, Expected
      <3>3. next \in {"stage", "failsave"} => op[o].status = "RUNNING"
        BY <2>2
      <3>4. next \in AfterStage =>
              /\ staged[w] <= op[o].revision
              /\ op[o].revision = staged[w] => op[o].status = "RUNNING"
        BY <1>13, <2>2 DEF WorkerKnows, AfterStage
      <3>5. WorkerKnows(w)'
        BY <3>1, <3>2, <3>3, <3>4 DEF WorkerKnows, Seen
      <3>6. WorkerOwns(w)'
        BY <3>1, <3>2 DEF WorkerOwns
      <3> QED
        BY <3>5, <3>6
    <2> QED
      BY <1>13, <2>1, <2>2 DEF CheckThen, WorkerSteps
  <1>14. ASSUME NEW o \in Ops, Check(w, o) PROVE WorkerKnows(w)' /\ WorkerOwns(w)'
    <2>1. pc[w] # "idle" /\ cur[w] = {o} /\ UNCHANGED op
      BY <1>14 DEF Check, At
    <2>2. \/ pc[w] = "check" /\ CheckThen(w, o, "stage")
          \/ pc[w] = "recheck" /\ CheckThen(w, o, "list")
          \/ pc[w] = "verify" /\ CheckThen(w, o, "collect")
          \/ pc[w] = "fail" /\ CheckThen(w, o, "failsave")
      BY <1>14 DEF Check, At
    <2> QED
      BY <1>13, <2>1, <2>2 DEF AfterStage, WorkerSteps
  <1>15. ASSUME NEW o \in Ops, Stopped(w, o) PROVE WorkerKnows(w)' /\ (WorkerOwns(w) => WorkerOwns(w)')
    <2>1. CASE Leave(w)
      BY <1>1, <2>1
    <2>2. CASE /\ rev' = [rev EXCEPT ![w] = op[o].revision] /\ Goto(w, "cancel")
               /\ UNCHANGED <<cur, staged, todo, item, top>> /\ op[o].status # "CANCELLED"
      <3>1. pc'[w] = "cancel" /\ rev'[w] = op[o].revision /\ cur' = cur /\ op' = op
            /\ op[o].revision \in Nat
        BY <1>0, <1>15, <2>2, GoesOn DEF WorkerTypes, OperationSet, WorkerSteps, Stopped
      <3>2. pc[w] = "stopped" /\ cur[w] = {o}
        BY <1>15 DEF Stopped, At
      <3>3. Seen("stopped") = Seen("cancel") /\ Expected("stopped") = Expected("cancel")
        BY DEF Seen, Expected
      <3>4. op[o].status \in Seen("cancel")
        BY <3>2, <3>3 DEF WorkerKnows
      <3>5. WorkerKnows(w)'
        BY <2>2, <3>1, <3>2, <3>4 DEF WorkerKnows, Seen, AfterStage
      <3>6. WorkerOwns(w) => WorkerOwns(w)'
        BY <3>1, <3>2, <3>3 DEF WorkerOwns
      <3> QED
        BY <3>5, <3>6
    <2> QED
      BY <1>15, <2>1, <2>2 DEF Stopped
  <1>16. ASSUME NEW o \in Ops, Finish(w, o) \/ Conclude(w, o) PROVE WorkerKnows(w)' /\ WorkerOwns(w)'
    BY <1>1, <1>16 DEF Finish, Conclude
  <1> QED
    BY <1>1, <1>4, <1>5, <1>6, <1>7, <1>8, <1>9, <1>10, <1>12, <1>14, <1>15, <1>16
       DEF WorkerStep, Interrupted
\* An API call knows what it has just read.
LEMMA ApiKnows ==
  ASSUME RebuildTypes, CallsKnow, NEW c \in Callers, ApiStep(c)
  PROVE  CallsKnow'
  <1>0. op \in [Ops -> OperationSet] /\ ApiTypes
    BY TypesInParts
  <1>1. \A o \in Ops : Follow(o)
    BY ApiFollows DEF Follow, ApiMoves
  <1>2. ASSUME \A d \in Callers : call'[d] \subseteq call[d] PROVE CallsKnow'
    BY <1>0, <1>1, <1>2, CallsKept
  <1>3. ASSUME NEW r \in call[c], StartCommit(c, r) \/ CancelCommit(c, r) \/ CancelReceipt(c, r)
        PROVE  CallsKnow'
    BY <1>0, <1>2, <1>3 DEF StartCommit, CancelCommit, CancelReceipt, Return, ApiTypes
  <1>4. ASSUME NEW r, call' = [call EXCEPT ![c] = {r}], op' = op,
               r.kind = "cancel" => r.rev <= op[r.op].revision /\ op[r.op].status = r.status
        PROVE  CallsKnow'
    BY <1>0, <1>4 DEF CallsKnow, ApiTypes
  <1>5. ASSUME NEW k \in Keys, Start(c, k) PROVE CallsKnow'
    BY <1>4, <1>5 DEF Start, Begin
  <1>6. ASSUME NEW k \in Keys, NEW o \in Ops, Cancel(c, k, o) PROVE CallsKnow'
    <2> DEFINE r == [kind |-> "cancel", key |-> k, op |-> o, status |-> op[o].status,
                     rev |-> op[o].revision]
    <2>1. r.rev = op[o].revision /\ r.op = o /\ r.status = op[o].status /\ op[o].revision \in Nat
      BY <1>0 DEF OperationSet
    <2>2. op' = op /\ (call' = call \/ call' = [call EXCEPT ![c] = {r}])
      BY <1>6 DEF Cancel, Begin
    <2> HIDE DEF r
    <2>3. r.rev <= op[r.op].revision /\ op[r.op].status = r.status
      BY <2>1
    <2> QED
      BY <1>2, <1>4, <2>2, <2>3
  <1> QED
    BY <1>3, <1>5, <1>6 DEF ApiStep

LEMMA NextKnows ==
  ASSUME RebuildTypes, KnowsInv, [Next]_vars
  PROVE  KnowsInv' /\ \A o \in Ops : Follow(o)
  <1>0. op \in [Ops -> OperationSet] /\ ApiTypes /\ WorkerTypes /\ CallsKnow
        /\ \A w \in Workers : WorkerKnows(w)
    BY TypesInParts DEF KnowsInv
  <1>1. ASSUME UNCHANGED <<op, call, pc, cur, rev, staged>> PROVE KnowsInv' /\ \A o \in Ops : Follow(o)
    <2>1. \A o \in Ops : Follow(o)
      BY <1>1 DEF Follow, OperationStep
    <2>2. CallsKnow' /\ \A w \in Workers : WorkerKnows(w)'
      BY <1>0, <1>1, <2>1, CallsKept, KnowsKept
    <2> QED
      BY <2>1, <2>2 DEF KnowsInv
  <1>2. ASSUME NEW c \in Callers, ApiStep(c) PROVE KnowsInv' /\ \A o \in Ops : Follow(o)
    <2>1. \A o \in Ops : Follow(o)
      BY <1>0, <1>2, ApiFollows DEF Follow, ApiMoves
    <2>2. UNCHANGED <<pc, cur, rev, staged>>
      BY <1>2 DEF ApiStep, Start, Cancel, StartCommit, CancelCommit, CancelReceipt, workerVars
    <2>3. \A w \in Workers : WorkerKnows(w)'
      BY <1>0, <2>1, <2>2, KnowsKept
    <2>4. CallsKnow'
      BY <1>0, <1>2, ApiKnows
    <2> QED
      BY <2>1, <2>3, <2>4 DEF KnowsInv
  <1>3. ASSUME NEW w \in Workers, WorkerStep(w) \/ Interrupted(w) \/ StoreFails(w)
        PROVE  KnowsInv' /\ \A o \in Ops : Follow(o)
    <2>1. \A o \in Ops : Follow(o)
      BY <1>0, <1>3, WorkerFollows
    <2>2. call' = call
      BY <1>3 DEF WorkerStep, Interrupted, StoreFails, Poll, Build, Check, List, Replay,
         Stopped, Collect, Claim, Stage, Finish, Conclude, Write, Activate, apiVars
    <2>3. CallsKnow'
      BY <1>0, <2>1, <2>2, CallsKept
    <2>4. \A x \in Workers : WorkerKnows(x)'
      <3> SUFFICES ASSUME NEW x \in Workers PROVE WorkerKnows(x)'
        OBVIOUS
      <3>1. CASE x = w
        BY <1>0, <1>3, <3>1, WorkerLearns
      <3>2. CASE x # w
        BY <1>0, <1>3, <2>1, <3>2, OthersStay, KnowsKept
      <3> QED
        BY <3>1, <3>2
    <2> QED
      BY <2>1, <2>3, <2>4 DEF KnowsInv
  <1>4. CASE LiveStep
    BY <1>1, <1>4 DEF LiveStep, LiveArchive, LiveRead, LiveCommit, apiVars, workerVars
  <1>5. CASE UNCHANGED vars
    BY <1>1, <1>5 DEF vars
  <1> QED
    BY <1>2, <1>3, <1>4, <1>5 DEF Next

LEMMA InitKnows == Init => KnowsInv /\ OwnsInv /\ OneAtATime
  BY DEF Init, KnowsInv, CallsKnow, WorkerKnows, OwnsInv, WorkerOwns, OneAtATime

\* With one worker at a time, nothing but API calls touches a worker's operation.
LEMMA OwnsStep ==
  ASSUME RebuildTypes, KnowsInv, OwnsInv, OneAtATime, [Next]_vars
  PROVE  OwnsInv' /\ \A o \in Ops : OperationStep(o)
  <1>0. op \in [Ops -> OperationSet] /\ WorkerTypes /\ CallsKnow
        /\ \A w \in Workers : WorkerKnows(w) /\ WorkerOwns(w)
    BY TypesInParts DEF KnowsInv, OwnsInv
  <1>1. ASSUME UNCHANGED <<op, pc, cur>> PROVE OwnsInv' /\ \A o \in Ops : OperationStep(o)
    BY <1>0, <1>1 DEF OwnsInv, WorkerOwns, OperationStep
  <1>2. ASSUME NEW c \in Callers, ApiStep(c) PROVE OwnsInv' /\ \A o \in Ops : OperationStep(o)
    <2>1. \A o \in Ops : ApiMoves(o)
      BY <1>0, <1>2, ApiFollows
    <2>2. pc' = pc /\ cur' = cur
      BY <1>2 DEF ApiStep, Start, Cancel, StartCommit, CancelCommit, CancelReceipt, workerVars
    <2>3. \A o \in Ops : op'[o] = op[o] \/ op'[o].status \in {"ACCEPTED", "CANCELLED", "CANCEL_REQUESTED"}
      <3>1. ASSUME NEW o \in Ops, NEW x \in Ops,
                   NEW status \in {"ACCEPTED", "CANCELLED", "CANCEL_REQUESTED"}, Save(x, status)
            PROVE  op'[o] = op[o] \/ op'[o].status = status
        BY <1>0, <3>1, SaveType DEF Runnable, Finished
      <3>2. \A r \in call[c] : r.kind = "cancel" => r.op \in Ops
        BY TypesInParts DEF ApiTypes, Calls
      <3>3. \/ op' = op
            \/ \E x \in Ops, status \in {"ACCEPTED", "CANCELLED", "CANCEL_REQUESTED"} : Save(x, status)
        BY <1>2, <3>2 DEF ApiStep, Start, Cancel, StartCommit, CancelCommit, CancelReceipt
      <3> QED
        BY <3>1, <3>3
    <2>4. ASSUME NEW w \in Workers, NEW o \in Ops, op[o].status \in Expected(pc[w])
          PROVE  op'[o].status \in Expected(pc[w])
      BY <1>0, <2>1, <2>3, <2>4 DEF ApiMoves, OperationStep, Follows, Expected, OperationSet
    <2>5. \A w \in Workers : cur[w] \in SUBSET Ops
      BY <1>0 DEF WorkerTypes
    <2> QED
      BY <1>0, <2>1, <2>2, <2>4, <2>5 DEF OwnsInv, WorkerOwns, Expected, ApiMoves
  <1>3. ASSUME NEW w \in Workers, WorkerStep(w) \/ Interrupted(w) \/ StoreFails(w)
        PROVE  OwnsInv' /\ \A o \in Ops : OperationStep(o)
    <2>1. \A o \in Ops : OperationStep(o)
      BY <1>0, <1>3, WorkerFollows
    <2>2. ASSUME NEW x \in Workers, x # w PROVE WorkerOwns(x)'
      <3>1. pc'[x] = pc[x] /\ cur'[x] = cur[x]
        BY <1>0, <1>3, <2>2, OthersStay
      <3>2. pc[w] = "idle" => op' = op
        BY <1>3 DEF WorkerStep, Interrupted, StoreFails, Poll, Build, Check, List, Replay,
           Stopped, Collect, Claim, Stage, Finish, Conclude, Write, Activate, At
      <3>3. CASE pc[x] = "idle"
        BY <3>1, <3>3 DEF WorkerOwns
      <3>4. CASE pc[x] # "idle"
        <4>1. op' = op
          BY <2>2, <3>2, <3>4 DEF OneAtATime
        <4> QED
          BY <1>0, <3>1, <4>1 DEF WorkerOwns, Expected
      <3> QED
        BY <3>3, <3>4
    <2>3. WorkerOwns(w)'
      BY <1>0, <1>3, WorkerLearns
    <2> QED
      BY <2>1, <2>2, <2>3 DEF OwnsInv
  <1>4. CASE LiveStep
    BY <1>1, <1>4 DEF LiveStep, LiveArchive, LiveRead, LiveCommit, workerVars
  <1>5. CASE UNCHANGED vars
    BY <1>1, <1>5 DEF vars
  <1> QED
    BY <1>2, <1>3, <1>4, <1>5 DEF Next

\* For any number of workers and callers, an operation departs from the documented state
\* machine in one way: a slower worker of an operation that has SUCCEEDED or FAILED finishes
\* it as CANCELLED (process, after a cancelled replay).
THEOREM OneDeparture == Spec => [][\A o \in Ops : OperationStep(o) \/ LateCancel(o)]_vars
  <1>1. RebuildTypes /\ KnowsInv /\ [Next]_vars => KnowsInv'
    BY NextKnows
  <1>2. RebuildTypes /\ KnowsInv /\ [Next]_vars =>
          [\A o \in Ops : OperationStep(o) \/ LateCancel(o)]_vars
    BY NextKnows DEF Follow
  <1>3. Init => KnowsInv
    BY InitKnows
  <1> QED
    BY <1>1, <1>2, <1>3, TypesInvariant, PTL DEF Spec

\* With one worker at a time there is none, whatever calls, faults and restarts race with it.
THEOREM OneWorkerFollows ==
  Spec /\ []OneAtATime => [][\A o \in Ops : OperationStep(o)]_vars
  <1>1. RebuildTypes /\ KnowsInv /\ [Next]_vars => KnowsInv'
    BY NextKnows
  <1>2. RebuildTypes /\ KnowsInv /\ OwnsInv /\ OneAtATime /\ [Next]_vars =>
          OwnsInv' /\ [\A o \in Ops : OperationStep(o)]_vars
    BY OwnsStep
  <1>3. Init => KnowsInv /\ OwnsInv
    BY InitKnows
  <1> QED
    BY <1>1, <1>2, <1>3, TypesInvariant, PTL DEF Spec
-----------------------------------------------------------------------------
(* What readers see across a pointer switch, while the projector rests. *)

\* An archive within its window is listed in full.
LEMMA ListedInFull ==
  ASSUME archive \in SUBSET Versions, NEW entries \in Listings,
         Cardinality(entries) <= ArchiveLimit \/ Cardinality(archive) <= ArchiveLimit
  PROVE  entries = archive
  <1>1. IsFiniteSet(archive)
    <2>1. LastVersion \in Int /\ 1 \in Int
      BY RebuildAssumption
    <2>2. IsFiniteSet(Versions)
      BY <2>1, FS_Interval DEF Versions
    <2> QED
      BY <2>2, FS_Subset
  <1>2. entries \subseteq archive
    BY DEF Listings
  <1>3. Cardinality(entries) <= Cardinality(archive)
        /\ Cardinality(entries) \in Nat /\ Cardinality(archive) \in Nat
    BY <1>1, <1>2, FS_Subset, FS_CardinalityType
  <1> QED
    BY <1>3, RebuildAssumption DEF Listings

\* An idle worker holds nothing, and a worker that stays holds what it held.
LEMMA HoldsStill ==
  ASSUME NEW w \in Workers, CollectionHolds(w),
         \/ pc'[w] \notin {"replay", "write", "verify", "collect", "activate"}
         \/ /\ UNCHANGED <<archive, coll>>
            /\ pc'[w] = pc[w] /\ cur'[w] = cur[w] /\ todo'[w] = todo[w] /\ item'[w] = item[w]
            /\ top'[w] = top[w]
  PROVE  CollectionHolds(w)'
  BY DEF CollectionHolds

\* The steps of the worker itself.
LEMMA HoldsOn ==
  ASSUME RebuildTypes, NEW w \in Workers, CollectionHolds(w),
         WorkerStep(w) \/ Interrupted(w) \/ StoreFails(w)
  PROVE  CollectionHolds(w)'
  <1>0. WorkerTypes /\ DataTypes /\ archive \in SUBSET Versions /\ archive' = archive
    <2>1. archive' = archive
      BY DEF WorkerStep, Interrupted, StoreFails, Poll, Build, Check, List, Replay,
         Stopped, Collect, Claim, Stage, Finish, Conclude, Write, Activate, dataVars
    <2> QED
      BY <2>1, TypesInParts DEF DataTypes
  <1> DEFINE Held == {"replay", "write", "verify", "collect", "activate"}
  <1>1. ASSUME pc'[w] \notin Held PROVE CollectionHolds(w)'
    BY <1>1 DEF CollectionHolds
  <1>2. ASSUME Leave(w) PROVE CollectionHolds(w)'
    BY <1>0, <1>1, <1>2, LeaveType
  <1>3. ASSUME NEW step \in WorkerSteps \ Held, Goto(w, step) PROVE CollectionHolds(w)'
    BY <1>0, <1>1, <1>3, GoesOn
  <1>4. \A o \in Ops : coll[o] \in Nat
    BY <1>0 DEF DataTypes, Collections
  <1>5. ASSUME NEW o \in Ops, List(w, o) PROVE CollectionHolds(w)'
    <2>1. CASE Goto(w, "fail")
      BY <1>3, <2>1 DEF WorkerSteps
    <2>2. ASSUME NEW entries \in Listings, Cardinality(entries) <= ArchiveLimit,
                 todo' = [todo EXCEPT ![w] = entries], Goto(w, "replay")
          PROVE  CollectionHolds(w)'
      <3>1. entries = archive
        BY <1>0, <2>2, ListedInFull
      <3>2. pc'[w] = "replay" /\ todo'[w] = archive
        BY <1>0, <2>2, <3>1, GoesOn DEF WorkerSteps, WorkerTypes
      <3> QED
        BY <1>0, <2>2, <3>1, <3>2 DEF CollectionHolds
    <2> QED
      BY <1>5, <2>1, <2>2 DEF List
  <1>6. ASSUME NEW o \in Ops, Replay(w, o) PROVE CollectionHolds(w)'
    <2>0. pc[w] = "replay" /\ cur[w] = {o} /\ cur' = cur /\ coll' = coll
      BY <1>6 DEF Replay, At, dataVars
    <2>1. Cardinality(archive) <= ArchiveLimit /\ \A v \in archive : v \in todo[w] \/ v <= coll[o]
      BY <2>0 DEF CollectionHolds
    <2>2. CASE todo[w] = {} /\ Goto(w, "verify")
      <3>1. pc'[w] = "verify"
        BY <1>0, <2>2, GoesOn DEF WorkerSteps
      <3> QED
        BY <1>0, <2>0, <2>1, <2>2, <3>1 DEF CollectionHolds
    <2>3. CASE Goto(w, "stopped")
      BY <1>3, <2>3 DEF WorkerSteps
    <2>4. ASSUME NEW v \in todo[w], todo' = [todo EXCEPT ![w] = @ \ {v}],
                 item' = [item EXCEPT ![w] = v],
                 Goto(w, IF v \in Unmappable THEN "fail"
                         ELSE IF coll[o] >= v THEN "replay" ELSE "write")
          PROVE  CollectionHolds(w)'
      <3>0. todo'[w] = todo[w] \ {v} /\ item'[w] = v /\ v \in Nat /\ archive \subseteq Nat
        BY <1>0, <2>4 DEF WorkerTypes, Versions
      <3>1. CASE v \in Unmappable
        BY <1>3, <2>4, <3>1 DEF WorkerSteps
      <3>2. CASE v \notin Unmappable /\ coll[o] >= v
        <4>1. pc'[w] = "replay"
          BY <1>0, <2>4, <3>2, GoesOn DEF WorkerSteps
        <4> QED
          BY <1>0, <2>0, <2>1, <3>0, <3>2, <4>1 DEF CollectionHolds
      <3>3. CASE v \notin Unmappable /\ ~(coll[o] >= v)
        <4>1. pc'[w] = "write"
          BY <1>0, <2>4, <3>3, GoesOn DEF WorkerSteps
        <4>2. coll[o] < v /\ \A u \in archive : u \in todo[w] \ {v} \/ u <= v
          BY <1>4, <2>1, <3>0, <3>3
        <4> QED
          BY <1>0, <2>0, <2>1, <3>0, <4>1, <4>2 DEF CollectionHolds
      <3> QED
        BY <3>1, <3>2, <3>3
    <2> QED
      BY <1>6, <2>2, <2>3, <2>4 DEF Replay
  <1>7. ASSUME NEW o \in Ops, Write(w, o) PROVE CollectionHolds(w)'
    <2>0. pc[w] = "write" /\ cur[w] = {o} /\ cur' = cur /\ todo' = todo
          /\ coll' = [coll EXCEPT ![o] = item[w]] /\ Goto(w, "replay")
      BY <1>7 DEF Write, At
    <2>1. pc'[w] = "replay" /\ coll'[o] = item[w]
      BY <1>0, <2>0, GoesOn DEF WorkerSteps, DataTypes, Collections
    <2>2. Cardinality(archive) <= ArchiveLimit /\ \A v \in archive : v \in todo[w] \/ v <= item[w]
      BY <2>0 DEF CollectionHolds
    <2> QED
      BY <1>0, <2>0, <2>1, <2>2 DEF CollectionHolds
  <1>8. ASSUME NEW o \in Ops, Collect(w, o) PROVE CollectionHolds(w)'
    <2>0. pc[w] = "collect" /\ cur[w] = {o} /\ cur' = cur /\ coll' = coll /\ Goto(w, "activate")
      BY <1>8 DEF Collect, At, dataVars
    <2>1. Cardinality(archive) <= ArchiveLimit /\ \A v \in archive : v <= coll[o]
      BY <2>0 DEF CollectionHolds
    <2>2. PICK entries \in Listings : top' = [top EXCEPT ![w] = Newest(entries)]
      BY <1>8 DEF Collect
    <2>3. entries = archive
      BY <1>0, <2>1, ListedInFull
    <2>4. top'[w] = Newest(archive) /\ pc'[w] = "activate"
      BY <1>0, <2>0, <2>2, <2>3, GoesOn DEF WorkerSteps, WorkerTypes
    <2>5. Newest(archive) \in archive \cup {0} /\ \A v \in archive : v <= Newest(archive)
      <3>1. CASE archive = {}
        BY <3>1 DEF Newest
      <3>2. CASE archive # {}
        BY <1>0, <3>2, NewestExists
      <3> QED
        BY <3>1, <3>2
    <2> QED
      BY <1>0, <2>0, <2>1, <2>4, <2>5 DEF CollectionHolds
  <1>9. ASSUME NEW o \in Ops, Check(w, o) PROVE CollectionHolds(w)'
    <2>1. CASE Leave(w)
      BY <1>2, <2>1
    <2>2. ASSUME NEW step \in {"stage", "list", "failsave", "cancel"}, Goto(w, step)
          PROVE  CollectionHolds(w)'
      BY <1>3, <2>2 DEF WorkerSteps
    <2>3. CASE /\ At(w, o, "verify") /\ Goto(w, "collect") /\ UNCHANGED <<cur, staged, todo, item, top>>
               /\ UNCHANGED dataVars
      <3>1. pc[w] = "verify" /\ cur[w] = {o} /\ cur' = cur /\ coll' = coll
        BY <2>3 DEF At, dataVars
      <3>2. pc'[w] = "collect"
        BY <1>0, <2>3, GoesOn DEF WorkerSteps
      <3> QED
        BY <1>0, <3>1, <3>2 DEF CollectionHolds
    <2>4. ASSUME NEW next, CheckThen(w, o, next)
          PROVE  \/ Leave(w) \/ Goto(w, "cancel")
                 \/ Goto(w, next) /\ UNCHANGED <<cur, staged, todo, item, top>>
      BY <2>4 DEF CheckThen
    <2> QED
      BY <1>9, <2>1, <2>2, <2>3, <2>4 DEF Check
  <1>10. ASSUME NEW o \in Ops, Poll(w, o) \/ Build(w, o) \/ Activate(w, o) \/ StoreFails(w)
         PROVE  CollectionHolds(w)'
    <2>1. \E step \in WorkerSteps \ Held : Goto(w, step)
      BY <1>10 DEF Poll, Build, Activate, StoreFails, WorkerSteps
    <2> QED
      BY <1>3, <2>1
  <1>11. ASSUME NEW o \in Ops, Claim(w, o) \/ Stage(w, o) PROVE CollectionHolds(w)'
    BY <1>2, <1>3, <1>11 DEF Claim, Stage, CompareAndSave, WorkerSteps
  <1>12. ASSUME NEW o \in Ops, Stopped(w, o) PROVE CollectionHolds(w)'
    BY <1>2, <1>3, <1>12 DEF Stopped, WorkerSteps
  <1>13. ASSUME NEW o \in Ops, Finish(w, o) \/ Conclude(w, o) \/ Interrupted(w)
         PROVE  CollectionHolds(w)'
    BY <1>2, <1>13 DEF Finish, Conclude, Interrupted
  <1>14. CASE StoreFails(w)
    BY <1>3, <1>14 DEF StoreFails, WorkerSteps
  <1>15. CASE Interrupted(w)
    BY <1>2, <1>15 DEF Interrupted
  <1> QED
    BY <1>5, <1>6, <1>7, <1>8, <1>9, <1>10, <1>11, <1>12, <1>13, <1>14, <1>15 DEF WorkerStep
\* The visible collection.
LEMMA ActiveIs ==
  ASSUME NEW o \in Ops
  PROVE  active = {o} => ActiveCollection = o
  BY DEF ActiveCollection

\* A pointer switch.
LEMMA ActivateCovers ==
  ASSUME RebuildTypes, CoverInv, NEW w \in Workers, NEW o \in Ops, Activate(w, o)
  PROVE  /\ checkpoint' \in archive' \cup {0} /\ VisibleCoversCheckpoint'
         /\ \A t \in live' : checkpoint' = t.checkpoint /\ t.version = t.checkpoint + 1 =>
              t.coll = ActiveCollection'
  <1>0. WorkerTypes /\ DataTypes /\ LiveTypes
    BY TypesInParts
  <1>1. pc[w] = "activate" /\ cur[w] = {o} /\ archive' = archive /\ coll' = coll /\ live' = live
    BY DEF Activate, At
  <1>2. CASE UNCHANGED <<active, retired, checkpoint>>
    BY <1>1, <1>2 DEF CoverInv, VisibleCoversCheckpoint, ActiveCollection
  <1>3. CASE /\ active' = {o} /\ checkpoint' = IF top[w] > checkpoint THEN top[w] ELSE checkpoint
    <2>1. /\ \A v \in archive : v <= coll[o] /\ v <= top[w]
          /\ top[w] \in archive \cup {0}
      BY <1>1 DEF CoverInv, CollectionHolds
    <2>2. top[w] \in Nat /\ checkpoint \in Nat /\ coll[o] \in Nat
      BY <1>0 DEF WorkerTypes, DataTypes, Collections
    <2>3. checkpoint \in archive \cup {0}
      BY DEF CoverInv
    <2>4. checkpoint' \in archive \cup {0} /\ checkpoint' <= coll[o] /\ top[w] <= checkpoint'
          /\ checkpoint' \in Nat
      BY <1>3, <2>1, <2>2, <2>3
    <2>5. ActiveCollection' = o
      BY <1>3 DEF ActiveCollection
    <2>6. VisibleCoversCheckpoint'
      BY <1>1, <2>2, <2>4, <2>5 DEF VisibleCoversCheckpoint
    <2>7. ASSUME NEW t \in live PROVE ~(checkpoint' = t.checkpoint /\ t.version = t.checkpoint + 1)
      <3>1. t.version \in archive /\ t.version \in Nat /\ t.checkpoint \in Nat
        BY <1>0 DEF LiveTypes, LiveSet, Versions
      <3>2. t.version <= top[w]
        BY <2>1, <3>1
      <3> QED
        BY <2>2, <2>4, <3>1, <3>2
    <2> QED
      BY <1>1, <2>4, <2>6, <2>7
  <1> QED
    BY <1>2, <1>3 DEF Activate

LEMMA WorkerCovers ==
  ASSUME RebuildTypes, CoverInv, OneAtATime, NEW w \in Workers,
         WorkerStep(w) \/ Interrupted(w) \/ StoreFails(w)
  PROVE  CoverInv'
  <1>0. WorkerTypes /\ DataTypes
    BY TypesInParts
  <1>1. archive' = archive /\ live' = live
    BY DEF WorkerStep, Interrupted, StoreFails, Poll, Build, Check, List, Replay,
         Stopped, Collect, Claim, Stage, Finish, Conclude, Write, Activate, dataVars
  <1>2. \A x \in Workers : CollectionHolds(x)'
    <2> SUFFICES ASSUME NEW x \in Workers PROVE CollectionHolds(x)'
      OBVIOUS
    <2>0. CollectionHolds(x)
      BY DEF CoverInv
    <2>1. CASE x = w
      BY <2>0, <2>1, HoldsOn
    <2>2. CASE x # w
      <3>1. /\ pc'[x] = pc[x] /\ cur'[x] = cur[x] /\ todo'[x] = todo[x] /\ item'[x] = item[x]
            /\ top'[x] = top[x]
        BY <1>0, <2>2, OthersStay
      <3>2. pc[w] = "idle" => coll' = coll
        BY DEF WorkerStep, Interrupted, StoreFails, Poll, Build, Check, List, Replay,
           Stopped, Collect, Claim, Stage, Finish, Conclude, Write, Activate, At, dataVars
      <3>3. CASE pc[x] = "idle"
        BY <2>0, <3>1, <3>3, HoldsStill
      <3>4. CASE pc[x] # "idle"
        <4>1. coll' = coll
          BY <2>2, <3>2, <3>4 DEF OneAtATime
        <4> QED
          BY <1>1, <2>0, <3>1, <4>1, HoldsStill
      <3> QED
        BY <3>3, <3>4
    <2> QED
      BY <2>1, <2>2
  <1>3. ASSUME UNCHANGED <<checkpoint, active, coll>> PROVE CoverInv'
    BY <1>1, <1>2, <1>3 DEF CoverInv, VisibleCoversCheckpoint, ActiveCollection
  <1>4. ASSUME NEW o \in Ops, Activate(w, o) PROVE CoverInv'
    BY <1>2, <1>4, ActivateCovers DEF CoverInv
  <1>5. ASSUME NEW o \in Ops, Write(w, o) PROVE CoverInv'
    <2>1. /\ pc[w] = "write" /\ cur[w] = {o} /\ coll' = [coll EXCEPT ![o] = item[w]]
          /\ checkpoint' = checkpoint /\ active' = active
      BY <1>5 DEF Write, At
    <2>2. coll[o] < item[w]
      BY <2>1 DEF CoverInv, CollectionHolds
    <2>3. ActiveCollection' = ActiveCollection
      BY <2>1 DEF ActiveCollection
    <2>4. /\ coll[o] \in Nat /\ item[w] \in Nat /\ checkpoint \in Nat
          /\ coll[ActiveCollection] >= checkpoint
      BY <1>0 DEF WorkerTypes, DataTypes, Collections, CoverInv, VisibleCoversCheckpoint
    <2>5. coll'[ActiveCollection] >= checkpoint
      <3>1. CASE ActiveCollection = o
        BY <1>0, <2>1, <2>2, <2>4, <3>1 DEF DataTypes, Collections
      <3>2. CASE ActiveCollection # o
        BY <1>0, <2>1, <2>4, <3>2 DEF DataTypes
      <3> QED
        BY <3>1, <3>2
    <2>6. VisibleCoversCheckpoint'
      BY <2>1, <2>3, <2>5 DEF VisibleCoversCheckpoint
    <2> QED
      BY <1>1, <1>2, <2>1, <2>3, <2>6 DEF CoverInv
  <1> QED
    BY <1>3, <1>4, <1>5 DEF WorkerStep, Interrupted, StoreFails, Poll, Build, Check, List, Replay,
         Stopped, Collect, Claim, Stage, Finish, Conclude, dataVars

\* The projector moves while no worker does.
LEMMA LiveCovers ==
  ASSUME RebuildTypes, CoverInv, Resting, LiveStep
  PROVE  CoverInv'
  <1>0. DataTypes /\ LiveTypes
    BY TypesInParts
  <1>1. pc' = pc /\ active' = active
    BY DEF LiveStep, LiveArchive, LiveRead, LiveCommit, workerVars, dataVars
  <1>2. \A w \in Workers : CollectionHolds(w)'
    BY <1>1 DEF Resting, CollectionHolds
  <1>3. ActiveCollection' = ActiveCollection
    BY <1>1 DEF ActiveCollection
  <1>4. ASSUME NEW v \in Versions, LiveArchive(v) PROVE CoverInv'
    BY <1>2, <1>3, <1>4 DEF LiveArchive, CoverInv, VisibleCoversCheckpoint
  <1>5. ASSUME NEW v \in Versions, LiveRead(v) PROVE CoverInv'
    BY <1>2, <1>3, <1>5 DEF LiveRead, CoverInv, VisibleCoversCheckpoint, dataVars
  <1>6. ASSUME NEW t \in live, LiveCommit(t) PROVE CoverInv'
    <2>1. t.version \in archive /\ t.version \in Nat /\ t.checkpoint \in Nat /\ t.coll \in Collections
      BY <1>0 DEF LiveTypes, LiveSet, Versions
    <2>2. live' = {} /\ archive' = archive
      BY <1>6 DEF LiveCommit
    <2>3. CASE UNCHANGED <<checkpoint, coll>>
      BY <1>2, <1>3, <2>2, <2>3 DEF CoverInv, VisibleCoversCheckpoint
    <2>4. CASE /\ classifyCheckpoint([version |-> t.checkpoint], t.version) = "apply"
               /\ checkpoint = t.checkpoint /\ checkpoint' = t.version
               /\ coll' = [coll EXCEPT ![t.coll] = t.version]
      <3>1. t.version = t.checkpoint + 1
        BY <2>1, <2>4 DEF classifyCheckpoint
      <3>2. t.coll = ActiveCollection
        BY <2>4, <3>1 DEF CoverInv
      <3>3. coll'[ActiveCollection] = t.version
        BY <1>0, <2>1, <2>4, <3>2 DEF DataTypes
      <3>4. VisibleCoversCheckpoint'
        BY <1>3, <2>1, <2>4, <3>3 DEF VisibleCoversCheckpoint
      <3> QED
        BY <1>2, <2>1, <2>2, <2>4, <3>4 DEF CoverInv
    <2> QED
      BY <1>6, <2>3, <2>4 DEF LiveCommit
  <1> QED
    BY <1>4, <1>5, <1>6 DEF LiveStep

\* A step of the system in which the projector moves only while no worker does.
RestingNext ==
  \/ \E c \in Callers : ApiStep(c)
  \/ \E w \in Workers : WorkerStep(w) \/ Interrupted(w) \/ StoreFails(w)
  \/ LiveStep /\ Resting

LEMMA NextCovers ==
  ASSUME RebuildTypes, CoverInv, OneAtATime, [RestingNext]_vars
  PROVE  CoverInv'
  <1>1. ASSUME UNCHANGED <<pc, cur, todo, item, top, archive, checkpoint, coll, active, live>>
        PROVE  CoverInv'
    <2>1. \A w \in Workers : CollectionHolds(w)'
      BY <1>1, HoldsStill DEF CoverInv
    <2> QED
      BY <1>1, <2>1 DEF CoverInv, VisibleCoversCheckpoint, ActiveCollection
  <1>2. ASSUME NEW c \in Callers, ApiStep(c) PROVE CoverInv'
    BY <1>1, <1>2 DEF ApiStep, Start, Cancel, StartCommit, CancelCommit, CancelReceipt, workerVars,
       dataVars
  <1>3. CASE UNCHANGED vars
    BY <1>1, <1>3 DEF vars
  <1> QED
    BY <1>2, <1>3, WorkerCovers, LiveCovers DEF RestingNext

LEMMA InitCovers == Init => CoverInv
  <1> SUFFICES ASSUME Init PROVE CoverInv
    OBVIOUS
  <1>1. ActiveCollection = Default
    BY DEF Init, ActiveCollection
  <1>2. coll[Default] = 0 /\ checkpoint = 0
    BY DEF Init, Collections
  <1>3. VisibleCoversCheckpoint
    BY <1>1, <1>2 DEF VisibleCoversCheckpoint
  <1>4. \A w \in Workers : CollectionHolds(w)
    BY DEF Init, CollectionHolds
  <1> QED
    BY <1>2, <1>3, <1>4 DEF Init, CoverInv

\* activateReadPointers: with one worker at a time and a projector that rests while it
\* works, readers are never switched to a collection that is behind the checkpoint, for any
\* archive, window, faults, cancellations and repeated rebuilds.
THEOREM SwitchCovers ==
  Spec /\ []OneAtATime /\ [][LiveStep => Resting]_vars => []VisibleCoversCheckpoint
  <1>1. RebuildTypes /\ CoverInv /\ OneAtATime /\ [Next]_vars /\ [LiveStep => Resting]_vars => CoverInv'
    BY NextCovers DEF Next, RestingNext
  <1>2. CoverInv => VisibleCoversCheckpoint
    BY DEF CoverInv
  <1> QED
    BY <1>1, <1>2, InitCovers, TypesInvariant, PTL DEF Spec
-----------------------------------------------------------------------------
(* Why a rebuild fails. *)

\* What FailsOnlyForCause counts as a cause.
Cause ==
  faults > 0 \/ archive \cap Unmappable # {} \/ Cardinality(archive) > ArchiveLimit

\* An operation that has failed, or is about to, has a cause.
Failing ==
  \/ \E o \in Ops : op[o].status = "FAILED"
  \/ \E w \in Workers : pc[w] \in {"fail", "failsave"}
CauseInv == (\A w \in Workers : todo[w] \subseteq archive) /\ (Failing => Cause)

\* An operation that never switches the pointer (again): it is over, to be cancelled, or its
\* worker is about to save its success.
PastSwitch(o) ==
  /\ op[o].status \in {"RUNNING", "CANCEL_REQUESTED", "SUCCEEDED", "CANCELLED"}
  /\ \A w \in Workers : pc[w] # "idle" /\ o \in cur[w] => pc[w] \in {"finish", "cancel"}
  /\ op[o].status = "RUNNING" =>
       \E w \in Workers : pc[w] = "finish" /\ cur[w] = {o} /\ staged[w] = op[o].revision

\* The only worker of a RUNNING operation saved it last.
StagedLast(w) ==
  \A o \in cur[w] : pc[w] \in AfterStage /\ op[o].status = "RUNNING" => staged[w] = op[o].revision

\* Without a cause an operation switches once, so a RETIRED pointer tells of two of them.
SwitchesInv ==
  /\ \A w \in Workers : StagedLast(w)
  /\ ~Cause => /\ \A o \in active : PastSwitch(o)
               /\ retired => \E a, b \in Ops : a # b /\ PastSwitch(a) /\ PastSwitch(b)

\* The table has been rebuilt at most twice.
AtMostTwo == \A a, b, c \in Ops : a = b \/ b = c \/ a = c

LEMMA CauseStays ==
  ASSUME RebuildTypes, [Next]_vars
  PROVE  /\ archive \subseteq archive' /\ faults \in Nat
         /\ faults' = faults \/ faults' = faults + 1
         /\ retired => retired'
         /\ Cause => Cause'
  <1>2. faults \in Nat
    BY RebuildAssumption, TypesInParts
  <1>6. ASSUME NEW c \in Callers, ApiStep(c) PROVE UNCHANGED <<archive, faults, retired>>
    BY <1>6 DEF ApiStep, Start, Cancel, StartCommit, CancelCommit, CancelReceipt, dataVars
  <1>7. ASSUME NEW w \in Workers, Interrupted(w) \/ StoreFails(w)
        PROVE  UNCHANGED <<archive, retired>> /\ faults' = faults + 1
    BY <1>7 DEF Interrupted, StoreFails, Fault, dataVars
  <1>8. ASSUME NEW w \in Workers, WorkerStep(w)
        PROVE  /\ archive' = archive /\ (faults' = faults \/ faults' = faults + 1)
               /\ retired => retired'
    <2>1. ASSUME NEW o \in Ops, Activate(w, o)
          PROVE  UNCHANGED <<archive, faults>> /\ (retired => retired')
      <3>1. UNCHANGED <<archive, faults>>
        BY <2>1 DEF Activate
      <3>2. ASSUME retired PROVE retired'
        <4>1. retired' = (retired \/ active # {}) \/ retired' = retired
          BY <2>1 DEF Activate
        <4> QED
          BY <3>2, <4>1
      <3> QED
        BY <3>1, <3>2
    <2>2. ASSUME NEW o \in Ops, Build(w, o)
          PROVE  UNCHANGED <<archive, retired>> /\ (faults' = faults \/ faults' = faults + 1)
      BY <2>2 DEF Build, Fault, dataVars
    <2>3. ASSUME NEW o \in Ops,
                 \/ Poll(w, o) \/ Claim(w, o) \/ Check(w, o) \/ Stage(w, o) \/ List(w, o)
                 \/ Replay(w, o) \/ Write(w, o) \/ Stopped(w, o) \/ Collect(w, o) \/ Finish(w, o)
                 \/ Conclude(w, o)
          PROVE  UNCHANGED <<archive, faults, retired>>
      BY <2>3 DEF Poll, Claim, Check, Stage, List, Replay, Write, Stopped, Collect, Finish,
         Conclude, dataVars
    <2> QED
      BY <1>8, <2>1, <2>2, <2>3 DEF WorkerStep
  <1>9. ASSUME LiveStep PROVE archive \subseteq archive' /\ UNCHANGED <<faults, retired>>
    BY <1>9 DEF LiveStep, LiveArchive, LiveRead, LiveCommit, dataVars
  <1>10. ASSUME UNCHANGED vars PROVE UNCHANGED <<archive, faults, retired>>
    BY <1>10 DEF vars
  <1>1. archive \subseteq archive'
    BY <1>6, <1>7, <1>8, <1>9, <1>10 DEF Next
  <1>3. faults' = faults \/ faults' = faults + 1
    BY <1>6, <1>7, <1>8, <1>9, <1>10 DEF Next
  <1>4. retired => retired'
    BY <1>6, <1>7, <1>8, <1>9, <1>10 DEF Next
  <1>5. Cause => Cause'
    <2>1. RebuildTypes'
      BY NextTypes
    <2>2. archive' \subseteq Versions
      BY <2>1, TypesInParts DEF RebuildTypes, TypeOK
    <2>3. IsFiniteSet(Versions)
      BY RebuildAssumption, FS_Interval DEF Versions
    <2>4. IsFiniteSet(archive')
      BY <2>2, <2>3, FS_Subset
    <2>5. /\ Cardinality(archive) \in Nat /\ Cardinality(archive') \in Nat
          /\ Cardinality(archive) <= Cardinality(archive')
      BY <1>1, <2>4, FS_Subset, FS_CardinalityType
    <2>6. CASE faults > 0
      <3>1. faults' > 0
        BY <1>2, <1>3, <2>6
      <3> QED
        BY <3>1 DEF Cause
    <2>7. CASE archive \cap Unmappable # {}
      BY <1>1, <2>7 DEF Cause
    <2>8. CASE Cardinality(archive) > ArchiveLimit
      <3>1. Cardinality(archive') > ArchiveLimit
        BY <2>5, <2>8, RebuildAssumption
      <3> QED
        BY <3>1 DEF Cause
    <2> QED
      BY <2>6, <2>7, <2>8 DEF Cause
  <1> QED
    BY <1>1, <1>2, <1>3, <1>4, <1>5

\* What an API call writes.
LEMMA ApiWrites ==
  ASSUME RebuildTypes, NEW c \in Callers, ApiStep(c)
  PROVE  \A o \in Ops : op'[o] = op[o] \/ op'[o].status \in {"ACCEPTED", "CANCELLED", "CANCEL_REQUESTED"}
  <1>0. op \in [Ops -> OperationSet]
    BY TypesInParts
  <1>1. ASSUME NEW o \in Ops, NEW x \in Ops,
               NEW status \in {"ACCEPTED", "CANCELLED", "CANCEL_REQUESTED"}, Save(x, status)
        PROVE  op'[o] = op[o] \/ op'[o].status = status
    BY <1>0, <1>1, SaveType DEF Runnable, Finished
  <1>2. \A r \in call[c] : r.kind = "cancel" => r.op \in Ops
    BY TypesInParts DEF ApiTypes, Calls
  <1>3. \/ op' = op
        \/ \E x \in Ops, status \in {"ACCEPTED", "CANCELLED", "CANCEL_REQUESTED"} : Save(x, status)
    BY <1>2 DEF ApiStep, Start, Cancel, StartCommit, CancelCommit, CancelReceipt
  <1> QED
    BY <1>1, <1>3

\* Where a worker's step leads, and what it does to the operation.
LEMMA WorkerWrites ==
  ASSUME RebuildTypes, NEW w \in Workers, WorkerStep(w)
  PROVE  /\ \A o \in Ops : op'[o] = op[o] \/ op'[o].status # "FAILED" \/ pc[w] = "failsave"
         /\ \A o \in Ops : op'[o] = op[o] \/ (cur[w] = {o} /\ pc[w] # "idle")
  <1>0. op \in [Ops -> OperationSet]
    BY TypesInParts
  <1>1. ASSUME NEW x \in Ops, NEW status \in Runnable \cup Finished, Save(x, status),
               cur[w] = {x}, pc[w] # "idle", status # "FAILED" \/ pc[w] = "failsave"
        PROVE  \A o \in Ops :
                 /\ op'[o] = op[o] \/ op'[o].status # "FAILED" \/ pc[w] = "failsave"
                 /\ op'[o] = op[o] \/ (cur[w] = {o} /\ pc[w] # "idle")
    BY <1>0, <1>1, SaveType
  <1>2. ASSUME NEW x \in Ops,
               Claim(w, x) \/ Stage(w, x) \/ Finish(w, x) \/ Conclude(w, x)
        PROVE  \/ op' = op
               \/ \E status \in Runnable \cup Finished :
                    /\ Save(x, status) /\ cur[w] = {x} /\ pc[w] # "idle"
                    /\ status # "FAILED" \/ pc[w] = "failsave"
    BY <1>2 DEF Claim, Stage, Finish, Conclude, CompareAndSave, At, Runnable, Finished
  <1>3. \/ op' = op
        \/ \E x \in Ops : Claim(w, x) \/ Stage(w, x) \/ Finish(w, x) \/ Conclude(w, x)
    BY DEF WorkerStep, Poll, Build, Check, List, Replay, Stopped, Collect, Write, Activate
  <1> QED
    BY <1>1, <1>2, <1>3

\* A worker turns to failing for a cause, or because a RETIRED pointer is in its way.
LEMMA WorkerTurns ==
  ASSUME RebuildTypes, CauseInv, NEW w \in Workers,
         WorkerStep(w) \/ Interrupted(w) \/ StoreFails(w),
         pc[w] = "activate" => Cause \/ ~retired,
         pc'[w] \in {"fail", "failsave"}
  PROVE  Cause'
  <1>0. WorkerTypes /\ faults \in Nat
    BY TypesInParts, RebuildAssumption
  <1>1. Cause => Cause'
    BY CauseStays DEF Next
  <1>2. CASE pc[w] \in {"fail", "failsave"}
    BY <1>1, <1>2 DEF CauseInv, Failing
  <1>3. CASE faults' = faults + 1
    <2>1. faults' > 0
      BY <1>0, <1>3
    <2> QED
      BY <2>1 DEF Cause
  <1>4. ASSUME NEW o \in Ops, List(w, o) PROVE Cause'
    <2>1. ASSUME NEW step \in WorkerSteps, Goto(w, step) PROVE pc'[w] = step
      BY <1>0, <2>1, GoesOn
    <2>2. PICK entries \in Listings : Cardinality(entries) > ArchiveLimit
      BY <1>4, <2>1 DEF List, WorkerSteps
    <2>3. archive \in SUBSET Versions
      BY DEF RebuildTypes, TypeOK
    <2>4. IsFiniteSet(Versions)
      BY RebuildAssumption, FS_Interval DEF Versions
    <2>5. IsFiniteSet(archive) /\ entries \subseteq archive
      BY <2>3, <2>4, FS_Subset DEF Listings
    <2>6. /\ Cardinality(entries) <= Cardinality(archive)
          /\ Cardinality(entries) \in Nat /\ Cardinality(archive) \in Nat
      BY <2>5, FS_Subset, FS_CardinalityType
    <2>7. Cardinality(archive) > ArchiveLimit
      BY <2>2, <2>6, RebuildAssumption
    <2> QED
      BY <1>1, <2>7 DEF Cause
  <1>5. ASSUME NEW o \in Ops, Replay(w, o) PROVE Cause'
    <2>1. ASSUME NEW step \in WorkerSteps, Goto(w, step) PROVE pc'[w] = step
      BY <1>0, <2>1, GoesOn
    <2>2. PICK v \in todo[w] : v \in Unmappable
      BY <1>5, <2>1 DEF Replay, WorkerSteps
    <2>3. v \in archive
      BY <2>2 DEF CauseInv
    <2> QED
      BY <1>1, <2>2, <2>3 DEF Cause
  <1>6. ASSUME NEW o \in Ops, Activate(w, o) PROVE Cause'
    <2>1. ASSUME NEW step \in WorkerSteps, Goto(w, step) PROVE pc'[w] = step
      BY <1>0, <2>1, GoesOn
    <2>2. retired /\ pc[w] = "activate"
      BY <1>6, <2>1 DEF Activate, WorkerSteps, At
    <2> QED
      BY <1>1, <2>2
  <1>7. ASSUME NEW o \in Ops, Build(w, o) PROVE Cause'
    <2>1. ASSUME NEW step \in WorkerSteps, Goto(w, step) PROVE pc'[w] = step
      BY <1>0, <2>1, GoesOn
    <2> QED
      BY <1>3, <1>7, <2>1 DEF Build, Fault, WorkerSteps
  <1>8. CASE Interrupted(w) \/ StoreFails(w)
    BY <1>3, <1>8 DEF Interrupted, StoreFails, Fault
  <1>9. ASSUME NEW o \in Ops, Poll(w, o) \/ Claim(w, o) \/ Check(w, o) \/ Stage(w, o) \/ Write(w, o)
                 \/ Stopped(w, o) \/ Collect(w, o) \/ Finish(w, o) \/ Conclude(w, o)
        PROVE  pc[w] \in {"fail", "failsave"}
    <2>1. ASSUME NEW step \in WorkerSteps, Goto(w, step) PROVE pc'[w] = step
      BY <1>0, <2>1, GoesOn
    <2>2. CASE Leave(w)
      BY <2>1, <2>2 DEF Leave, WorkerSteps
    <2>3. CASE Poll(w, o)
      BY <2>1, <2>3 DEF Poll, WorkerSteps
    <2>4. CASE Claim(w, o) \/ Stage(w, o)
      BY <2>1, <2>2, <2>4 DEF Claim, Stage, CompareAndSave, WorkerSteps
    <2>5. CASE Check(w, o)
      BY <2>1, <2>2, <2>5 DEF Check, CheckThen, At, WorkerSteps
    <2>6. CASE Write(w, o) \/ Stopped(w, o) \/ Collect(w, o) \/ Finish(w, o) \/ Conclude(w, o)
      BY <2>1, <2>2, <2>6 DEF Write, Stopped, Collect, Finish, Conclude, WorkerSteps
    <2> QED
      BY <1>9, <2>3, <2>4, <2>5, <2>6
  <1> QED
    BY <1>2, <1>4, <1>5, <1>6, <1>7, <1>8, <1>9 DEF WorkerStep

LEMMA NextCaused ==
  ASSUME RebuildTypes, CauseInv, [Next]_vars,
         \A w \in Workers : pc[w] = "activate" => Cause \/ ~retired
  PROVE  CauseInv'
  <1>0. WorkerTypes /\ archive \subseteq archive' /\ (Cause => Cause')
    BY CauseStays, TypesInParts
  <1>1. ASSUME UNCHANGED <<op, pc, todo>> PROVE CauseInv'
    BY <1>0, <1>1 DEF CauseInv, Failing
  <1>2. ASSUME NEW c \in Callers, ApiStep(c) PROVE CauseInv'
    <2>1. pc' = pc /\ todo' = todo
      BY <1>2 DEF ApiStep, Start, Cancel, StartCommit, CancelCommit, CancelReceipt, workerVars
    <2>2. \A o \in Ops : op'[o].status = "FAILED" => op[o].status = "FAILED"
      BY <1>2, ApiWrites
    <2> QED
      BY <1>0, <2>1, <2>2 DEF CauseInv, Failing
  <1>3. ASSUME NEW w \in Workers, WorkerStep(w) \/ Interrupted(w) \/ StoreFails(w) PROVE CauseInv'
    <2>1. \A o \in Ops : op'[o].status = "FAILED" => op[o].status = "FAILED" \/ pc[w] = "failsave"
      <3>1. CASE WorkerStep(w)
        BY <3>1, WorkerWrites
      <3>2. CASE Interrupted(w) \/ StoreFails(w)
        BY <3>2 DEF Interrupted, StoreFails
      <3> QED
        BY <1>3, <3>1, <3>2
    <2>2. \A x \in Workers : pc'[x] \in {"fail", "failsave"} => Cause'
      <3> SUFFICES ASSUME NEW x \in Workers, pc'[x] \in {"fail", "failsave"} PROVE Cause'
        OBVIOUS
      <3>1. CASE x = w
        BY <1>3, <3>1, WorkerTurns
      <3>2. CASE x # w
        <4>1. pc'[x] = pc[x]
          BY <1>0, <1>3, <3>2, OthersStay
        <4> QED
          BY <1>0, <4>1 DEF CauseInv, Failing
      <3> QED
        BY <3>1, <3>2
    <2>3. archive' = archive
      BY <1>3 DEF WorkerStep, Interrupted, StoreFails, Poll, Build, Check, List, Replay, Stopped,
         Collect, Claim, Stage, Finish, Conclude, Write, Activate, dataVars
    <2>4. todo'[w] \subseteq archive
      <3>1. todo[w] \subseteq archive /\ todo \in [Workers -> SUBSET Versions]
        BY <1>0 DEF CauseInv, WorkerTypes
      <3>2. ASSUME Leave(w) PROVE todo'[w] = {}
        BY <3>1, <3>2 DEF Leave
      <3>3. ASSUME NEW o \in Ops, List(w, o) PROVE todo'[w] \subseteq archive
        BY <3>1, <3>3 DEF List, Listings
      <3>4. ASSUME NEW o \in Ops, Replay(w, o) PROVE todo'[w] \subseteq todo[w]
        BY <3>1, <3>4 DEF Replay
      <3>5. ASSUME NEW o \in Ops, Claim(w, o) \/ Stage(w, o) \/ Check(w, o)
            PROVE  todo' = todo \/ Leave(w)
        BY <3>5 DEF Claim, Stage, Check, CompareAndSave, CheckThen
      <3>6. \/ todo' = todo \/ Leave(w)
            \/ \E o \in Ops : List(w, o) \/ Replay(w, o)
        BY <1>3, <3>5 DEF WorkerStep, Interrupted, StoreFails, Poll, Build, Stopped, Collect,
           Finish, Conclude, Write, Activate
      <3> QED
        BY <3>1, <3>2, <3>3, <3>4, <3>6
    <2>5. \A x \in Workers : todo'[x] \subseteq archive'
      <3> SUFFICES ASSUME NEW x \in Workers, x # w PROVE todo'[x] \subseteq archive'
        BY <2>3, <2>4
      <3>1. todo'[x] = todo[x]
        BY <1>0, <1>3, OthersStay
      <3> QED
        BY <2>3, <3>1 DEF CauseInv
    <2> QED
      BY <1>0, <2>1, <2>2, <2>5 DEF CauseInv, Failing
  <1>4. CASE LiveStep
    BY <1>1, <1>4 DEF LiveStep, LiveArchive, LiveRead, LiveCommit, workerVars
  <1>5. CASE UNCHANGED vars
    BY <1>1, <1>5 DEF vars
  <1> QED
    BY <1>2, <1>3, <1>4, <1>5 DEF Next

LEMMA InitCaused == Init => CauseInv
  BY DEF Init, CauseInv, Failing

LEMMA CauseIsOne == CauseInv => FailsOnlyForCause
  BY DEF CauseInv, Failing, Cause, FailsOnlyForCause

\* process and fail, for any number of workers and operations: a rebuild fails for one of the
\* causes, or there is a RETIRED pointer already, the one thing that the unique index of the
\* pointers lets stand in its way (finding 3 of the README).
THEOREM FailuresExplained == Spec => [](FailsOnlyForCause \/ retired)
  <1>1. Init => CauseInv \/ retired
    BY InitCaused
  <1>2. RebuildTypes /\ (CauseInv \/ retired) /\ [Next]_vars => (CauseInv \/ retired)'
    BY NextCaused, CauseStays
  <1>3. CauseInv \/ retired => FailsOnlyForCause \/ retired
    BY CauseIsOne
  <1> QED
    BY <1>1, <1>2, <1>3, TypesInvariant, PTL DEF Spec
\* An operation that is past its switch stays there.
LEMMA PastStays ==
  ASSUME RebuildTypes, KnowsInv, OwnsInv, OneAtATime, OneAtATime', [Next]_vars, faults' = faults,
         NEW o \in Ops, PastSwitch(o)
  PROVE  PastSwitch(o)'
  <1>0. op \in [Ops -> OperationSet] /\ WorkerTypes /\ CallsKnow
        /\ \A w \in Workers : WorkerKnows(w) /\ WorkerOwns(w)
    BY TypesInParts DEF KnowsInv, OwnsInv
  <1>1. ASSUME UNCHANGED <<op, pc, cur, staged>> PROVE PastSwitch(o)'
    BY <1>1 DEF PastSwitch
  <1>2. ASSUME NEW c \in Callers, ApiStep(c) PROVE PastSwitch(o)'
    <2>1. UNCHANGED <<pc, cur, staged>>
      BY <1>2 DEF ApiStep, Start, Cancel, StartCommit, CancelCommit, CancelReceipt, workerVars
    <2>2. ApiMoves(o)
      BY <1>0, <1>2, ApiFollows
    <2>3. op'[o] = op[o] \/ op'[o].status \in {"ACCEPTED", "CANCELLED", "CANCEL_REQUESTED"}
      BY <1>2, ApiWrites
    <2>4. op'[o] = op[o] \/ op'[o].status \in {"CANCELLED", "CANCEL_REQUESTED"}
      BY <2>2, <2>3 DEF ApiMoves, OperationStep, Follows, PastSwitch
    <2> QED
      BY <2>1, <2>4 DEF PastSwitch
  <1>3. ASSUME NEW w \in Workers, WorkerStep(w) \/ Interrupted(w) \/ StoreFails(w)
        PROVE  PastSwitch(o)'
    <2>0. faults \in Nat
      BY TypesInParts, RebuildAssumption
    <2>1. WorkerStep(w)
      BY <1>3, <2>0 DEF Interrupted, StoreFails, Fault
    <2>2. ASSUME NEW x \in Workers, x # w
          PROVE  pc'[x] = pc[x] /\ cur'[x] = cur[x] /\ staged'[x] = staged[x]
      BY <1>0, <1>3, <2>2, OthersStay
    <2>3. ASSUME op'[o] = op[o], pc[w] # "finish",
                 pc'[w] # "idle" /\ o \in cur'[w] => pc'[w] \in {"finish", "cancel"}
          PROVE  PastSwitch(o)'
      <3>1. \A x \in Workers : pc'[x] # "idle" /\ o \in cur'[x] => pc'[x] \in {"finish", "cancel"}
        BY <2>2, <2>3 DEF PastSwitch
      <3>2. op[o].status = "RUNNING" =>
              \E x \in Workers : pc'[x] = "finish" /\ cur'[x] = {o} /\ staged'[x] = op[o].revision
        BY <2>2, <2>3 DEF PastSwitch
      <3> QED
        BY <2>3, <3>1, <3>2 DEF PastSwitch
    <2>4. CASE pc[w] = "idle"
      <3>1. PICK x \in Ops : Poll(w, x)
        BY <2>1, <2>4 DEF WorkerStep, Claim, Build, Check, Stage, List, Replay, Write, Stopped,
           Collect, Activate, Finish, Conclude, At
      <3>2. op' = op /\ cur'[w] = {x}
        BY <1>0, <3>1 DEF Poll, WorkerTypes
      <3>3. CASE x # o
        BY <2>3, <2>4, <3>2, <3>3
      <3>4. CASE x = o
        <4>1. ASSUME NEW step \in WorkerSteps, Goto(w, step) PROVE pc'[w] = step
          BY <1>0, <4>1, GoesOn
        <4>2. CASE op[o].status = "RUNNING"
          <5>1. PICK z \in Workers : pc[z] = "finish"
            BY <4>2 DEF PastSwitch
          <5>2. pc'[z] = "finish" /\ z # w
            BY <2>2, <2>4, <5>1
          <5>3. pc'[w] # "idle"
            BY <3>1, <4>1 DEF Poll, WorkerSteps
          <5> QED
            BY <5>2, <5>3 DEF OneAtATime
        <4>3. CASE op[o].status # "RUNNING"
          <5>1. op[o].status = "CANCEL_REQUESTED"
            BY <3>1, <3>4, <4>3 DEF Poll, Runnable, PastSwitch
          <5>2. pc'[w] = "cancel"
            BY <3>1, <3>4, <4>1, <5>1 DEF Poll, WorkerSteps
          <5> QED
            BY <2>3, <2>4, <3>2, <5>2
        <4> QED
          BY <4>2, <4>3
      <3> QED
        BY <3>3, <3>4
    <2>5. CASE pc[w] # "idle" /\ o \notin cur[w]
      <3>1. op'[o] = op[o]
        BY <2>1, <2>5, WorkerWrites
      <3>2. cur'[w] \subseteq cur[w]
        <4>1. ASSUME Leave(w) PROVE cur'[w] = {}
          BY <1>0, <4>1 DEF Leave, WorkerTypes
        <4>2. ASSUME NEW x \in Ops, Claim(w, x) \/ Stage(w, x) \/ Check(w, x)
              PROVE  cur' = cur \/ Leave(w)
          BY <4>2 DEF Claim, Stage, Check, CompareAndSave, CheckThen
        <4>3. cur' = cur \/ Leave(w)
          BY <2>1, <2>5, <4>2 DEF WorkerStep, Poll, Build, List, Replay, Write, Stopped, Collect,
             Activate, Finish, Conclude
        <4> QED
          BY <4>1, <4>3
      <3>3. op[o].status # "RUNNING"
        <4> SUFFICES ASSUME op[o].status = "RUNNING" PROVE FALSE
          OBVIOUS
        <4>1. PICK z \in Workers : pc[z] = "finish" /\ cur[z] = {o}
          BY DEF PastSwitch
        <4>2. z = w
          BY <2>5, <4>1 DEF OneAtATime
        <4> QED
          BY <2>5, <4>1, <4>2
      <3>4. \A x \in Workers : pc'[x] # "idle" /\ o \in cur'[x] => pc'[x] \in {"finish", "cancel"}
        BY <2>2, <2>5, <3>2 DEF PastSwitch
      <3> QED
        BY <3>1, <3>3, <3>4 DEF PastSwitch
    <2>6. CASE pc[w] # "idle" /\ o \in cur[w]
      <3>1. pc[w] \in {"finish", "cancel"} /\ cur[w] = {o}
        BY <1>0, <2>6 DEF PastSwitch, WorkerKnows
      <3>2. Finish(w, o) \/ Conclude(w, o)
        BY <2>1, <3>1 DEF WorkerStep, Poll, Claim, Build, Check, Stage, List, Replay, Write,
           Stopped, Collect, Activate, Finish, Conclude, At
      <3>3. cur'[w] = {} /\ pc'[w] = "idle"
        BY <1>0, <3>2, LeaveType DEF Finish, Conclude, Leave, WorkerTypes
      <3>4. op'[o] = op[o] \/ op'[o].status \in {"SUCCEEDED", "CANCELLED"}
        <4>1. \A status \in Runnable \cup Finished : Save(o, status) => op'[o].status = status
          BY <1>0, SaveType
        <4> QED
          BY <3>1, <3>2, <4>1 DEF Finish, Conclude, Finished
      <3>5. op'[o].status # "RUNNING"
        <4> SUFFICES ASSUME op'[o] = op[o], op[o].status = "RUNNING" PROVE FALSE
          BY <3>4
        <4>1. PICK z \in Workers : pc[z] = "finish" /\ cur[z] = {o} /\ staged[z] = op[o].revision
          BY DEF PastSwitch
        <4>2. z = w
          BY <2>6, <4>1 DEF OneAtATime
        <4>3. Save(o, "SUCCEEDED")
          BY <3>2, <4>1, <4>2 DEF Finish, Conclude
        <4>4. op'[o].status = "SUCCEEDED"
          BY <1>0, <4>3, SaveType DEF Finished
        <4> QED
          BY <4>4
      <3>6. \A x \in Workers : pc'[x] # "idle" /\ o \in cur'[x] => pc'[x] \in {"finish", "cancel"}
        BY <2>2, <3>3 DEF PastSwitch
      <3>7. op'[o].status \in {"RUNNING", "CANCEL_REQUESTED", "SUCCEEDED", "CANCELLED"}
        BY <3>4 DEF PastSwitch
      <3> QED
        BY <3>5, <3>6, <3>7 DEF PastSwitch
    <2> QED
      BY <2>4, <2>5, <2>6
  <1>4. CASE LiveStep
    BY <1>1, <1>4 DEF LiveStep, LiveArchive, LiveRead, LiveCommit, workerVars
  <1>5. CASE UNCHANGED vars
    BY <1>1, <1>5 DEF vars
  <1> QED
    BY <1>2, <1>3, <1>4, <1>5 DEF Next

\* The save of the staging generation is the last one of the operation while it is RUNNING.
LEMMA StagedStays ==
  ASSUME RebuildTypes, KnowsInv, OwnsInv, OneAtATime, [Next]_vars,
         \A w \in Workers : StagedLast(w)
  PROVE  \A w \in Workers : StagedLast(w)'
  <1>0. op \in [Ops -> OperationSet] /\ WorkerTypes /\ CallsKnow
        /\ \A w \in Workers : WorkerKnows(w)
    BY TypesInParts DEF KnowsInv
  <1>1. ASSUME UNCHANGED <<op, pc, cur, staged>> PROVE \A w \in Workers : StagedLast(w)'
    BY <1>1 DEF StagedLast
  <1>2. ASSUME NEW c \in Callers, ApiStep(c) PROVE \A w \in Workers : StagedLast(w)'
    <2>1. UNCHANGED <<pc, cur, staged>>
      BY <1>2 DEF ApiStep, Start, Cancel, StartCommit, CancelCommit, CancelReceipt, workerVars
    <2>2. \A o \in Ops : op'[o] = op[o] \/ op'[o].status # "RUNNING"
      BY <1>2, ApiWrites
    <2>3. \A w \in Workers : cur[w] \subseteq Ops
      BY <1>0 DEF WorkerTypes
    <2> QED
      BY <2>1, <2>2, <2>3 DEF StagedLast
  <1>3. ASSUME NEW w \in Workers, WorkerStep(w) \/ Interrupted(w) \/ StoreFails(w)
        PROVE  \A x \in Workers : StagedLast(x)'
    <2>1. ASSUME NEW x \in Workers, x # w PROVE StagedLast(x)'
      <3>1. pc'[x] = pc[x] /\ cur'[x] = cur[x] /\ staged'[x] = staged[x]
        BY <1>0, <1>3, <2>1, OthersStay
      <3>2. CASE pc[x] = "idle"
        BY <3>1, <3>2 DEF StagedLast, AfterStage
      <3>3. CASE pc[x] # "idle"
        <4>1. pc[w] = "idle"
          BY <2>1, <3>3 DEF OneAtATime
        <4>2. op' = op
          BY <1>3, <4>1 DEF WorkerStep, Interrupted, StoreFails, Poll, Build, Check, List, Replay,
             Stopped, Collect, Claim, Stage, Finish, Conclude, Write, Activate, At
        <4> QED
          BY <3>1, <4>2 DEF StagedLast
      <3> QED
        BY <3>2, <3>3
    <2>2. StagedLast(w)'
      <3>1. ASSUME Leave(w) PROVE StagedLast(w)'
        <4>1. cur'[w] = {}
          BY <1>0, <3>1 DEF Leave, WorkerTypes
        <4> QED
          BY <4>1 DEF StagedLast
      <3>2. ASSUME NEW step \in WorkerSteps, Goto(w, step),
                   step \in AfterStage => pc[w] \in AfterStage, UNCHANGED <<op, cur, staged>>
            PROVE  StagedLast(w)'
        BY <1>0, <3>2, GoesOn DEF StagedLast
      <3>3. ASSUME NEW o \in Ops, Poll(w, o) PROVE StagedLast(w)'
        <4>1. PICK step \in {"claim", "build", "cancel"} : Goto(w, step)
          BY <3>3 DEF Poll
        <4>2. pc'[w] = step
          BY <1>0, <4>1, GoesOn DEF WorkerSteps
        <4> QED
          BY <4>2 DEF StagedLast, AfterStage
      <3>4. ASSUME NEW o \in Ops, Claim(w, o) PROVE StagedLast(w)'
        <4>1. Leave(w) \/ Goto(w, "build")
          BY <3>4 DEF Claim, CompareAndSave
        <4>2. ASSUME Goto(w, "build") PROVE pc'[w] = "build"
          BY <1>0, <4>2, GoesOn DEF WorkerSteps
        <4> QED
          BY <3>1, <4>1, <4>2 DEF StagedLast, AfterStage
      <3>5. ASSUME NEW o \in Ops, Stage(w, o) PROVE StagedLast(w)'
        <4>1. CASE Leave(w)
          BY <3>1, <4>1
        <4>2. CASE /\ op[o].revision = rev[w] /\ Save(o, "RUNNING")
                   /\ staged' = [staged EXCEPT ![w] = rev[w] + 1] /\ UNCHANGED cur
          <5>1. op'[o].revision = op[o].revision + 1
            BY <1>0, <4>2, SaveType DEF Runnable
          <5>2. staged'[w] = rev[w] + 1 /\ cur'[w] = {o}
            BY <1>0, <3>5, <4>2 DEF WorkerTypes, Stage, At
          <5> QED
            BY <4>2, <5>1, <5>2 DEF StagedLast
        <4> QED
          BY <3>5, <4>1, <4>2 DEF Stage, CompareAndSave
      <3>6. ASSUME NEW o \in Ops, Check(w, o) PROVE StagedLast(w)'
        <4>1. \/ Leave(w)
              \/ \E step \in {"stage", "list", "collect", "failsave", "cancel"} :
                   /\ Goto(w, step) /\ UNCHANGED <<op, cur, staged>>
                   /\ step \in AfterStage => pc[w] \in AfterStage
          BY <3>6 DEF Check, CheckThen, At, AfterStage
        <4> QED
          BY <3>1, <3>2, <4>1 DEF WorkerSteps
      <3>7. ASSUME NEW o \in Ops, Build(w, o) PROVE StagedLast(w)'
        BY <3>2, <3>7 DEF Build, AfterStage, WorkerSteps
      <3>8. ASSUME NEW o \in Ops, List(w, o) PROVE StagedLast(w)'
        BY <3>2, <3>8 DEF List, At, AfterStage, WorkerSteps
      <3>9. ASSUME NEW o \in Ops, Replay(w, o) PROVE StagedLast(w)'
        <4>1. PICK step \in {"verify", "stopped", "fail", "replay", "write"} : Goto(w, step)
          BY <3>9 DEF Replay
        <4> QED
          BY <3>2, <3>9, <4>1 DEF Replay, At, AfterStage, WorkerSteps
      <3>10. ASSUME NEW o \in Ops, Write(w, o) \/ Collect(w, o) \/ Activate(w, o)
             PROVE  StagedLast(w)'
        BY <3>2, <3>10 DEF Write, Collect, Activate, At, AfterStage, WorkerSteps
      <3>11. ASSUME NEW o \in Ops, Stopped(w, o) PROVE StagedLast(w)'
        BY <3>1, <3>2, <3>11 DEF Stopped, AfterStage, WorkerSteps
      <3>12. ASSUME NEW o \in Ops, Finish(w, o) \/ Conclude(w, o) PROVE StagedLast(w)'
        BY <3>1, <3>12 DEF Finish, Conclude
      <3>13. CASE Interrupted(w) \/ StoreFails(w)
        BY <3>1, <3>2, <3>13 DEF Interrupted, StoreFails, AfterStage, WorkerSteps
      <3> QED
        BY <1>3, <3>3, <3>4, <3>5, <3>6, <3>7, <3>8, <3>9, <3>10, <3>11, <3>12, <3>13
           DEF WorkerStep
    <2> QED
      BY <2>1, <2>2
  <1>4. CASE LiveStep
    BY <1>1, <1>4 DEF LiveStep, LiveArchive, LiveRead, LiveCommit, workerVars
  <1>5. CASE UNCHANGED vars
    BY <1>1, <1>5 DEF vars
  <1> QED
    BY <1>2, <1>3, <1>4, <1>5 DEF Next

\* An operation that switches the pointer has not done so before, and does not again.
LEMMA SwitchPasses ==
  ASSUME RebuildTypes, KnowsInv, OwnsInv, OneAtATime, NEW w \in Workers, StagedLast(w),
         NEW o \in Ops, Activate(w, o), Goto(w, "finish")
  PROVE  PastSwitch(o)'
  <1>0. WorkerTypes /\ WorkerOwns(w)
    BY TypesInParts DEF OwnsInv
  <1>1. pc[w] = "activate" /\ cur[w] = {o} /\ UNCHANGED <<op, cur, staged>>
    BY DEF Activate, At
  <1>2. pc'[w] = "finish"
    BY <1>0, GoesOn DEF WorkerSteps
  <1>3. op[o].status \in {"RUNNING", "CANCEL_REQUESTED"}
    BY <1>0, <1>1 DEF WorkerOwns, Expected
  <1>4. op[o].status = "RUNNING" => staged[w] = op[o].revision
    BY <1>1 DEF StagedLast, AfterStage
  <1>5. ASSUME NEW x \in Workers, pc'[x] # "idle" PROVE x = w
    <2> SUFFICES ASSUME x # w PROVE FALSE
      OBVIOUS
    <2>1. pc'[x] = pc[x]
      BY OthersStay, <1>0 DEF WorkerStep
    <2> QED
      BY <1>1, <1>5, <2>1 DEF OneAtATime
  <1> QED
    BY <1>1, <1>2, <1>3, <1>4, <1>5 DEF PastSwitch

LEMMA NextSwitches ==
  ASSUME RebuildTypes, KnowsInv, OwnsInv, OneAtATime, OneAtATime', SwitchesInv, [Next]_vars
  PROVE  SwitchesInv'
  <1>1. \A w \in Workers : StagedLast(w)'
    BY StagedStays DEF SwitchesInv
  <1>2. ASSUME ~Cause'
        PROVE  /\ \A o \in active' : PastSwitch(o)'
               /\ retired' => \E a, b \in Ops : a # b /\ PastSwitch(a)' /\ PastSwitch(b)'
    <2>1. ~Cause
      BY <1>2, CauseStays
    <2>2. faults' = faults
      <3>1. faults' # faults + 1
        <4>1. faults' = faults + 1 => faults' > 0
          BY CauseStays
        <4> QED
          BY <1>2, <4>1 DEF Cause
      <3> QED
        BY <3>1, CauseStays
    <2>3. \A o \in Ops : PastSwitch(o) => PastSwitch(o)'
      BY <2>2, PastStays
    <2>4. active \subseteq Ops /\ \A o \in active : PastSwitch(o)
      BY <2>1 DEF SwitchesInv, RebuildTypes, TypeOK
    <2>5. retired => \E a, b \in Ops : a # b /\ PastSwitch(a) /\ PastSwitch(b)
      BY <2>1 DEF SwitchesInv
    <2>6. CASE active' = active /\ retired' = retired
      BY <2>3, <2>4, <2>5, <2>6
    <2>7. ASSUME NEW w \in Workers, NEW o \in Ops, Activate(w, o), Goto(w, "finish"),
                 active' = {o}, retired' = (retired \/ active # {})
          PROVE  /\ \A x \in active' : PastSwitch(x)'
                 /\ retired' => \E a, b \in Ops : a # b /\ PastSwitch(a)' /\ PastSwitch(b)'
      <3>1. PastSwitch(o)'
        BY <2>7, SwitchPasses DEF SwitchesInv
      <3>2. ~PastSwitch(o)
        BY <2>7 DEF Activate, At, PastSwitch
      <3>3. CASE retired
        BY <2>3, <2>5, <2>7, <3>1, <3>3
      <3>4. CASE active # {}
        <4>1. PICK a \in active : TRUE
          BY <3>4
        <4>2. a \in Ops /\ a # o /\ PastSwitch(a)'
          BY <2>3, <2>4, <3>2
        <4> QED
          BY <2>7, <3>1, <4>2
      <3>5. CASE ~retired /\ active = {}
        <4>1. ~retired'
          BY <2>7, <3>5
        <4> QED
          BY <2>7, <3>1, <4>1
      <3> QED
        BY <3>3, <3>4, <3>5
    <2>8. \/ active' = active /\ retired' = retired
          \/ \E w \in Workers, o \in Ops :
               Activate(w, o) /\ Goto(w, "finish") /\ active' = {o} /\ retired' = (retired \/ active # {})
      <3>1. ASSUME NEW w \in Workers, WorkerStep(w)
            PROVE  \/ active' = active /\ retired' = retired
                   \/ \E o \in Ops : Activate(w, o) /\ Goto(w, "finish") /\ active' = {o}
                                     /\ retired' = (retired \/ active # {})
        <4>1. ASSUME NEW o \in Ops, Activate(w, o)
              PROVE  \/ active' = active /\ retired' = retired
                     \/ Goto(w, "finish") /\ active' = {o} /\ retired' = (retired \/ active # {})
          BY <4>1 DEF Activate
        <4> QED
          BY <3>1, <4>1 DEF WorkerStep, Poll, Build, Check, List, Replay, Stopped, Collect, Claim,
             Stage, Finish, Conclude, Write, dataVars
      <3>2. ASSUME NEW w \in Workers, Interrupted(w) \/ StoreFails(w)
            PROVE  active' = active /\ retired' = retired
        BY <3>2 DEF Interrupted, StoreFails, dataVars
      <3>3. ASSUME NEW c \in Callers, ApiStep(c) PROVE active' = active /\ retired' = retired
        BY <3>3 DEF ApiStep, Start, Cancel, StartCommit, CancelCommit, CancelReceipt, dataVars
      <3>4. ASSUME LiveStep \/ UNCHANGED vars PROVE active' = active /\ retired' = retired
        BY <3>4 DEF LiveStep, LiveArchive, LiveRead, LiveCommit, dataVars, vars
      <3> QED
        BY <3>1, <3>2, <3>3, <3>4 DEF Next
    <2> QED
      BY <2>6, <2>7, <2>8
  <1> QED
    BY <1>1, <1>2 DEF SwitchesInv

\* The pointers of two rebuilds never get in each other's way.
LEMMA SwitchIsFree ==
  ASSUME AtMostTwo, RebuildTypes, KnowsInv, SwitchesInv, ~Cause, NEW w \in Workers, pc[w] = "activate"
  PROVE  ~retired
  <1> SUFFICES ASSUME retired PROVE FALSE
    OBVIOUS
  <1>1. PICK o \in Ops : cur[w] = {o}
    BY DEF KnowsInv, WorkerKnows
  <1>2. ~PastSwitch(o)
    BY <1>1 DEF PastSwitch
  <1>3. PICK a, b \in Ops : a # b /\ PastSwitch(a) /\ PastSwitch(b)
    BY DEF SwitchesInv
  <1> QED
    BY <1>2, <1>3 DEF AtMostTwo

LEMMA InitSwitches == Init => SwitchesInv
  BY DEF Init, SwitchesInv, StagedLast

\* process and fail: with one worker at a time the first two rebuilds of a table fail only for
\* a fault, an event that the generation refuses or an archive beyond its window, whatever
\* calls, cancellations and live events race with them.
THEOREM FirstTwoFailForCause ==
  ASSUME AtMostTwo
  PROVE  Spec /\ []OneAtATime => []FailsOnlyForCause
  <1>1. Init => KnowsInv /\ OwnsInv /\ SwitchesInv /\ CauseInv
    BY InitKnows, InitSwitches, InitCaused
  <1>2. RebuildTypes /\ KnowsInv /\ [Next]_vars => KnowsInv'
    BY NextKnows
  <1>3. RebuildTypes /\ KnowsInv /\ OwnsInv /\ OneAtATime /\ [Next]_vars => OwnsInv'
    BY OwnsStep
  <1>4. RebuildTypes /\ KnowsInv /\ OwnsInv /\ OneAtATime /\ OneAtATime' /\ SwitchesInv /\ [Next]_vars
          => SwitchesInv'
    BY NextSwitches
  <1>5. RebuildTypes /\ KnowsInv /\ SwitchesInv /\ CauseInv /\ [Next]_vars => CauseInv'
    BY SwitchIsFree, NextCaused
  <1>6. CauseInv => FailsOnlyForCause
    BY CauseIsOne
  <1> QED
    BY <1>1, <1>2, <1>3, <1>4, <1>5, <1>6, TypesInvariant, PTL DEF Spec
-----------------------------------------------------------------------------
(* The properties that the runs check, for every instance of MCProjectionRebuild. *)

MCInv ==
  /\ RebuildTypes /\ KnowsInv
  /\ part # "live" => /\ \A w \in Workers \ {w1} : pc[w] = "idle"
                      /\ OwnsInv /\ CoverInv

LEMMA MCStep ==
  ASSUME MCInv, [MCNext]_allVars
  PROVE  MCInv' /\ [part # "live" => \A o \in Ops : OperationStep(o)]_allVars
  <1>1. [Next]_vars /\ part' = part
    BY DEF MCNext, Next, allVars
  <1>2. RebuildTypes' /\ KnowsInv'
    BY <1>1, NextTypes, NextKnows DEF MCInv
  <1>3. CASE part = "live"
    BY <1>1, <1>2, <1>3 DEF MCInv
  <1>4. CASE part # "live"
    <2>1. OneAtATime
      BY <1>4 DEF MCInv, OneAtATime
    <2>2. [RestingNext]_vars
      BY <1>4 DEF MCNext, RestingNext, allVars
    <2>3. OwnsInv' /\ \A o \in Ops : OperationStep(o)
      BY <1>1, <1>4, <2>1, OwnsStep DEF MCInv
    <2>4. CoverInv'
      BY <1>4, <2>1, <2>2, NextCovers DEF MCInv
    <2>5. \A w \in Workers \ {w1} : pc'[w] = "idle"
      <3>1. CASE MCNext
        BY <1>4, <3>1 DEF MCNext, Within, OneWorker
      <3>2. CASE UNCHANGED allVars
        BY <1>4, <3>2 DEF MCInv, allVars, vars
      <3> QED
        BY <3>1, <3>2
    <2> QED
      BY <1>1, <1>2, <2>3, <2>4, <2>5 DEF MCInv
  <1> QED
    BY <1>3, <1>4

LEMMA MCInvariant == MCSpec => []MCInv
  <1>1. MCInit => MCInv
    <2> SUFFICES ASSUME MCInit PROVE MCInv
      OBVIOUS
    <2>1. Init
      BY DEF MCInit
    <2>2. \A w \in Workers : pc[w] = "idle"
      BY <2>1 DEF Init
    <2> QED
      BY <2>1, <2>2, InitTypes, InitKnows, InitCovers DEF MCInv
  <1>2. MCInv /\ [MCNext]_allVars => MCInv'
    BY MCStep
  <1> QED
    BY <1>1, <1>2, PTL DEF MCSpec

\* Start, Cancel and process: whatever calls race with a worker, and however often it is
\* interrupted, an operation follows the documented state machine, is created with the
\* receipt of one key, and stays as it ended.
THEOREM OperationsFollow == MCSpec => StateMachineFollowed
  <1>1. MCInv /\ [MCNext]_allVars => [part # "live" => \A o \in Ops : OperationStep(o)]_allVars
    BY MCStep
  <1> QED
    BY <1>1, MCInvariant, PTL DEF MCSpec, StateMachineFollowed

\* activateReadPointers: while the projector rests, no switch shows readers a collection
\* that is behind the checkpoint.
THEOREM RestingSwitchCovers == MCSpec => []RestingSwitchCoversCheckpoint
  <1>1. MCInv => RestingSwitchCoversCheckpoint
    BY DEF MCInv, CoverInv, RestingSwitchCoversCheckpoint
  <1> QED
    BY <1>1, MCInvariant, PTL
=============================================================================
