------------------------ MODULE MCProjectionRebuild -------------------------
(* ProjectionRebuild for TLC.  `part' says what a behaviour is about: callers   *)
(* racing for two operations ("control"), two workers on one operation while    *)
(* the projector is live ("live"), or rebuilds that meet a fault while the      *)
(* projector rests ("fair").                                                    *)
EXTENDS ProjectionRebuild

CONSTANTS o1, w1, c1
VARIABLE part
allVars == <<part, vars>>

MCInit == Init /\ part \in {"control", "live", "fair"}

Resting == \A w \in Workers : pc[w] = "idle"
OneWorker == \A w \in Workers \ {w1} : pc'[w] = "idle"
OneCaller == \A c \in Callers \ {c1} : call'[c] = {}

Within ==
  \/ part = "control" /\ OneWorker /\ archive' = {} /\ faults' = 0
  \/ part = "live" /\ OneCaller /\ faults' = 0 /\ cancels' <= 1
     /\ Cardinality(archive') <= 2 /\ created'["k2"] = {} /\ cancelled'["k2"] = {}
     /\ \A o \in Ops : op'[o].revision <= IF o = o1 THEN 3 ELSE 0
  \/ part = "fair" /\ OneCaller /\ OneWorker /\ cancels' = 0

MCWorkerStep(w) == WorkerStep(w) /\ Within /\ UNCHANGED part
MCNext ==
  /\ UNCHANGED part
  /\ \/ \E c \in Callers : ApiStep(c)
     \/ \E w \in Workers : WorkerStep(w) \/ Interrupted(w) \/ StoreFails(w)
     \/ LiveStep /\ (part # "live" => Resting)
  /\ Within
\* A worker polls until its process stops, and is started again after that.
MCSpec == MCInit /\ [][MCNext]_allVars /\ \A w \in Workers : WF_allVars(MCWorkerStep(w))

-----------------------------------------------------------------------------
\* With one worker at a time, an operation follows the documented state machine
\* whatever calls race with it.  (Of two workers on one operation, the slower one
\* takes SUCCEEDED for a cancellation and overwrites it: rebuild.go:436, 493.)
StateMachineFollowed == [][part # "live" => \A o \in Ops : OperationStep(o)]_allVars

\* While the live projector rests, a pointer switch never puts a collection in
\* front of readers that is behind the checkpoint.
RestingSwitchCoversCheckpoint == part # "live" => VisibleCoversCheckpoint

\* Of rebuilds that nobody cancels, one that a worker has started ends, also
\* across an interruption or a store error.
RebuildsFinish ==
  \A o \in Ops : part = "fair" /\ op[o].status = "RUNNING" ~> op[o].status \in Finished
=============================================================================
