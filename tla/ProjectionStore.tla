--------------------------- MODULE ProjectionStore ---------------------------
(***************************************************************************)
(* The pure decisions of the Mongo projection repository                   *)
(* (modules/projection/store.go): how the version carried by an event is   *)
(* compared with the checkpoint of its aggregate, and what the checkpoint  *)
(* document looks like.  Every module that applies events uses these.      *)
(***************************************************************************)
EXTENDS Naturals

\* ProjectionCheckpoint.Status; "NONE" stands for a checkpoint document that
\* does not exist (its version is then 0).
CheckpointStatus == {"NONE", "CURRENT", "GAP"}

NoCheckpoint == [version |-> 0, status |-> "NONE"]

\* currentVersion is 0 when the document does not exist.
classifyCheckpoint(current, incomingVersion) ==
  IF incomingVersion <= current.version THEN "stale"
  ELSE IF incomingVersion # current.version + 1 THEN "gap"
  ELSE "apply"

\* The checkpoint written with a record: $set of the whole input document.
AdvancedCheckpoint(incomingVersion) ==
  [version |-> incomingVersion, status |-> "CURRENT"]

\* A gap only touches the status, and only of a document that exists.
GapCheckpoint(current) ==
  IF current.status = "NONE" THEN current ELSE [current EXCEPT !.status = "GAP"]
=============================================================================
