--------------------------- MODULE MCRecordService ---------------------------
(* RecordService for TLC: requests under way and idempotency keys are          *)
(* interchangeable.                                                            *)
EXTENDS RecordService, TLC

Symmetry == Permutations(Writers) \cup Permutations(Keys)
=============================================================================
