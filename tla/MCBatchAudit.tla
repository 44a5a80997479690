---------------------------- MODULE MCBatchAudit ----------------------------
(* Values of the composition's constants for TLC. *)
EXTENDS BatchAudit, BatchQueueProps, TLC

\* Workers are interchangeable.
WorkerSymmetry == Permutations(Workers)
=============================================================================
