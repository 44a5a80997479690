---------------------------- MODULE MCBatchQueue ----------------------------
(* Values of the queue's constants for TLC. *)
EXTENDS BatchQueueProps, TLC

\* Workers are interchangeable; used where no liveness is checked.
WorkerSymmetry == Permutations(Workers)
=============================================================================
