--------------------------- MODULE MCAuditExecution ---------------------------
(* Values of the execution's constants for TLC. *)
EXTENDS AuditExecution, TLC

\* Executors are interchangeable, and so are keys.
ExecutionSymmetry == Permutations(Executors) \cup Permutations(Keys)
=============================================================================
