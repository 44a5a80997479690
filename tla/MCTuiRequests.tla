---------------------------- MODULE MCTuiRequests ----------------------------
(* Values of the TUI's constants for TLC. *)
EXTENDS TuiRequests, TLC

\* Deals are interchangeable.
TuiSymmetry == Permutations(Deals)
=============================================================================
