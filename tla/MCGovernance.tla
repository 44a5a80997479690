---------------------------- MODULE MCGovernance ----------------------------
(* Values of the constants of deletion and retention for TLC. *)
EXTENDS Governance, TLC

\* Commands, deals and exporters are interchangeable.
GovernanceSymmetry == Permutations(Commands) \cup Permutations(Deals) \cup Permutations(Exporters)

\* What the future does not depend on is left out: how a command has ended, the age of
\* rows that are gone, and that what is gone again came late or unseen.
GovernanceView ==
    <<stored, assessed, raw, referenced, issuedTo, aged \cap Present(assessed), files,
      [c \in Commands |-> IF pc[c] = "done" THEN "failed" ELSE pc[c]],
      [c \in Commands |-> {n \in unseen[c] : files[n] # "none"}],
      [c \in Commands |-> late[c] \cap (Present(stored) \cup Present(assessed))],
      deleteVars, retainVars, disturbed, exportVars>>
=============================================================================
