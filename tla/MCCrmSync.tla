----------------------------- MODULE MCCrmSync -----------------------------
(* Values of the CRM synchronization's constants for TLC. *)
EXTENDS CrmSync, TLC

\* Synchronizations are interchangeable, and so are deals.
CrmSymmetry == Permutations(Syncers) \cup Permutations(Deals)

\* What the reader has counted of the deals, and which of those reads were cut short,
\* changes no later step, and the publication run's properties look at neither.
PublicationView ==
    <<tableVars, clock, syncVars, reads, chosen, markedTotal, markedBy, DealReads + 1 \in cut>>
=============================================================================
