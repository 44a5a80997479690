-------------------------- MODULE MCMessageBackfill --------------------------
(* Values of the backfill's constants for TLC. *)
EXTENDS MessageBackfill, TLC

\* Two deals of one contact, whose chat both see, the first with a chat of its own;
\* a deal without conversation.
SharedChats == 1 :> {1, 2} @@ 2 :> {2} @@ 3 :> {}
=============================================================================
