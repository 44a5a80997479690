----------------------------- MODULE MCApiServer -----------------------------
(* Values of the constants of the HTTP server for TLC: units of half a token. *)
EXTENDS ApiServer

MCRate  == [k \in Limits |-> IF k = "api" THEN 1 ELSE 2]
MCBurst == [k \in Limits |-> IF k = "api" THEN 1 ELSE 2]
=============================================================================
