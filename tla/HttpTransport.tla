---------------------------- MODULE HttpTransport ----------------------------
(***************************************************************************)
(* The HTTP clients of one dependency (internal/platform/httpclient):      *)
(* RetryTransport around LimitTransport, so that a request that waits to   *)
(* be repeated holds no slot.                                              *)
(*                                                                         *)
(* A slot is returned with the headers of an answer; reading its body is   *)
(* part of what the caller does with it.                                   *)
(***************************************************************************)
EXTENDS Naturals, FiniteSets

CONSTANTS Clients,      \* goroutines that issue requests, one at a time each
          Slots,        \* capacity of LimitTransport.slots
          MaxAttempts   \* RetryTransport.MaxAttempts

ASSUME HttpAssumption ==
    /\ Slots \in Nat \ {0}
    /\ MaxAttempts \in Nat \ {0}

VARIABLES call,     \* call[c] : where the request of c is
          attempt   \* attempt[c]

httpVars == <<call, attempt>>

CallStates == {"none", "waiting", "sent", "backoff", "answered", "failed"}

HttpTypeOK ==
    /\ call \in [Clients -> CallStates]
    /\ attempt \in [Clients -> 0..MaxAttempts]
    /\ \A c \in Clients : call[c] = "backoff" => attempt[c] < MaxAttempts

HttpInit ==
    /\ call = [c \in Clients |-> "none"]
    /\ attempt = [c \in Clients |-> 0]

\* The exchanges that occupy a slot.
Sent == {c \in Clients : call[c] = "sent"}

Moves(c, to) == call' = [call EXCEPT ![c] = to]

Issue(c) ==
    /\ call[c] = "none"
    /\ Moves(c, "waiting")
    /\ attempt' = [attempt EXCEPT ![c] = 1]

TakeSlot(c) ==
    /\ call[c] = "waiting"
    /\ Cardinality(Sent) < Slots
    /\ Moves(c, "sent")
    /\ UNCHANGED attempt

\* An answer to keep, a status that may be asked again (429, 5xx), or an error,
\* which is not.
Respond(c) ==
    /\ call[c] = "sent"
    /\ \/ Moves(c, "answered")
       \/ Moves(c, "failed")
       \/ attempt[c] < MaxAttempts /\ Moves(c, "backoff")
    /\ UNCHANGED attempt

\* The wrong one (for mutation) does not count.
RepeatUncounted(c) ==
    /\ call[c] = "backoff"
    /\ Moves(c, "waiting")
    /\ UNCHANGED attempt
Repeat(c) ==
    /\ call[c] = "backoff"
    /\ Moves(c, "waiting")
    /\ attempt' = [attempt EXCEPT ![c] = @ + 1]

\* The context ends (a cancellation or the client's timeout) while the request
\* waits for a slot or for its next attempt.
GiveUp(c) ==
    /\ call[c] \in {"waiting", "backoff"}
    /\ Moves(c, "failed")
    /\ UNCHANGED attempt

\* The caller takes what came of it.
Return(c) ==
    /\ call[c] \in {"answered", "failed"}
    /\ Moves(c, "none")
    /\ attempt' = [attempt EXCEPT ![c] = 0]

Exchange(c) == TakeSlot(c) \/ Respond(c) \/ Repeat(c) \/ GiveUp(c)
=============================================================================
