------------------------------- MODULE ApiServer -------------------------------
(***************************************************************************)
(* The HTTP server: who is let in (internal/api/httpapi/server.go) and what  *)
(* /ready answers (internal/observability/readiness.go), wired in            *)
(* cmd/api/main.go.                                                         *)
(*                                                                         *)
(* Time is in ticks, the same for limits and checks, and tokens in Units of  *)
(* a token: of the rounding of seconds and floats nothing is kept.  A check  *)
(* keeps for every dependency when it was seen up, or Down.                  *)
(***************************************************************************)
EXTENDS Naturals, FiniteSets

CONSTANTS Callers,      \* requests for /ready at one time
          Dependencies, \* postgres, bitrix, ollama
          Pending, Down, None,
          Unit,         \* units of a token
          Rate, Burst,  \* of each limit: units for a tick, tokens at most
          Timeout, TTL, \* of a check, of its answer
          MaxTime       \* bound: ticks

Limits == {"api", "ready"}

\* What a check has found, and the answer that is kept: when it was given, and what it says.
Findings == [Dependencies -> 0..MaxTime \cup {Down}]
Answers  == [at : 0..MaxTime, found : Findings]

ASSUME ApiAssumption ==
    /\ IsFiniteSet(Callers) /\ IsFiniteSet(Dependencies)
    /\ {Pending, Down, None} \cap Nat = {} /\ None \notin Answers
    /\ {Unit, Timeout, TTL} \subseteq Nat \ {0} /\ MaxTime \in Nat
    /\ Rate \in [Limits -> Nat] /\ Burst \in [Limits -> Nat]

VARIABLES
    now,
    up,        \* dependencies that would answer
    bucket,    \* of each limit the units that were left, and when
    admitted,  \* requests that each limit has let in since each tick
    pc,        \* where the request of a caller is
    since,     \* when it came
    left,      \* callers who check though their client is gone
    got,       \* got[c]: what the check that c makes has found
    begun,     \* when it began
    checking,  \* the flag of the check in flight
    last,      \* the answer that is kept, and since when
    answer     \* answer[c]: what c is told

limitVars == <<bucket, admitted>>
checkVars == <<pc, since, left, got, begun, checking, last, answer>>
apiVars   == <<now, up, limitVars, checkVars>>

ApiTypeOK ==
    /\ now \in 0..MaxTime
    /\ up \subseteq Dependencies
    /\ bucket \in [Limits -> [units : Nat, at : 0..MaxTime]]
    /\ \A k \in Limits : bucket[k].units <= Burst[k] * Unit
    /\ admitted \in [Limits -> [0..MaxTime -> Nat]]
    /\ pc \in [Callers -> {"idle", "leading", "waiting", "woken", "answered"}]
    /\ since \in [Callers -> 0..MaxTime]
    /\ left \subseteq Callers
    /\ got \in [Callers -> [Dependencies -> 0..MaxTime \cup {Down, Pending}]]
    /\ begun \in [Callers -> 0..MaxTime]
    /\ checking \in BOOLEAN
    /\ last \in Answers \cup {None}
    /\ answer \in [Callers -> Findings \cup {None}]

Unchecked == [d \in Dependencies |-> Pending]

ApiInit ==
    /\ now = 0 /\ up = Dependencies
    /\ bucket = [k \in Limits |-> [units |-> Burst[k] * Unit, at |-> 0]]
    /\ admitted = [k \in Limits |-> [t \in 0..MaxTime |-> 0]]
    /\ pc = [c \in Callers |-> "idle"] /\ since = [c \in Callers |-> 0]
    /\ left = {}
    /\ got = [c \in Callers |-> Unchecked] /\ begun = [c \in Callers |-> 0]
    /\ checking = FALSE /\ last = None
    /\ answer = [c \in Callers |-> None]

-----------------------------------------------------------------------------
(* Time, and the world. *)

Overdue(c) == pc[c] = "leading" /\ now >= begun[c] + Timeout

\* The context of a check ends it on time.
Tick ==
    /\ now < MaxTime /\ ~\E c \in Callers : Overdue(c)
    /\ now' = now + 1
    /\ UNCHANGED <<up, limitVars, checkVars>>

Fails(d)    == d \in up /\ up' = up \ {d} /\ UNCHANGED <<now, limitVars, checkVars>>
Recovers(d) == d \notin up /\ up' = up \cup {d} /\ UNCHANGED <<now, limitVars, checkVars>>

-----------------------------------------------------------------------------
(* tokenBucket. *)

\* What has come in since the last call, up to the burst.  The wrong one (for mutation)
\* forgets the burst.
RefilledUncapped(k) == bucket[k].units + (now - bucket[k].at) * Rate[k]
Refilled(k) ==
    LET units == bucket[k].units + (now - bucket[k].at) * Rate[k]
    IN  IF units > Burst[k] * Unit THEN Burst[k] * Unit ELSE units

Admit(k) ==
    /\ Refilled(k) >= Unit
    /\ bucket' = [bucket EXCEPT ![k] = [units |-> Refilled(k) - Unit, at |-> now]]
    /\ admitted' = [admitted EXCEPT ![k] = [t \in 0..MaxTime |-> IF t <= now THEN @[t] + 1 ELSE @[t]]]

\* 429: the call counts as the last one.
Refuse(k) ==
    /\ Refilled(k) < Unit
    /\ bucket' = [bucket EXCEPT ![k] = [units |-> Refilled(k), at |-> now]]
    /\ UNCHANGED <<now, up, admitted, checkVars>>

\* Any other path: to its handler, or to 401 without the key.
Request == Admit("api") /\ UNCHANGED <<now, up, checkVars>>

-----------------------------------------------------------------------------
(* Readiness.Check. *)

\* The wrong one (for mutation) keeps an answer for good.
FreshForEver == last # None
Fresh == last # None /\ now - last.at < TTL

Enters(c, where) ==
    /\ pc[c] = "idle"
    /\ Admit("ready")
    /\ pc' = [pc EXCEPT ![c] = where]
    /\ since' = [since EXCEPT ![c] = now]
    /\ UNCHANGED <<now, up, left>>

Cached(c) ==
    /\ Fresh
    /\ Enters(c, "answered")
    /\ answer' = [answer EXCEPT ![c] = last.found]
    /\ UNCHANGED <<got, begun, checking, last>>

Join(c) ==
    /\ ~Fresh /\ checking
    /\ Enters(c, "waiting")
    /\ UNCHANGED <<got, begun, checking, last, answer>>

Lead(c) ==
    /\ ~Fresh /\ ~checking
    /\ Enters(c, "leading")
    /\ checking' = TRUE
    /\ begun' = [begun EXCEPT ![c] = now]
    /\ got' = [got EXCEPT ![c] = Unchecked]
    /\ UNCHANGED <<last, answer>>

\* The check runs in the context of the request it came with.
CutShort(c) == c \in left \/ Overdue(c)

CheckEnds(c, d) ==
    /\ pc[c] = "leading" /\ got[c][d] = Pending
    /\ \E found \in {now, Down} :
          /\ found = now => d \in up
          /\ found = Down => d \notin up \/ CutShort(c)
          /\ got' = [got EXCEPT ![c][d] = found]
    /\ UNCHANGED <<now, up, limitVars, pc, since, left, begun, checking, last, answer>>

\* All three have answered: the answer is kept, and those who wait are woken.
\* The wrong one (for mutation) wakes them only if the client is still there.
WakesIfPresent(c, w) == pc[w] = "waiting" /\ c \notin left
Wakes(c, w) == pc[w] = "waiting"

Publish(c) ==
    /\ pc[c] = "leading" /\ \A d \in Dependencies : got[c][d] # Pending
    /\ last' = [at |-> now, found |-> got[c]]
    /\ checking' = FALSE
    /\ pc' = [w \in Callers |-> IF w = c THEN (IF c \in left THEN "idle" ELSE "answered")
                                ELSE IF Wakes(c, w) THEN "woken" ELSE pc[w]]
    /\ answer' = IF c \in left THEN answer ELSE [answer EXCEPT ![c] = got[c]]
    /\ got' = [got EXCEPT ![c] = Unchecked]
    /\ left' = left \ {c}
    /\ begun' = [begun EXCEPT ![c] = 0]
    /\ UNCHANGED <<now, up, limitVars, since>>

Wake(c) ==
    /\ pc[c] = "woken"
    /\ pc' = [pc EXCEPT ![c] = "answered"]
    /\ answer' = [answer EXCEPT ![c] = last.found]
    /\ UNCHANGED <<now, up, limitVars, since, left, got, begun, checking, last>>

\* The client goes away: who waits returns at once, who checks goes on.  The wrong
\* one (for mutation) gives up the check.
StillCheckingNever(c) == checking /\ pc[c] # "leading"
StillChecking(c) == checking

Leave(c) ==
    /\ c \notin left /\ pc[c] \in {"leading", "waiting", "woken"}
    /\ left' = IF pc[c] = "leading" THEN left \cup {c} ELSE left
    /\ pc' = [pc EXCEPT ![c] = IF @ = "leading" THEN @ ELSE "idle"]
    /\ since' = [since EXCEPT ![c] = 0]
    /\ checking' = StillChecking(c)
    /\ UNCHANGED <<now, up, limitVars, got, begun, last, answer>>

Return(c) ==
    /\ pc[c] = "answered"
    /\ pc' = [pc EXCEPT ![c] = "idle"]
    /\ answer' = [answer EXCEPT ![c] = None]
    /\ since' = [since EXCEPT ![c] = 0]
    /\ UNCHANGED <<now, up, limitVars, left, got, begun, checking, last>>

Ready(c) ==
    \/ Cached(c) \/ Join(c) \/ Lead(c)
    \/ \E d \in Dependencies : CheckEnds(c, d)
    \/ Publish(c) \/ Wake(c) \/ Leave(c) \/ Return(c)

ApiNext ==
    \/ Tick \/ Request
    \/ \E d \in Dependencies : Fails(d) \/ Recovers(d)
    \/ \E k \in Limits : Refuse(k)
    \/ \E c \in Callers : Ready(c)

\* Goroutines run, and what a check asks ends with its context at the latest: no step
\* of a client or of the clock is needed.
ApiFairness ==
    \A c \in Callers :
        /\ \A d \in Dependencies : WF_apiVars(CheckEnds(c, d))
        /\ WF_apiVars(Publish(c)) /\ WF_apiVars(Wake(c))

ApiSpec == ApiInit /\ [][ApiNext]_apiVars /\ ApiFairness
-----------------------------------------------------------------------------
(* Properties. *)

\* In no interval, up to any moment, does a limit let in more than its burst and what
\* its rate gives for the time: nothing is refilled twice, and no idle time is saved up.
AdmissionsAreBounded ==
    \A k \in Limits : \A t \in 0..now :
        admitted[k][t] * Unit <= Burst[k] * Unit + (now - t) * Rate[k]

\* However many ask, come and go, one check is in flight, and the flag says so.
OneCheckAtATime ==
    /\ \A c, d \in Callers : pc[c] = "leading" /\ pc[d] = "leading" => c = d
    /\ checking <=> \E c \in Callers : pc[c] = "leading"

\* What is said to be up was seen up not long before the call: within the life of an
\* answer and of the check that gave it.
AnswersAreRecent ==
    \A c \in Callers : answer[c] # None =>
        \A d \in Dependencies : answer[c][d] # Down => since[c] < answer[c][d] + TTL + Timeout

\* Nobody whose client is still there waits longer than a check may take, whether the
\* check is its own or one that another began and whose client has gone away.
WaitsAreBounded ==
    \A c \in Callers :
        pc[c] \in {"leading", "waiting"} /\ c \notin left => now <= since[c] + Timeout

\* Who waits for the check of another is woken, though the other goes away.
WaitersAreWoken ==
    \A c \in Callers : pc[c] = "waiting" ~> pc[c] # "waiting"
=============================================================================
