--------------------------- MODULE ApiServer_proofs ----------------------------
(***************************************************************************)
(* Rate limits and readiness for any rates, bursts, callers, dependencies   *)
(* and times.                                                              *)
(*                                                                         *)
(* A limit is an account: what an interval has let in and what the bucket   *)
(* still holds never exceed the burst and what came in since.               *)
(***************************************************************************)
EXTENDS ApiServer, TLAPS

LEMMA OneMore ==
    ASSUME NEW n \in Nat, NEW r \in Nat
    PROVE  (n + 1) * r = n * r + r /\ n * r \in Nat
OBVIOUS

LEMMA NoTime ==
    ASSUME NEW n \in Nat, NEW r \in Nat
    PROVE  (n - n) * r = 0
<1>1. n - n = 0
  OBVIOUS
<1>2. QED
  BY <1>1

-----------------------------------------------------------------------------
(* Types. *)

LEMMA ApiCases ==
    [ApiNext]_apiVars =>
        \/ Tick \/ Request
        \/ \E d \in Dependencies : Fails(d) \/ Recovers(d)
        \/ \E k \in Limits : Refuse(k)
        \/ \E c \in Callers :
              \/ Cached(c) \/ Join(c) \/ Lead(c)
              \/ \E d \in Dependencies : CheckEnds(c, d)
              \/ Publish(c) \/ Wake(c) \/ Leave(c) \/ Return(c)
        \/ UNCHANGED apiVars
BY DEF ApiNext, Ready

LEMMA RefilledIsCapped ==
    ASSUME ApiTypeOK, NEW k \in Limits, bucket[k].at <= now
    PROVE  /\ Refilled(k) \in Nat
           /\ Refilled(k) <= Burst[k] * Unit
<1>1. bucket[k].units \in Nat /\ now - bucket[k].at \in Nat
  BY DEF ApiTypeOK
<1>2. Rate[k] \in Nat /\ Burst[k] * Unit \in Nat
  BY ApiAssumption
<1>3. (now - bucket[k].at) * Rate[k] \in Nat
  BY <1>1, <1>2, OneMore
<1>4. QED
  BY <1>1, <1>2, <1>3 DEF Refilled

\* No bucket was last asked in the future, and who was woken has an answer to take.
ApiTyped ==
    /\ ApiTypeOK
    /\ \A k \in Limits : bucket[k].at <= now
    /\ \A c \in Callers : pc[c] = "woken" => last \in Answers

LEMMA CountsUp ==
    ASSUME NEW f \in [0..MaxTime -> Nat], NEW n \in Nat
    PROVE  [t \in 0..MaxTime |-> IF t <= n THEN f[t] + 1 ELSE f[t]] \in [0..MaxTime -> Nat]
<1>1. \A t \in 0..MaxTime : f[t] \in Nat /\ f[t] + 1 \in Nat
  OBVIOUS
<1>2. QED
  BY <1>1

LEMMA AdmitTyped ==
    ASSUME ApiTyped, NEW k \in Limits, Admit(k), now' = now
    PROVE  /\ bucket' \in [Limits -> [units : Nat, at : 0..MaxTime]]
           /\ \A l \in Limits : bucket'[l].units <= Burst[l] * Unit /\ bucket'[l].at <= now
           /\ admitted' \in [Limits -> [0..MaxTime -> Nat]]
<1> USE DEF ApiTyped, ApiTypeOK
<1>1. Refilled(k) \in Nat /\ Refilled(k) <= Burst[k] * Unit
  BY RefilledIsCapped
<1>2. Burst[k] * Unit \in Nat /\ Unit \in Nat
  BY ApiAssumption
<1>3. Refilled(k) - Unit \in Nat /\ Refilled(k) - Unit <= Burst[k] * Unit
  BY <1>1, <1>2 DEF Admit
<1>4. bucket' = [bucket EXCEPT ![k] = [units |-> Refilled(k) - Unit, at |-> now]]
  BY DEF Admit
<1>5. bucket' \in [Limits -> [units : Nat, at : 0..MaxTime]]
  BY <1>3, <1>4
<1>6. ASSUME NEW l \in Limits PROVE bucket'[l].units <= Burst[l] * Unit /\ bucket'[l].at <= now
  <2>1. CASE l = k
    BY <1>3, <1>4, <2>1
  <2>2. CASE l # k
    BY <1>4, <2>2
  <2>3. QED
    BY <2>1, <2>2
<1>7. admitted' \in [Limits -> [0..MaxTime -> Nat]]
  <2>1. admitted[k] \in [0..MaxTime -> Nat] /\ now \in Nat
    OBVIOUS
  <2>2. QED
    BY <2>1, CountsUp DEF Admit
<1>8. QED
  BY <1>5, <1>6, <1>7

LEMMA RefuseTyped ==
    ASSUME ApiTyped, NEW k \in Limits, Refuse(k)
    PROVE  /\ bucket' \in [Limits -> [units : Nat, at : 0..MaxTime]]
           /\ \A l \in Limits : bucket'[l].units <= Burst[l] * Unit /\ bucket'[l].at <= now
<1> USE DEF ApiTyped, ApiTypeOK
<1>1. Refilled(k) \in Nat /\ Refilled(k) <= Burst[k] * Unit
  BY RefilledIsCapped
<1>2. bucket' = [bucket EXCEPT ![k] = [units |-> Refilled(k), at |-> now]]
  BY DEF Refuse
<1>3. bucket' \in [Limits -> [units : Nat, at : 0..MaxTime]]
  BY <1>1, <1>2
<1>4. ASSUME NEW l \in Limits PROVE bucket'[l].units <= Burst[l] * Unit /\ bucket'[l].at <= now
  <2>1. CASE l = k
    BY <1>1, <1>2, <2>1
  <2>2. CASE l # k
    BY <1>2, <2>2
  <2>3. QED
    BY <2>1, <2>2
<1>5. QED
  BY <1>3, <1>4

LEMMA ApiTypedStep == ApiTyped /\ [ApiNext]_apiVars => ApiTyped'
<1> SUFFICES ASSUME ApiTyped, [ApiNext]_apiVars PROVE ApiTyped'
  OBVIOUS
<1> USE DEF ApiTyped, limitVars, checkVars
<1>0. 0 \in 0..MaxTime /\ MaxTime \in Nat
  BY ApiAssumption
<1>1. CASE Tick
  BY <1>0, <1>1 DEF Tick, ApiTypeOK
<1>2. CASE Request
  <2>1. PICK k \in Limits : Admit(k) /\ now' = now
    BY <1>2 DEF Request, Limits
  <2>2. QED
    BY <1>2, <2>1, AdmitTyped DEF Request, ApiTypeOK
<1>3. ASSUME NEW d \in Dependencies, Fails(d) \/ Recovers(d) PROVE ApiTyped'
  BY <1>3 DEF Fails, Recovers, ApiTypeOK
<1>4. ASSUME NEW k \in Limits, Refuse(k) PROVE ApiTyped'
  BY <1>4, RefuseTyped DEF Refuse, ApiTypeOK
<1>5. ASSUME NEW c \in Callers, NEW where \in {"leading", "waiting", "answered"}, Enters(c, where)
      PROVE  /\ bucket' \in [Limits -> [units : Nat, at : 0..MaxTime]]
             /\ \A l \in Limits : bucket'[l].units <= Burst[l] * Unit /\ bucket'[l].at <= now'
             /\ admitted' \in [Limits -> [0..MaxTime -> Nat]]
             /\ pc' \in [Callers -> {"idle", "leading", "waiting", "woken", "answered"}]
             /\ since' \in [Callers -> 0..MaxTime]
             /\ now' = now /\ up' = up /\ left' = left
             /\ \A w \in Callers : pc'[w] = "woken" => pc[w] = "woken"
  <2>1. PICK k \in Limits : Admit(k) /\ now' = now
    BY <1>5 DEF Enters, Limits
  <2>2. QED
    BY <1>5, <2>1, AdmitTyped DEF Enters, ApiTypeOK
<1>6. ASSUME NEW c \in Callers, Cached(c) PROVE ApiTyped'
  <2>1. last.found \in Findings
    BY <1>6 DEF Cached, Fresh, ApiTypeOK, Answers
  <2>2. QED
    BY <1>5, <1>6, <2>1 DEF Cached, ApiTypeOK
<1>7. ASSUME NEW c \in Callers, Join(c) PROVE ApiTyped'
  BY <1>5, <1>7 DEF Join, ApiTypeOK
<1>8. ASSUME NEW c \in Callers, Lead(c) PROVE ApiTyped'
  <2>1. Unchecked \in [Dependencies -> 0..MaxTime \cup {Down, Pending}]
    BY DEF Unchecked
  <2>2. QED
    BY <1>5, <1>8, <2>1 DEF Lead, ApiTypeOK
<1>9. ASSUME NEW c \in Callers, NEW d \in Dependencies, CheckEnds(c, d) PROVE ApiTyped'
  BY <1>9 DEF CheckEnds, ApiTypeOK
<1>10. ASSUME NEW c \in Callers, Publish(c) PROVE ApiTyped'
  <2>1. got[c] \in Findings
    BY <1>10 DEF Publish, ApiTypeOK, Findings
  <2>2. Unchecked \in [Dependencies -> 0..MaxTime \cup {Down, Pending}]
    BY DEF Unchecked
  <2>3. pc' \in [Callers -> {"idle", "leading", "waiting", "woken", "answered"}]
    BY <1>10 DEF Publish, ApiTypeOK
  <2>4. answer' \in [Callers -> Findings \cup {None}]
    BY <1>10, <2>1 DEF Publish, ApiTypeOK
  <2>5. QED
    BY <1>0, <1>10, <2>1, <2>2, <2>3, <2>4 DEF Publish, ApiTypeOK, Answers
<1>11. ASSUME NEW c \in Callers, Wake(c) PROVE ApiTyped'
  BY <1>11 DEF Wake, ApiTypeOK, Answers
<1>12. ASSUME NEW c \in Callers, Leave(c) PROVE ApiTyped'
  BY <1>0, <1>12 DEF Leave, StillChecking, ApiTypeOK
<1>13. ASSUME NEW c \in Callers, Return(c) PROVE ApiTyped'
  BY <1>0, <1>13 DEF Return, ApiTypeOK
<1>14. CASE UNCHANGED apiVars
  BY <1>14 DEF apiVars, ApiTypeOK
<1>15. QED
  BY ApiCases, <1>1, <1>2, <1>3, <1>4, <1>6, <1>7, <1>8, <1>9, <1>10, <1>11, <1>12, <1>13, <1>14

-----------------------------------------------------------------------------
(* Limits. *)

\* What an interval has let in and what may still be had now.
Account ==
    \A k \in Limits : \A t \in 0..MaxTime :
        /\ t > now => admitted[k][t] = 0
        /\ t <= now => admitted[k][t] * Unit + Refilled(k) <= Burst[k] * Unit + (now - t) * Rate[k]

LEMMA TickKeepsAccount ==
    ASSUME ApiTyped, Account, Tick PROVE Account'
<1> SUFFICES ASSUME NEW k \in Limits, NEW t \in 0..MaxTime
             PROVE  /\ t > now' => admitted'[k][t] = 0
                    /\ t <= now' => admitted'[k][t] * Unit + Refilled(k)'
                                       <= Burst[k] * Unit + (now' - t) * Rate[k]
  BY DEF Account
<1> DEFINE b == Burst[k] * Unit
<1> DEFINE a == admitted[k][t]
<1> DEFINE u == bucket[k].units
<1> DEFINE x == (now - bucket[k].at) * Rate[k]
<1>1. now' = now + 1 /\ bucket' = bucket /\ admitted' = admitted /\ now \in Nat
  BY DEF Tick, limitVars, ApiTyped, ApiTypeOK
<1>2. /\ Rate[k] \in Nat /\ b \in Nat /\ Unit \in Nat
      /\ u \in Nat /\ a \in Nat /\ now - bucket[k].at \in Nat
      /\ bucket[k].at \in Nat
  BY ApiAssumption DEF ApiTyped, ApiTypeOK
<1>3. x \in Nat /\ (now' - bucket[k].at) * Rate[k] = x + Rate[k]
  <2>1. now' - bucket[k].at = (now - bucket[k].at) + 1
    BY <1>1, <1>2
  <2>2. QED
    BY <1>2, <2>1, OneMore
<1>4. Refilled(k) \in Nat /\ Refilled(k)' \in Nat /\ Refilled(k)' <= Refilled(k) + Rate[k]
      /\ Refilled(k)' <= b
  <2>1. Refilled(k) = IF u + x > b THEN b ELSE u + x
    BY DEF Refilled
  <2>2. Refilled(k)' = IF u + (x + Rate[k]) > b THEN b ELSE u + (x + Rate[k])
    BY <1>1, <1>3 DEF Refilled
  <2> HIDE DEF b, u, x
  <2>3. QED
    BY <1>2, <1>3, <2>1, <2>2
<1>5. CASE t <= now
  <2>1. a * Unit + Refilled(k) <= b + (now - t) * Rate[k]
    BY <1>5 DEF Account
  <2>2. (now' - t) * Rate[k] = (now - t) * Rate[k] + Rate[k] /\ (now - t) * Rate[k] \in Nat
    <3>1. now' - t = (now - t) + 1 /\ now - t \in Nat
      BY <1>1, <1>5
    <3>2. QED
      BY <1>2, <3>1, OneMore
  <2>3. a * Unit \in Nat
    BY <1>2
  <2> HIDE DEF b, a
  <2>4. a * Unit + Refilled(k)' <= b + (now' - t) * Rate[k]
    BY <1>2, <1>4, <2>1, <2>2, <2>3
  <2>5. QED
    BY <1>1, <1>5, <2>4 DEF a, b
<1>6. CASE t = now + 1
  <2>1. a = 0
    BY <1>1, <1>6 DEF Account
  <2>2. a * Unit = 0 /\ (now' - t) * Rate[k] = 0
    BY <1>1, <1>2, <1>6, <2>1, NoTime
  <2>3. Refilled(k)' <= Burst[k] * Unit /\ Refilled(k)' \in Nat /\ Burst[k] * Unit \in Nat
    BY <1>2, <1>4
  <2>4. admitted'[k][t] * Unit = 0
    BY <1>1, <2>2
  <2> HIDE DEF a, b
  <2>5. admitted'[k][t] * Unit + Refilled(k)' <= Burst[k] * Unit + (now' - t) * Rate[k]
    BY <2>2, <2>3, <2>4
  <2>6. ~(t > now')
    BY <1>1, <1>6
  <2>7. QED
    BY <2>5, <2>6
<1>7. CASE t > now + 1
  BY <1>1, <1>7 DEF Account
<1>8. QED
  BY <1>1, <1>5, <1>6, <1>7

LEMMA Numbers ==
    ASSUME ApiTyped
    PROVE  /\ now \in Nat /\ Unit \in Nat
           /\ \A k \in Limits : Rate[k] \in Nat /\ Burst[k] * Unit \in Nat
           /\ \A k \in Limits : \A t \in 0..MaxTime : admitted[k][t] \in Nat
           /\ \A k \in Limits : Refilled(k) \in Nat /\ Refilled(k) <= Burst[k] * Unit
<1>1. /\ now \in 0..MaxTime /\ admitted \in [Limits -> [0..MaxTime -> Nat]]
      /\ \A k \in Limits : bucket[k].at <= now
  BY DEF ApiTyped, ApiTypeOK
<1>2. Unit \in Nat /\ \A k \in Limits : Rate[k] \in Nat /\ Burst[k] \in Nat
  BY ApiAssumption
<1>3. \A k \in Limits : Burst[k] * Unit \in Nat
  BY <1>2
<1>4. \A k \in Limits : Refilled(k) \in Nat /\ Refilled(k) <= Burst[k] * Unit
  BY <1>1, RefilledIsCapped DEF ApiTyped
<1>5. now \in Nat
  BY <1>1
<1>6. \A k \in Limits : \A t \in 0..MaxTime : admitted[k][t] \in Nat
  BY <1>1
<1>7. QED
  BY <1>2, <1>3, <1>4, <1>5, <1>6

\* A call leaves what it could have had, less the token it took.
LEMMA CallRefills ==
    ASSUME ApiTyped, NEW k \in Limits, NEW units \in Nat, units <= Refilled(k), now' = now,
           bucket' = [bucket EXCEPT ![k] = [units |-> units, at |-> now]]
    PROVE  /\ Refilled(k)' = units
           /\ \A l \in Limits \ {k} : Refilled(l)' = Refilled(l)
<1>1. bucket'[k] = [units |-> units, at |-> now] /\ \A l \in Limits \ {k} : bucket'[l] = bucket[l]
  BY DEF ApiTyped, ApiTypeOK
<1>2. now \in Nat /\ Rate[k] \in Nat /\ Burst[k] * Unit \in Nat
  BY Numbers
<1>3. (now - now) * Rate[k] = 0
  BY <1>2, NoTime
<1>4. Refilled(k) \in Nat /\ Refilled(k) <= Burst[k] * Unit
  BY RefilledIsCapped DEF ApiTyped
<1>5. units + 0 = units /\ ~(units > Burst[k] * Unit)
  BY <1>2, <1>4
<1>6. Refilled(k)' = units
  BY <1>1, <1>3, <1>5 DEF Refilled
<1>7. ASSUME NEW l \in Limits \ {k} PROVE Refilled(l)' = Refilled(l)
  BY <1>1, <1>7 DEF Refilled
<1>8. QED
  BY <1>6, <1>7

LEMMA AdmitKeepsAccount ==
    ASSUME ApiTyped, Account, NEW k \in Limits, Admit(k), now' = now PROVE Account'
<1>1. Refilled(k) \in Nat /\ Unit \in Nat /\ Refilled(k) - Unit \in Nat /\ now \in Nat
  <2>1. Refilled(k) \in Nat /\ Unit \in Nat /\ now \in Nat /\ Refilled(k) >= Unit
    BY Numbers DEF Admit
  <2>2. QED
    BY <2>1
<1>2. Refilled(k)' = Refilled(k) - Unit /\ \A l \in Limits \ {k} : Refilled(l)' = Refilled(l)
  <2>1. PICK units \in Nat : units = Refilled(k) - Unit
    BY <1>1
  <2>2. units <= Refilled(k)
    BY <1>1, <2>1
  <2>3. bucket' = [bucket EXCEPT ![k] = [units |-> units, at |-> now]]
    BY <2>1 DEF Admit
  <2>4. Refilled(k)' = units /\ \A l \in Limits \ {k} : Refilled(l)' = Refilled(l)
    BY <2>2, <2>3, CallRefills
  <2>5. QED
    BY <2>1, <2>4
<1> SUFFICES ASSUME NEW l \in Limits, NEW t \in 0..MaxTime
             PROVE  /\ t > now' => admitted'[l][t] = 0
                    /\ t <= now' => admitted'[l][t] * Unit + Refilled(l)'
                                       <= Burst[l] * Unit + (now' - t) * Rate[l]
  BY DEF Account
<1>3. CASE l = k
  <2>1. admitted[k][t] \in Nat
    BY Numbers
  <2>2. admitted'[k][t] = IF t <= now THEN admitted[k][t] + 1 ELSE admitted[k][t]
    BY DEF Admit, ApiTyped, ApiTypeOK
  <2>3. CASE t <= now
    <3>1. admitted[k][t] * Unit + Refilled(k) <= Burst[k] * Unit + (now - t) * Rate[k]
      BY <2>3 DEF Account
    <3>2. admitted'[k][t] * Unit = admitted[k][t] * Unit + Unit /\ admitted[k][t] * Unit \in Nat
      BY <1>1, <2>1, <2>2, <2>3, OneMore
    <3>3. admitted'[k][t] * Unit + Refilled(k)' = admitted[k][t] * Unit + Refilled(k)
      BY <1>1, <1>2, <3>2
    <3>4. admitted'[k][t] * Unit + Refilled(k)' <= Burst[k] * Unit + (now' - t) * Rate[k]
      BY <3>1, <3>3
    <3>5. ~(t > now')
      BY <1>1, <2>3
    <3>6. QED
      BY <1>3, <3>4, <3>5
  <2>4. CASE t > now
    BY <1>1, <1>3, <2>2, <2>4 DEF Account
  <2>5. QED
    BY <1>1, <2>3, <2>4
<1>4. CASE l # k
  <2>1. admitted'[l] = admitted[l] /\ Refilled(l)' = Refilled(l)
    BY <1>2, <1>4 DEF Admit, ApiTyped, ApiTypeOK
  <2>2. QED
    BY <2>1 DEF Account
<1>5. QED
  BY <1>3, <1>4

LEMMA AccountStep == ApiTyped /\ Account /\ [ApiNext]_apiVars => Account'
<1> SUFFICES ASSUME ApiTyped, Account, [ApiNext]_apiVars PROVE Account'
  OBVIOUS
<1>1. CASE Tick
  BY <1>1, TickKeepsAccount
<1>2. ASSUME NEW k \in Limits, Admit(k), now' = now PROVE Account'
  BY <1>2, AdmitKeepsAccount
<1>3. ASSUME NEW k \in Limits, Refuse(k) PROVE Account'
  <2>1. Refilled(k) \in Nat
    BY RefilledIsCapped DEF ApiTyped
  <2>2. \A l \in Limits : Refilled(l)' = Refilled(l)
    <3>1. PICK units \in Nat : units = Refilled(k)
      BY <2>1
    <3>2. units <= Refilled(k) /\ now' = now
      BY <1>3, <2>1, <3>1 DEF Refuse
    <3>3. bucket' = [bucket EXCEPT ![k] = [units |-> units, at |-> now]]
      BY <1>3, <3>1 DEF Refuse
    <3>4. Refilled(k)' = units /\ \A l \in Limits \ {k} : Refilled(l)' = Refilled(l)
      BY <1>3, <3>2, <3>3, CallRefills DEF Refuse
    <3>5. QED
      BY <3>1, <3>4
  <2>3. now' = now /\ admitted' = admitted
    BY <1>3 DEF Refuse
  <2>4. QED
    BY <2>2, <2>3 DEF Account
<1>4. ASSUME now' = now, UNCHANGED limitVars PROVE Account'
  <2>1. \A l \in Limits : Refilled(l)' = Refilled(l)
    BY <1>4 DEF Refilled, limitVars
  <2>2. QED
    BY <1>4, <2>1 DEF Account, limitVars
<1>5. \/ Tick
      \/ \E k \in Limits : Refuse(k) \/ (Admit(k) /\ now' = now)
      \/ now' = now /\ UNCHANGED limitVars
  BY ApiCases DEF Request, Enters, Cached, Join, Lead, Fails, Recovers, CheckEnds, Publish, Wake,
     Leave, Return, apiVars, Limits
<1>6. QED
  BY <1>1, <1>2, <1>3, <1>4, <1>5

LEMMA ApiInitTyped == ApiInit => ApiTyped /\ Account
<1> SUFFICES ASSUME ApiInit PROVE ApiTyped /\ Account
  OBVIOUS
<1>1. MaxTime \in Nat /\ 0 \in 0..MaxTime /\ \A k \in Limits : Burst[k] * Unit \in Nat /\ Rate[k] \in Nat
  BY ApiAssumption
<1>2. Unchecked \in [Dependencies -> 0..MaxTime \cup {Down, Pending}]
  BY DEF Unchecked
<1>3. ApiTyped
  <2>1. bucket \in [Limits -> [units : Nat, at : 0..MaxTime]]
    BY <1>1 DEF ApiInit
  <2>2. \A k \in Limits : bucket[k].units <= Burst[k] * Unit
    BY <1>1 DEF ApiInit
  <2>3. \A k \in Limits : bucket[k].at <= now
    BY <1>1 DEF ApiInit
  <2>4. QED
    BY <1>1, <1>2, <2>1, <2>2, <2>3 DEF ApiInit, ApiTyped, ApiTypeOK
<1>4. ASSUME NEW k \in Limits, NEW t \in 0..MaxTime
      PROVE  /\ t > now => admitted[k][t] = 0
             /\ t <= now => admitted[k][t] * Unit + Refilled(k)
                                 <= Burst[k] * Unit + (now - t) * Rate[k]
  <2>1. admitted[k][t] = 0 /\ now = 0
    BY DEF ApiInit
  <2>2. Refilled(k) \in Nat /\ Refilled(k) <= Burst[k] * Unit
    BY <1>3, RefilledIsCapped DEF ApiTyped
  <2>3. 0 * Unit = 0 /\ (0 - 0) * Rate[k] = 0
    BY <1>1, ApiAssumption, NoTime
  <2>4. QED
    BY <1>1, <2>1, <2>2, <2>3
<1>5. QED
  BY <1>3, <1>4 DEF Account

\* Whatever comes at whatever times, no interval sees more requests admitted than its
\* limit's burst and rate allow.
THEOREM LimitsHold == ApiSpec => []AdmissionsAreBounded
<1>1. ApiTyped /\ Account => AdmissionsAreBounded
  <2> SUFFICES ASSUME ApiTyped, Account, NEW k \in Limits, NEW t \in 0..now
               PROVE  admitted[k][t] * Unit <= Burst[k] * Unit + (now - t) * Rate[k]
    BY DEF AdmissionsAreBounded
  <2>1. /\ t \in 0..MaxTime /\ t <= now /\ admitted[k][t] \in Nat /\ Unit \in Nat
        /\ Rate[k] \in Nat /\ Burst[k] * Unit \in Nat /\ now - t \in Nat
    BY ApiAssumption DEF ApiTyped, ApiTypeOK
  <2>2. Refilled(k) \in Nat
    BY RefilledIsCapped DEF ApiTyped
  <2>3. admitted[k][t] * Unit \in Nat /\ (now - t) * Rate[k] \in Nat
    BY <2>1, OneMore
  <2>4. admitted[k][t] * Unit + Refilled(k) <= Burst[k] * Unit + (now - t) * Rate[k]
    BY <2>1 DEF Account
  <2>5. QED
    BY <2>1, <2>2, <2>3, <2>4
<1>2. QED
  BY <1>1, ApiInitTyped, ApiTypedStep, AccountStep, PTL DEF ApiSpec

-----------------------------------------------------------------------------
(* Readiness. *)

\* Who leads began after the call and is in time; what is found, and what is kept, was
\* found on the way.
Leading(c) ==
    /\ since[c] <= begun[c] /\ begun[c] <= now /\ now <= begun[c] + Timeout
    /\ \A d \in Dependencies : got[c][d] \in Nat => begun[c] <= got[c][d]

Kept ==
    /\ last.at <= now
    /\ \A d \in Dependencies : last.found[d] # Down => last.at <= last.found[d] + Timeout

Told(c) == \A d \in Dependencies : answer[c][d] # Down => since[c] < answer[c][d] + TTL + Timeout

Timely ==
    /\ \A c \in Callers : pc[c] = "leading" => Leading(c)
    /\ last # None => Kept
    /\ \A c \in Callers : since[c] <= now
    /\ \A c \in Callers : pc[c] = "woken" => last # None /\ since[c] <= last.at
    /\ \A c \in Callers : answer[c] # None => pc[c] = "answered" /\ Told(c)

LEMMA Flag ==
    ASSUME ApiTyped, OneCheckAtATime, [ApiNext]_apiVars PROVE OneCheckAtATime'
<1> USE DEF ApiTyped, ApiTypeOK, OneCheckAtATime
<1>1. ASSUME UNCHANGED <<pc, checking>> PROVE OneCheckAtATime'
  BY <1>1
<1>2. ASSUME NEW c \in Callers, NEW where \in {"waiting", "answered"},
             pc[c] # "leading", pc' = [pc EXCEPT ![c] = where], checking' = checking
      PROVE  OneCheckAtATime'
  BY <1>2
<1>3. ASSUME NEW c \in Callers, Lead(c) PROVE OneCheckAtATime'
  BY <1>3 DEF Lead, Enters
<1>4. ASSUME NEW c \in Callers, Publish(c) PROVE OneCheckAtATime'
  BY <1>4 DEF Publish, Wakes
<1>5. ASSUME NEW c \in Callers, Leave(c) PROVE OneCheckAtATime'
  BY <1>5 DEF Leave, StillChecking
<1>6. ASSUME NEW c \in Callers, Return(c) PROVE OneCheckAtATime'
  BY <1>6 DEF Return
<1>7. \A c \in Callers : Cached(c) => OneCheckAtATime'
  BY <1>2 DEF Cached, Enters
<1>8. \A c \in Callers : Join(c) => OneCheckAtATime'
  BY <1>2 DEF Join, Enters
<1>9. \A c \in Callers : Wake(c) => OneCheckAtATime'
  BY <1>2 DEF Wake
<1>10. QED
  BY ApiCases, <1>1, <1>3, <1>4, <1>5, <1>6, <1>7, <1>8, <1>9
     DEF Tick, Request, Fails, Recovers, Refuse, CheckEnds, apiVars, checkVars

LEMMA Times ==
    ASSUME ApiTyped
    PROVE  /\ now \in Nat /\ Timeout \in Nat /\ TTL \in Nat /\ TTL > 0
           /\ Pending \notin Nat /\ Down \notin Nat /\ None \notin Nat
           /\ \A c \in Callers : since[c] \in Nat /\ begun[c] \in Nat
           /\ last # None => last.at \in Nat /\ last.found \in Findings
<1>1. /\ now \in 0..MaxTime /\ since \in [Callers -> 0..MaxTime] /\ begun \in [Callers -> 0..MaxTime]
      /\ last \in Answers \cup {None}
  BY DEF ApiTyped, ApiTypeOK
<1>2. /\ Timeout \in Nat /\ TTL \in Nat /\ TTL > 0
      /\ Pending \notin Nat /\ Down \notin Nat /\ None \notin Nat
  BY ApiAssumption
<1>3. QED
  BY <1>1, <1>2 DEF Answers

\* What a full answer found is a time or Down.
LEMMA FoundIsTime ==
    ASSUME NEW found \in Findings, NEW d \in Dependencies, found[d] # Down
    PROVE  found[d] \in Nat
BY DEF Findings

LEMMA EntersTimely ==
    ASSUME ApiTyped, Timely, NEW c \in Callers, NEW where \in {"waiting", "answered"},
           Enters(c, where), UNCHANGED <<got, begun, checking, last>>,
           \A w \in Callers \ {c} : answer'[w] = answer[w],
           answer'[c] # None => where = "answered" /\ Told(c)'
    PROVE  Timely'
<1>1. /\ now' = now /\ left' = left /\ pc[c] = "idle" /\ now \in Nat
      /\ pc'[c] = where /\ since'[c] = now
      /\ \A w \in Callers \ {c} : pc'[w] = pc[w] /\ since'[w] = since[w] /\ answer'[w] = answer[w]
  BY DEF Enters, ApiTyped, ApiTypeOK
<1>2. ASSUME NEW w \in Callers, pc'[w] = "leading" PROVE Leading(w)'
  BY <1>1, <1>2 DEF Timely, Leading
<1>3. last' # None => Kept'
  BY <1>1 DEF Timely, Kept
<1>4. ASSUME NEW w \in Callers PROVE since'[w] <= now'
  BY <1>1 DEF Timely
<1>5. ASSUME NEW w \in Callers, pc'[w] = "woken" PROVE last' # None /\ since'[w] <= last'.at
  BY <1>1, <1>5 DEF Timely
<1>6. ASSUME NEW w \in Callers, answer'[w] # None PROVE pc'[w] = "answered" /\ Told(w)'
  BY <1>1, <1>6 DEF Timely, Told
<1>7. QED
  BY <1>2, <1>3, <1>4, <1>5, <1>6 DEF Timely

LEMMA CachedTimely ==
    ASSUME ApiTyped, Timely, NEW c \in Callers, Cached(c) PROVE Timely'
<1>1. /\ last # None /\ now - last.at < TTL /\ Kept
      /\ last.found \in Findings /\ last.at \in Nat
  BY Times DEF Cached, Fresh, Timely
<1>2. answer'[c] = last.found /\ since'[c] = now
  BY DEF Cached, Enters, ApiTyped, ApiTypeOK
<1>3. ASSUME NEW d \in Dependencies, last.found[d] # Down PROVE now < last.found[d] + TTL + Timeout
  <2>1. last.found[d] \in Nat /\ last.at <= last.found[d] + Timeout
    BY <1>1, <1>3, FoundIsTime DEF Kept
  <2>2. now \in Nat /\ Timeout \in Nat /\ TTL \in Nat
    BY Times
  <2>3. QED
    BY <1>1, <2>1, <2>2
<1>4. Told(c)'
  BY <1>2, <1>3 DEF Told
<1>5. QED
  BY <1>4, EntersTimely DEF Cached, ApiTyped, ApiTypeOK

LEMMA PublishTimely ==
    ASSUME ApiTyped, Timely, NEW c \in Callers, Publish(c) PROVE Timely'
<1>1. /\ now' = now /\ since' = since /\ now \in Nat /\ Leading(c) /\ got[c] \in Findings
      /\ last' = [at |-> now, found |-> got[c]]
  BY Times DEF Publish, Timely, ApiTyped, ApiTypeOK, Findings
<1>2. /\ \A w \in Callers : pc'[w] = "leading" => w # c /\ pc[w] = "leading"
      /\ \A w \in Callers \ {c} : /\ pc[w] = "answered" => pc'[w] = "answered"
                                 /\ got'[w] = got[w] /\ begun'[w] = begun[w] /\ answer'[w] = answer[w]
      /\ c \notin left => pc'[c] = "answered" /\ answer'[c] = got[c]
      /\ c \in left => answer'[c] = answer[c]
  BY DEF Publish, Wakes, ApiTyped, ApiTypeOK
<1>3. ASSUME NEW w \in Callers, pc'[w] = "leading" PROVE Leading(w)'
  BY <1>1, <1>2, <1>3 DEF Timely, Leading
<1>4. ASSUME NEW d \in Dependencies, got[c][d] # Down
      PROVE  /\ now <= got[c][d] + Timeout
             /\ since[c] < got[c][d] + TTL + Timeout
  <2>1. got[c][d] \in Nat /\ begun[c] <= got[c][d]
    BY <1>1, <1>4, FoundIsTime DEF Leading
  <2>2. /\ since[c] \in Nat /\ begun[c] \in Nat /\ Timeout \in Nat /\ TTL \in Nat /\ TTL > 0
        /\ since[c] <= begun[c] /\ now <= begun[c] + Timeout
    BY <1>1, Times DEF Leading
  <2>3. QED
    BY <1>1, <2>1, <2>2
<1>5. last' # None => Kept'
  BY <1>1, <1>4 DEF Kept
<1>6. ASSUME NEW w \in Callers, pc'[w] = "woken" PROVE last' # None /\ since'[w] <= last'.at
  <2>1. last' \in Answers /\ last'.at = now
    BY <1>1 DEF Answers, ApiTyped, ApiTypeOK
  <2>2. since'[w] <= now
    BY <1>1 DEF Timely
  <2>3. QED
    BY <2>1, <2>2, ApiAssumption
<1>7. ASSUME NEW w \in Callers, answer'[w] # None PROVE pc'[w] = "answered" /\ Told(w)'
  <2>1. CASE w # c
    BY <1>1, <1>2, <1>7, <2>1 DEF Timely, Told
  <2>2. CASE w = c /\ c \in left
    BY <1>2, <1>7, <2>2 DEF Timely, Publish
  <2>3. CASE w = c /\ c \notin left
    BY <1>1, <1>2, <1>4, <2>3 DEF Told
  <2>4. QED
    BY <2>1, <2>2, <2>3
<1>8. QED
  BY <1>1, <1>3, <1>5, <1>6, <1>7 DEF Timely

LEMMA TimelyStep == ApiTyped /\ Timely /\ [ApiNext]_apiVars => Timely'
<1> SUFFICES ASSUME ApiTyped, Timely, [ApiNext]_apiVars PROVE Timely'
  OBVIOUS
<1>1. CASE Tick
  <2>1. /\ now' = now + 1 /\ UNCHANGED checkVars /\ now \in Nat
        /\ \A c \in Callers : pc[c] = "leading" => now < begun[c] + Timeout
    BY <1>1, Times DEF Tick, Overdue
  <2>2. \A c \in Callers : pc[c] = "leading" => Leading(c)'
    BY <2>1, Times DEF Timely, Leading, checkVars
  <2>3. last # None => Kept'
    BY <2>1, Times DEF Timely, Kept, checkVars
  <2>4. \A c \in Callers : since[c] <= now'
    BY <2>1, Times DEF Timely
  <2>5. QED
    BY <2>1, <2>2, <2>3, <2>4 DEF Timely, Told, checkVars
<1>2. ASSUME now' = now, UNCHANGED checkVars PROVE Timely'
  BY <1>2 DEF Timely, Leading, Kept, Told, checkVars
<1>3. ASSUME NEW c \in Callers, Cached(c) PROVE Timely'
  BY <1>3, CachedTimely
<1>4. ASSUME NEW c \in Callers, Join(c) PROVE Timely'
  <2>1. answer' = answer /\ answer[c] = None
    BY <1>4 DEF Join, Enters, Timely
  <2>2. QED
    BY <1>4, <2>1, EntersTimely DEF Join
<1>5. ASSUME NEW c \in Callers, Lead(c) PROVE Timely'
  <2>1. /\ now' = now /\ last' = last /\ answer' = answer /\ pc[c] = "idle" /\ now \in Nat
        /\ pc'[c] = "leading" /\ since'[c] = now /\ begun'[c] = now /\ got'[c] = Unchecked
        /\ \A w \in Callers \ {c} : /\ pc'[w] = pc[w] /\ since'[w] = since[w]
                                   /\ begun'[w] = begun[w] /\ got'[w] = got[w]
    BY <1>5 DEF Lead, Enters, ApiTyped, ApiTypeOK
  <2>2. Leading(c)'
    BY <2>1, Times DEF Leading, Unchecked
  <2>3. \A w \in Callers : pc'[w] = "leading" => Leading(w)'
    BY <2>1, <2>2 DEF Timely, Leading
  <2>4. QED
    BY <2>1, <2>3 DEF Timely, Kept, Told
<1>6. ASSUME NEW c \in Callers, NEW d \in Dependencies, CheckEnds(c, d) PROVE Timely'
  <2>1. PICK found \in {now, Down} : got' = [got EXCEPT ![c][d] = found]
    BY <1>6 DEF CheckEnds
  <2>2. UNCHANGED <<now, pc, since, begun, last, answer>>
    BY <1>6 DEF CheckEnds
  <2>3. ASSUME NEW w \in Callers, NEW e \in Dependencies
        PROVE  got'[w][e] = got[w][e] \/ (w = c /\ got'[w][e] \in {now, Down})
    BY <2>1 DEF ApiTyped, ApiTypeOK
  <2>4. Leading(c)
    BY <1>6 DEF CheckEnds, Timely
  <2>5. ASSUME NEW w \in Callers, pc[w] = "leading" PROVE Leading(w)'
    BY <2>2, <2>3, <2>4, <2>5, Times DEF Timely, Leading
  <2>6. QED
    BY <2>2, <2>5 DEF Timely, Kept, Told
<1>7. ASSUME NEW c \in Callers, Publish(c) PROVE Timely'
  BY <1>7, PublishTimely
<1>8. ASSUME NEW c \in Callers, Wake(c) PROVE Timely'
  <2>1. /\ UNCHANGED <<now, since, begun, got, last>>
        /\ pc[c] = "woken" /\ pc'[c] = "answered" /\ answer'[c] = last.found
        /\ \A w \in Callers \ {c} : pc'[w] = pc[w] /\ answer'[w] = answer[w]
    BY <1>8 DEF Wake, ApiTyped, ApiTypeOK
  <2>2. last # None /\ Kept /\ since[c] <= last.at
    BY <2>1 DEF Timely
  <2>3. ASSUME NEW d \in Dependencies, last.found[d] # Down PROVE since[c] < last.found[d] + TTL + Timeout
    <3>1. last.found[d] \in Nat /\ last.at <= last.found[d] + Timeout
      BY <2>2, <2>3, Times, FoundIsTime DEF Kept
    <3>2. /\ since[c] \in Nat /\ Timeout \in Nat /\ TTL \in Nat /\ TTL > 0
          /\ last.at \in Nat /\ since[c] <= last.at
      BY <2>2, Times
    <3>3. QED
      BY <3>1, <3>2
  <2>4. Told(c)'
    BY <2>1, <2>3 DEF Told
  <2>5. QED
    BY <2>1, <2>4 DEF Timely, Leading, Kept, Told
<1>9. ASSUME NEW c \in Callers, Leave(c) \/ Return(c) PROVE Timely'
  <2>1. /\ UNCHANGED <<now, begun, got, last>> /\ since'[c] = 0
        /\ pc'[c] \in {"leading", "idle"} /\ (pc'[c] = "leading" => pc[c] = "leading")
        /\ \A w \in Callers \ {c} : pc'[w] = pc[w] /\ since'[w] = since[w] /\ answer'[w] = answer[w]
    BY <1>9 DEF Leave, Return, ApiTyped, ApiTypeOK
  <2>2. answer'[c] = None
    BY <1>9 DEF Leave, Return, Timely, ApiTyped, ApiTypeOK
  <2>3. 0 <= now /\ 0 <= begun[c]
    BY Times
  <2>4. \A w \in Callers : pc'[w] = "leading" => Leading(w)'
    BY <2>1, <2>3 DEF Timely, Leading
  <2>5. \A w \in Callers : since'[w] <= now'
    BY <2>1, <2>3 DEF Timely
  <2>6. QED
    BY <2>1, <2>2, <2>4, <2>5 DEF Timely, Kept, Told
<1>10. \/ Tick
       \/ now' = now /\ UNCHANGED checkVars
       \/ \E c \in Callers :
             \/ Cached(c) \/ Join(c) \/ Lead(c)
             \/ \E d \in Dependencies : CheckEnds(c, d)
             \/ Publish(c) \/ Wake(c) \/ Leave(c) \/ Return(c)
  BY ApiCases DEF Request, Fails, Recovers, Refuse, apiVars
<1>11. QED
  BY <1>1, <1>2, <1>3, <1>4, <1>5, <1>6, <1>7, <1>8, <1>9, <1>10

\* Who waits came while a check was in flight that still is, and a check whose client is
\* there began when that client came.
Waiting ==
    /\ \A c \in Callers : pc[c] = "waiting" =>
          \E d \in Callers : pc[d] = "leading" /\ begun[d] <= since[c]
    /\ \A c \in Callers : pc[c] = "leading" /\ c \notin left => since[c] = begun[c]

LEMMA WaitingStep ==
    ASSUME ApiTyped, OneCheckAtATime, Timely, Waiting, [ApiNext]_apiVars PROVE Waiting'
<1> USE DEF ApiTyped, ApiTypeOK
<1>1. ASSUME UNCHANGED <<pc, since, left, begun>> PROVE Waiting'
  BY <1>1 DEF Waiting
<1>2. ASSUME NEW c \in Callers, Cached(c) PROVE Waiting'
  BY <1>2 DEF Cached, Enters, Waiting
<1>3. ASSUME NEW c \in Callers, Join(c) PROVE Waiting'
  <2>1. PICK d \in Callers : pc[d] = "leading"
    BY <1>3 DEF Join, OneCheckAtATime
  <2>2. begun[d] <= now
    BY <2>1 DEF Timely, Leading
  <2>3. QED
    BY <1>3, <2>1, <2>2 DEF Join, Enters, Waiting
<1>4. ASSUME NEW c \in Callers, Lead(c) PROVE Waiting'
  <2>1. \A w \in Callers : pc[w] # "leading"
    BY <1>4 DEF Lead, OneCheckAtATime
  <2>2. QED
    BY <1>4, <2>1 DEF Lead, Enters, Waiting
<1>5. ASSUME NEW c \in Callers, Publish(c) PROVE Waiting'
  <2>1. \A w \in Callers : pc'[w] # "waiting" /\ pc'[w] # "leading"
    BY <1>5 DEF Publish, Wakes, OneCheckAtATime
  <2>2. QED
    BY <2>1 DEF Waiting
<1>6. ASSUME NEW c \in Callers, Wake(c) PROVE Waiting'
  BY <1>6 DEF Wake, Waiting
<1>7. ASSUME NEW c \in Callers, Leave(c) PROVE Waiting'
  BY <1>7 DEF Leave, Waiting
<1>8. ASSUME NEW c \in Callers, Return(c) PROVE Waiting'
  BY <1>8 DEF Return, Waiting
<1>9. QED
  BY ApiCases, <1>1, <1>2, <1>3, <1>4, <1>5, <1>6, <1>7, <1>8
     DEF Tick, Request, Fails, Recovers, Refuse, CheckEnds, apiVars, checkVars

LEMMA ReadyInit == ApiInit => OneCheckAtATime /\ Timely
<1> SUFFICES ASSUME ApiInit PROVE OneCheckAtATime /\ Timely
  OBVIOUS
<1>1. OneCheckAtATime
  BY DEF ApiInit, OneCheckAtATime
<1>2. Timely
  BY DEF ApiInit, Timely
<1>3. QED
  BY <1>1, <1>2

\* The state of the server stays within its types.
THEOREM ApiTypeCorrect == ApiSpec => []ApiTypeOK
<1>1. ApiTyped => ApiTypeOK
  BY DEF ApiTyped
<1>2. QED
  BY <1>1, ApiInitTyped, ApiTypedStep, PTL DEF ApiSpec

\* However many ask, come and go, one check is in flight, and the flag says so.
THEOREM OneCheck == ApiSpec => []OneCheckAtATime
<1>1. ApiTyped /\ OneCheckAtATime /\ [ApiNext]_apiVars => OneCheckAtATime'
  BY Flag
<1>2. QED
  BY <1>1, ApiInitTyped, ApiTypedStep, ReadyInit, PTL DEF ApiSpec

\* No caller of /ready whose client is still there waits longer than one check may take:
\* whom it waits for was there before it, is still at it, and began no later than it came.
THEOREM WaitsStayBounded == ApiSpec => []WaitsAreBounded
<1> DEFINE Inv == ApiTyped /\ OneCheckAtATime /\ Timely /\ Waiting
<1>1. ApiInit => Inv
  BY ApiInitTyped, ReadyInit DEF ApiInit, Waiting
<1>2. Inv /\ [ApiNext]_apiVars => Inv'
  BY ApiTypedStep, Flag, TimelyStep, WaitingStep
<1>3. Inv => WaitsAreBounded
  <2> SUFFICES ASSUME Inv, NEW c \in Callers, pc[c] \in {"leading", "waiting"}, c \notin left
               PROVE  now <= since[c] + Timeout
    BY DEF WaitsAreBounded
  <2>1. PICK d \in Callers : pc[d] = "leading" /\ begun[d] <= since[c]
    <3>1. CASE pc[c] = "waiting"
      BY <3>1 DEF Waiting
    <3>2. CASE pc[c] = "leading"
      BY <3>2, Times DEF Waiting
    <3>3. QED
      BY <3>1, <3>2
  <2>2. now <= begun[d] + Timeout
    BY <2>1 DEF Timely, Leading
  <2>3. QED
    BY <2>1, <2>2, Times
<1> HIDE DEF Inv
<1>4. QED
  BY <1>1, <1>2, <1>3, PTL DEF ApiSpec

\* What is said to be up was seen up within the life of an answer and of its check.
THEOREM AnswersStayRecent == ApiSpec => []AnswersAreRecent
<1>1. Timely => AnswersAreRecent
  BY DEF Timely, Told, AnswersAreRecent
<1>2. QED
  BY <1>1, ApiInitTyped, ApiTypedStep, ReadyInit, TimelyStep, PTL DEF ApiSpec
=============================================================================
