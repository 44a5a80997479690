------------------------ MODULE MessageBackfill_proofs ------------------------
(***************************************************************************)
(* Proofs about the backfill of messages, for any pool, deals and messages *)
(* and any number of audits beside it.  The locks of overlapping           *)
(* transactions are taken in one order, so the writer that waits for the   *)
(* last message of all waits for nobody; the summary is balanced by what   *)
(* the workers hold and what is not handed out yet.                        *)
(***************************************************************************)
EXTENDS MessageBackfill, FiniteSetTheorems, WellFoundedInduction, TLAPS

\* A command that does not run holds nothing.
NothingIdle == phase # "running" => toSend = {} /\ Busy = {}

\* An open transaction has written messages of its deal's conversation, in
\* order, and no other transaction has written them.
RowsInHand ==
    \A w \in Writers : written[w] \subseteq batch[w] /\ (pc[w] # "writing" => written[w] = {})
WrittenInOrder == \A w \in Writers : \A m \in written[w], n \in Left(w) : m < n
LocksExclude == \A v, w \in Writers : v # w => written[v] \cap written[w] = {}

RowInv == RowsInHand /\ WrittenInOrder /\ LocksExclude

-----------------------------------------------------------------------------
LEMMA BackfillTypeInit == BackfillInit => BackfillTypeOK
<1> SUFFICES ASSUME BackfillInit PROVE BackfillTypeOK
  OBVIOUS
<1>1. HttpTypeOK
  BY HttpAssumption, SMT DEF BackfillInit, HttpInit, HttpTypeOK, CallStates
<1>2. /\ canceled \in BOOLEAN /\ stopped \in BOOLEAN
  BY Zenon DEF BackfillInit
<1> QED
  BY <1>1, <1>2, SMT DEF BackfillInit, BackfillTypeOK, Nobody, Outcomes

\* The transport keeps its types.
LEMMA HttpTypeStep ==
    ASSUME HttpTypeOK, NEW c \in Clients, Issue(c) \/ Exchange(c) \/ Return(c)
    PROVE  HttpTypeOK'
<1> USE HttpAssumption DEF HttpTypeOK, Moves, CallStates
<1>1. CASE Issue(c)
  BY <1>1, SMT DEF Issue
<1>2. CASE TakeSlot(c)
  BY <1>2, SMT DEF TakeSlot
<1>3. CASE Respond(c)
  BY <1>3, SMT DEF Respond
<1>4. CASE Repeat(c)
  BY <1>4, SMT DEF Repeat
<1>5. CASE GiveUp(c)
  BY <1>5, SMT DEF GiveUp
<1>6. CASE Return(c)
  BY <1>6, SMT DEF Return
<1> QED
  BY <1>1, <1>2, <1>3, <1>4, <1>5, <1>6 DEF Exchange

\* A first selection is finite and of deals.
LEMMA FirstIsFinite == \A S : First(S) \subseteq S /\ (IsFiniteSet(S) => IsFiniteSet(First(S)))
<1>1. \A S : First(S) \subseteq S
  BY DEF First
<1> QED
  BY <1>1, FS_Subset

\* Every step keeps the variables in their types.
LEMMA BackfillTypeStep == BackfillTypeOK /\ [BackfillNext]_backfillVars => BackfillTypeOK'
<1> SUFFICES ASSUME BackfillTypeOK, [BackfillNext]_backfillVars PROVE BackfillTypeOK'
  OBVIOUS
<1> USE DEF BackfillTypeOK, httpVars, summaryVars, controlVars, writerVars, Outcomes
<1>h. httpVars' = httpVars => HttpTypeOK'
  BY SMT DEF HttpTypeOK
<1>1. CASE Start
  <2>1. PICK all \in BOOLEAN, among \in SUBSET Deals :
          toSend' = First(Candidates(among, all)) /\ selected' = Cardinality(toSend')
    BY <1>1 DEF Start
  <2>2. toSend' \subseteq Deals /\ IsFiniteSet(toSend')
    BY <2>1, FirstIsFinite, BackfillAssumption, FS_Subset DEF Candidates
  <2>3. selected' \in Nat
    BY <2>1, <2>2, FS_CardinalityType
  <2>4. canceled' \in BOOLEAN /\ stopped' \in BOOLEAN
    BY <1>1, Zenon DEF Start
  <2> QED
    BY <1>1, <1>h, <2>2, <2>3, <2>4, SMT DEF Start
<1>2. CASE Cancel
  BY <1>2, <1>h, SMT DEF Cancel
<1>3. CASE StopSending
  BY <1>3, <1>h, SMT DEF StopSending
<1>4. CASE Finish
  BY <1>4, <1>h, SMT DEF Finish
<1>5. CASE Crash
  <2>1. HttpTypeOK'
    BY <1>5, HttpAssumption, SMT DEF Crash, HttpTypeOK, CallStates
  <2> QED
    BY <1>5, <2>1, SMT DEF Crash
<1>6. ASSUME NEW w \in Workers, Send(w) PROVE BackfillTypeOK'
  <2>1. HttpTypeOK'
    BY <1>6, HttpTypeStep DEF Send, Workers
  <2> QED
    BY <1>6, <2>1, SMT DEF Send, Writers
<1>7. ASSUME NEW w \in Workers, Fetch(w) PROVE BackfillTypeOK'
  <2>1. HttpTypeOK'
    BY <1>7, HttpTypeStep DEF Fetch, Workers
  <2> QED
    BY <1>7, <2>1, SMT DEF Fetch
<1>8. ASSUME NEW w \in Workers, Collected(w) PROVE BackfillTypeOK'
  <2>1. HttpTypeOK'
    BY <1>8, HttpTypeStep DEF Collected, Workers
  <2>2. CASE Concludes(w, "failed") /\ UNCHANGED batch
    BY <1>8, <2>1, <2>2, SMT DEF Collected, Concludes, Writers
  <2>3. CASE Concludes(w, "without") /\ UNCHANGED batch
    BY <1>8, <2>1, <2>3, SMT DEF Collected, Concludes, Writers
  <2>4. ASSUME NEW found \in SUBSET Visible[job[w]], batch' = [batch EXCEPT ![w] = found],
               pc' = [pc EXCEPT ![w] = "writing"], UNCHANGED outcome
        PROVE  BackfillTypeOK'
    <3>1. job[w] \in Deals /\ w \in Writers
      BY <1>8 DEF Collected, Writers
    <3>2. found \subseteq Messages
      BY <2>4, <3>1, BackfillAssumption
    <3> QED
      BY <1>8, <2>1, <2>4, <3>1, <3>2, SMT DEF Collected
  <2> QED
    BY <1>8, <2>2, <2>3, <2>4 DEF Collected
<1>9. ASSUME NEW w \in Workers, Update(w) PROVE BackfillTypeOK'
  BY <1>9, <1>h, SMT DEF Update, Count, Leaves, Writers
<1>10. ASSUME NEW a \in Audits, AuditCollected(a) PROVE BackfillTypeOK'
  BY <1>10, <1>h, BackfillAssumption, SMT DEF AuditCollected, Writers
<1>11. ASSUME NEW w \in Writers, WriteRow(w) PROVE BackfillTypeOK'
  BY <1>11, <1>h, SMT DEF WriteRow, NextRow, Left
<1>12. ASSUME NEW w \in Writers, UpsertFails(w) PROVE BackfillTypeOK'
  BY <1>12, <1>h, SMT DEF UpsertFails, Ends, Concludes, Leaves
<1>13. ASSUME NEW w \in Writers, Commit(w) PROVE BackfillTypeOK'
  BY <1>13, <1>h, SMT DEF Commit, Ends, Concludes, Leaves
<1>14. CASE UNCHANGED backfillVars
  BY <1>14, <1>h, SMT DEF backfillVars
<1> QED
  BY <1>1, <1>2, <1>3, <1>4, <1>5, <1>6, <1>7, <1>8, <1>9, <1>10, <1>11, <1>12, <1>13, <1>14
     DEF BackfillNext, WorkerStep, WriterStep

\* Type correctness of the backfill.
THEOREM BackfillTypeCorrect == BackfillSpec => []BackfillTypeOK
  BY BackfillTypeInit, BackfillTypeStep, PTL DEF BackfillSpec

-----------------------------------------------------------------------------
(* Rows and locks. *)

LEMMA RowInit == BackfillInit => RowInv
  BY SMT DEF BackfillInit, RowInv, RowsInHand, WrittenInOrder, LocksExclude, Nobody, Left

\* What a step does to the rows in hand: a writer begins with none, writes the
\* next free one, or lets go of them all.
RowStep ==
    \/ UNCHANGED written /\ \A w \in Writers : pc'[w] = pc[w] /\ batch'[w] = batch[w]
    \/ \E w \in Writers :
          /\ written[w] = {} /\ UNCHANGED written
          /\ \A v \in Writers \ {w} : pc'[v] = pc[v] /\ batch'[v] = batch[v]
    \/ \E w \in Writers :
          /\ WriteRow(w)
    \/ \E S \in SUBSET Writers :
          /\ written' = [w \in Writers |-> IF w \in S THEN {} ELSE written[w]]
          /\ \A v \in Writers \ S : pc'[v] = pc[v] /\ batch'[v] = batch[v]

LEMMA StepIsRowStep == BackfillTypeOK /\ RowInv /\ [BackfillNext]_backfillVars => RowStep
<1> SUFFICES ASSUME BackfillTypeOK, RowInv, [BackfillNext]_backfillVars PROVE RowStep
  OBVIOUS
<1> USE DEF writerVars
<1>1. CASE Start \/ Cancel \/ StopSending \/ Finish
  BY <1>1, Zenon DEF Start, Cancel, StopSending, Finish, RowStep
<1>5. CASE Crash
  <2>1. /\ written' = [w \in Writers |-> IF w \in Workers THEN {} ELSE written[w]]
        /\ \A v \in Writers \ Workers : pc'[v] = pc[v] /\ batch'[v] = batch[v]
    BY <1>5, SMT DEF Crash
  <2> QED
    BY <2>1, Zenon DEF RowStep, Writers
<1>6. ASSUME NEW w \in Workers, Send(w) \/ Collected(w) \/ Fetch(w) \/ Update(w) PROVE RowStep
  <2>1. w \in Writers /\ UNCHANGED written
    BY <1>6, Zenon DEF Writers, Send, Collected, Fetch, Update
  <2>2. CASE Fetch(w)
    BY <2>2, Zenon DEF Fetch, RowStep
  <2>3. CASE Send(w) \/ Collected(w) \/ Update(w)
    <3>1. written[w] = {}
      BY <2>1, <2>3, SMT DEF RowInv, RowsInHand, Send, Collected, Update
    <3>2. \A v \in Writers \ {w} : pc'[v] = pc[v] /\ batch'[v] = batch[v]
      BY <2>1, <2>3, SMT DEF Send, Collected, Update, Concludes, Leaves, BackfillTypeOK
    <3> QED
      BY <2>1, <3>1, <3>2, Zenon DEF RowStep
  <2> QED
    BY <1>6, <2>2, <2>3
<1>10. ASSUME NEW w \in Audits, AuditCollected(w) PROVE RowStep
  <2>1. w \in Writers /\ UNCHANGED written
    BY <1>10, Zenon DEF Writers, AuditCollected
  <2>2. written[w] = {}
    BY <1>10, <2>1, SMT DEF RowInv, RowsInHand, AuditCollected
  <2>3. \A v \in Writers \ {w} : pc'[v] = pc[v] /\ batch'[v] = batch[v]
    BY <1>10, <2>1, SMT DEF AuditCollected, BackfillTypeOK
  <2> QED
    BY <2>1, <2>2, <2>3, Zenon DEF RowStep
<1>11. ASSUME NEW w \in Writers, WriteRow(w) PROVE RowStep
  BY <1>11, Zenon DEF RowStep
<1>12. ASSUME NEW w \in Writers, UpsertFails(w) \/ Commit(w) PROVE RowStep
  <2>1. /\ written' = [v \in Writers |-> IF v \in {w} THEN {} ELSE written[v]]
        /\ \A v \in Writers \ {w} : pc'[v] = pc[v] /\ batch'[v] = batch[v]
    BY <1>12, SMT DEF UpsertFails, Commit, Ends, Concludes, Leaves, BackfillTypeOK
  <2> QED
    BY <2>1, Zenon DEF RowStep
<1>14. CASE UNCHANGED backfillVars
  BY <1>14, Zenon DEF backfillVars, RowStep
<1> QED
  BY <1>1, <1>5, <1>6, <1>10, <1>11, <1>12, <1>14 DEF BackfillNext, WorkerStep, WriterStep

LEMMA RowInvStep == BackfillTypeOK /\ RowInv /\ [BackfillNext]_backfillVars => RowInv'
<1> SUFFICES ASSUME BackfillTypeOK, RowInv, RowStep PROVE RowInv'
  BY StepIsRowStep
<1> USE DEF RowInv, RowsInHand, WrittenInOrder, LocksExclude, Left
<1>1. CASE UNCHANGED written /\ \A w \in Writers : pc'[w] = pc[w] /\ batch'[w] = batch[w]
  BY <1>1, SMT
<1>2. ASSUME NEW w \in Writers, written[w] = {}, UNCHANGED written,
             \A v \in Writers \ {w} : pc'[v] = pc[v] /\ batch'[v] = batch[v]
      PROVE  RowInv'
  BY <1>2, SMT
<1>3. ASSUME NEW w \in Writers, WriteRow(w) PROVE RowInv'
  <2>1. PICK m \in NextRow(w) : ~Locked(w, m) /\ written' = [written EXCEPT ![w] = @ \cup {m}]
    BY <1>3 DEF WriteRow
  <2>a. \A v \in Writers : batch[v] \subseteq Nat
    BY BackfillAssumption DEF BackfillTypeOK
  <2>b. m \in batch[w] \ written[w] /\ \A n \in batch[w] \ written[w] : m <= n
    BY <2>1 DEF NextRow
  <2>2. /\ m \in batch[w] \ written[w] /\ \A n \in batch[w] \ written[w] : m <= n
        /\ pc[w] = "writing" /\ pc' = pc /\ batch' = batch
        /\ \A v \in Writers : batch[v] \subseteq Nat
    BY <1>3, <2>a, <2>b DEF WriteRow
  <2>3. \A v \in Writers : written'[v] = IF v = w THEN written[w] \cup {m} ELSE written[v]
    BY <2>1, SMT DEF BackfillTypeOK
  <2>4. RowsInHand'
    BY <2>2, <2>3, SMT
  <2>5. WrittenInOrder'
    BY <2>2, <2>3, SMT
  <2>6. LocksExclude'
    BY <2>1, <2>3, SMT DEF Locked
  <2> QED
    BY <2>4, <2>5, <2>6
<1>4. ASSUME NEW S \in SUBSET Writers,
             written' = [w \in Writers |-> IF w \in S THEN {} ELSE written[w]],
             \A v \in Writers \ S : pc'[v] = pc[v] /\ batch'[v] = batch[v]
      PROVE  RowInv'
  BY <1>4, SMT
<1> QED
  BY <1>1, <1>2, <1>3, <1>4 DEF RowStep

LEMMA RowsCorrect == BackfillSpec => []RowInv
  BY RowInit, RowInvStep, BackfillTypeCorrect, PTL DEF BackfillSpec

-----------------------------------------------------------------------------
(* Nobody waits in a circle. *)

\* A set of naturals has a least element.
LEMMA LeastOf == ASSUME NEW T \in SUBSET Nat, T # {} PROVE \E x \in T : \A y \in T : x <= y
<1> DEFINE R == OpToRel(<, Nat)
<1>1. PICK x \in T : \A y \in T : ~ (<<y, x>> \in R)
  <2> HIDE DEF R
  <2> QED
    BY WFMin, NatLessThanWellFounded DEF R
<1>2. \A y \in T : ~ (y < x)
  <2> TAKE y \in T
  <2>1. <<y, x>> \in R <=> y < x
    BY DEF OpToRel
  <2> QED
    BY <1>1, <2>1
<1> QED
  BY <1>2

\* The messages after m: fewer, the later m is.
After(m) == {n \in Messages : m < n}

LEMMA FewerAfter ==
    ASSUME NEW m \in Messages, NEW n \in Messages, m < n
    PROVE  Cardinality(After(n)) \in Nat /\ Cardinality(After(m)) \in Nat
           /\ Cardinality(After(n)) < Cardinality(After(m))
<1>1. /\ IsFiniteSet(After(m)) /\ After(n) \subseteq After(m)
      /\ n \in After(m) /\ n \notin After(n)
  <2>1. After(m) \subseteq Messages
    BY DEF After
  <2>2. IsFiniteSet(After(m))
    BY <2>1, BackfillAssumption, FS_Subset
  <2> QED
    <3>1. After(n) \subseteq After(m)
      <4> SUFFICES ASSUME NEW k \in Messages, n < k PROVE m < k
        BY DEF After
      <4>1. k \in Nat /\ m \in Nat /\ n \in Nat
        BY BackfillAssumption
      <4> QED
        BY <4>1, SMT
    <3>2. n \in After(m) /\ n \notin After(n)
      BY BackfillAssumption, SMT DEF After
    <3> QED
      BY <2>2, <3>1, <3>2
<1>2. /\ IsFiniteSet(After(n)) /\ Cardinality(After(n)) <= Cardinality(After(m))
      /\ Cardinality(After(n)) # Cardinality(After(m))
  BY <1>1, FS_Subset
<1>3. Cardinality(After(n)) \in Nat /\ Cardinality(After(m)) \in Nat
  BY <1>1, <1>2, FS_CardinalityType
<1> QED
  BY <1>2, <1>3

\* Who waits is about to write an earlier message than the one it waits for.
LEMMA WaitsForLater ==
    ASSUME BackfillTypeOK, RowInv, NEW v \in Writers, NEW w \in Writers, WaitsFor(w, v),
           NEW n \in NextRow(v)
    PROVE  \E m \in NextRow(w) : m < n
<1>1. PICK m \in NextRow(w) : m \in written[v]
  BY DEF WaitsFor
<1>2. n \in Left(v)
  BY DEF NextRow
<1> QED
  BY <1>1, <1>2 DEF RowInv, WrittenInOrder

\* Overlapping transactions never wait for each other in a circle.
LEMMA OrderedLocks == BackfillTypeOK /\ RowInv => UpsertsDoNotDeadlock
<1> SUFFICES ASSUME BackfillTypeOK, RowInv,
                    NEW S \in (SUBSET Writers) \ {{}},
                    \A w \in S : \E v \in S : WaitsFor(w, v)
             PROVE  FALSE
  BY Zenon DEF UpsertsDoNotDeadlock
<1>s. S # {} /\ S \subseteq Writers
  OBVIOUS
<1> DEFINE Awaited == UNION {NextRow(w) : w \in S}
           Rests == {Cardinality(After(m)) : m \in Awaited}
<1>1. Awaited \subseteq Messages
  BY DEF NextRow, Left, BackfillTypeOK
<1>2. Awaited # {} /\ \A w \in S : NextRow(w) \subseteq Awaited
  BY <1>s DEF WaitsFor
<1>3. Rests \subseteq Nat
  <2> SUFFICES ASSUME NEW m \in Messages PROVE Cardinality(After(m)) \in Nat
    BY <1>1
  <2>1. After(m) \subseteq Messages
    BY DEF After
  <2> QED
    BY <2>1, BackfillAssumption, FS_Subset, FS_CardinalityType
<1>4. PICK n \in Awaited : \A m \in Awaited : Cardinality(After(n)) <= Cardinality(After(m))
  <2>1. PICK x \in Rests : \A y \in Rests : x <= y
    <3>1. Rests # {}
      BY <1>2
    <3> HIDE DEF Rests
    <3> QED
      BY <1>3, <3>1, LeastOf
  <2> QED
    BY <2>1
<1>5. PICK w \in S : n \in NextRow(w)
  OBVIOUS
<1>6. PICK v \in S : WaitsFor(w, v)
  OBVIOUS
<1>7. PICK u \in S : WaitsFor(v, u)
  OBVIOUS
<1>8. PICK k \in NextRow(v) : TRUE
  BY <1>7 DEF WaitsFor
<1>9. PICK m \in NextRow(w) : m < k
  BY <1>6, <1>8, WaitsForLater
<1>10. m = n
  <2>1. m \in Nat /\ n \in Nat
    BY <1>1, <1>2, BackfillAssumption
  <2>2. m <= n /\ n <= m
    BY <1>5 DEF NextRow
  <2> QED
    BY <2>1, <2>2, SMT
<1>11. n \in Messages /\ k \in Messages /\ k \in Awaited
  BY <1>1, <1>2, <1>8
<1> HIDE DEF Awaited, Rests
<1> QED
  BY <1>4, <1>9, <1>10, <1>11, FewerAfter, SMT

\* No circle of waiting transactions, however many audits and workers overlap.
THEOREM UpsertsAreOrdered == BackfillSpec => []UpsertsDoNotDeadlock
  BY OrderedLocks, RowsCorrect, BackfillTypeCorrect, PTL

-----------------------------------------------------------------------------
(* What is counted as stored is stored. *)

LEMMA CountedInit == BackfillInit => CountedIsStored
  BY SMT DEF BackfillInit, CountedIsStored, Nobody, Writers

\* Only a commit writes rows, and none that was there is lost.
LEMMA CountedStep ==
    BackfillTypeOK /\ RowInv /\ CountedIsStored /\ [BackfillNext]_backfillVars => CountedIsStored'
<1> SUFFICES ASSUME BackfillTypeOK, RowInv, CountedIsStored, [BackfillNext]_backfillVars
             PROVE  CountedIsStored'
  OBVIOUS
<1> USE DEF BackfillTypeOK, CountedIsStored, writerVars, Writers
<1>1. CASE Start \/ Cancel \/ StopSending \/ Finish
  BY <1>1, Zenon DEF Start, Cancel, StopSending, Finish
<1>2. CASE Crash
  BY <1>2, SMT DEF Crash
<1>3. ASSUME NEW w \in Workers, Send(w) \/ Fetch(w) PROVE CountedIsStored'
  BY <1>3, SMT DEF Send, Fetch
<1>4. ASSUME NEW w \in Workers, Collected(w) PROVE CountedIsStored'
  BY <1>4, SMT DEF Collected, Concludes
<1>5. ASSUME NEW w \in Workers, Update(w) PROVE CountedIsStored'
  BY <1>5, SMT DEF Update, Leaves
<1>6. ASSUME NEW a \in Audits, AuditCollected(a) PROVE CountedIsStored'
  BY <1>6, BackfillAssumption, SMT DEF AuditCollected
<1>7. ASSUME NEW w \in Writers, WriteRow(w) PROVE CountedIsStored'
  BY <1>7, SMT DEF WriteRow
<1>8. ASSUME NEW w \in Writers, UpsertFails(w) PROVE CountedIsStored'
  BY <1>8, SMT DEF UpsertFails, Ends, Concludes, Leaves
<1>9. ASSUME NEW w \in Writers, Commit(w) PROVE CountedIsStored'
  <2>1. /\ job[w] \in Deals /\ batch[w] \subseteq written[w]
        /\ stored' = [m \in Messages |->
                         IF m \in written[w] /\ stored[m] = NoDeal THEN job[w] ELSE stored[m]]
    BY <1>9, SMT DEF Commit, AllWritten, Left
  <2>2. \A m \in Messages : stored'[m] # NoDeal <=> stored[m] # NoDeal \/ m \in written[w]
    BY <2>1, BackfillAssumption, SMT
  <2>3. \A v \in Workers \ {w} : pc'[v] = pc[v] /\ outcome'[v] = outcome[v] /\ batch'[v] = batch[v]
    BY <1>9, SMT DEF Commit, Ends, Concludes, Leaves
  <2>4. w \in Workers => batch'[w] = batch[w]
    BY <1>9, SMT DEF Commit, Ends
  <2>5. \A v \in Workers : batch[v] \subseteq Messages
    OBVIOUS
  <2> SUFFICES ASSUME NEW v \in Workers, pc'[v] = "counting", outcome'[v] = "messages",
                      NEW m \in batch'[v]
               PROVE  stored'[m] # NoDeal
    OBVIOUS
  <2>6. CASE v = w
    BY <2>1, <2>2, <2>4, <2>5, <2>6
  <2>7. CASE v # w
    BY <2>2, <2>3, <2>5, <2>7
  <2> QED
    BY <2>6, <2>7
<1>10. CASE UNCHANGED backfillVars
  BY <1>10, Zenon DEF backfillVars
<1> QED
  BY <1>1, <1>2, <1>3, <1>4, <1>5, <1>6, <1>7, <1>8, <1>9, <1>10 DEF BackfillNext, WorkerStep, WriterStep

\* A deal counted with messages has them stored, whoever's commit it was.
THEOREM CountedMeansStored == BackfillSpec => []CountedIsStored
  BY CountedInit, CountedStep, RowsCorrect, BackfillTypeCorrect, PTL DEF BackfillSpec

-----------------------------------------------------------------------------
(* The summary adds up. *)

SummaryInv == NothingIdle /\ SummaryAddsUp

LEMMA FiniteSets == BackfillTypeOK =>
    /\ IsFiniteSet(Busy) /\ Cardinality(Busy) \in Nat
    /\ IsFiniteSet(toSend) /\ Cardinality(toSend) \in Nat
    /\ Processed \in Nat
<1> SUFFICES ASSUME BackfillTypeOK
             PROVE  /\ IsFiniteSet(Busy) /\ Cardinality(Busy) \in Nat
                    /\ IsFiniteSet(toSend) /\ Cardinality(toSend) \in Nat
                    /\ Processed \in Nat
  OBVIOUS
<1>1. IsFiniteSet(Busy) /\ IsFiniteSet(toSend)
  BY BackfillAssumption, FS_Subset DEF Busy, BackfillTypeOK
<1>2. Processed \in Nat
  BY SMT DEF BackfillTypeOK, Processed, Outcomes
<1> QED
  BY <1>1, <1>2, FS_CardinalityType

LEMMA SummaryInit == BackfillInit => SummaryInv
<1> SUFFICES ASSUME BackfillInit PROVE SummaryInv
  OBVIOUS
<1>1. phase = "idle" /\ toSend = {} /\ Busy = {}
  BY DEF BackfillInit, Nobody, Busy, Writers
<1> QED
  BY <1>1, Zenon DEF SummaryInv, NothingIdle, SummaryAddsUp

\* Each step moves a deal between the channel, the workers and the counters, or
\* moves none.
LEMMA SummaryStep ==
    BackfillTypeOK /\ SummaryInv /\ [BackfillNext]_backfillVars => SummaryInv'
<1> SUFFICES ASSUME BackfillTypeOK, SummaryInv, [BackfillNext]_backfillVars PROVE SummaryInv'
  OBVIOUS
<1>f. /\ IsFiniteSet(Busy) /\ Cardinality(Busy) \in Nat
      /\ IsFiniteSet(toSend) /\ Cardinality(toSend) \in Nat
      /\ Processed \in Nat /\ selected \in Nat
  BY FiniteSets DEF BackfillTypeOK
<1> USE DEF summaryVars, controlVars, writerVars
<1>s. ASSUME UNCHANGED <<phase, toSend, stopped, selected, counted>>, Busy' = Busy
      PROVE  SummaryInv'
  BY <1>s DEF SummaryInv, NothingIdle, SummaryAddsUp, Processed
<1>1. CASE Start
  <2>1. PICK all \in BOOLEAN, among \in SUBSET Deals :
          toSend' = First(Candidates(among, all)) /\ selected' = Cardinality(toSend')
    BY <1>1 DEF Start
  <2>2. toSend' \subseteq Deals
    BY <2>1, FirstIsFinite DEF Candidates
  <2>3. Cardinality(toSend') \in Nat
    BY <2>2, BackfillAssumption, FS_Subset, FS_CardinalityType
  <2>4. Busy = {} /\ Busy' = Busy
    BY <1>1, Zenon DEF Start, SummaryInv, NothingIdle, Busy
  <2>5. Processed' = 0
    BY <1>1, SMT DEF Start, Processed, Outcomes
  <2>6. Cardinality(Busy') = 0
    BY <2>4, FS_EmptySet
  <2>7. phase' # "running" => toSend' = {}
    BY <1>1, Zenon DEF Start
  <2>8. NothingIdle'
    BY <2>4, <2>7 DEF NothingIdle
  <2>9. SummaryAddsUp'
    BY <2>1, <2>3, <2>5, <2>6, SMT DEF SummaryAddsUp
  <2> QED
    BY <2>8, <2>9 DEF SummaryInv
<1>2. CASE Cancel
  BY <1>2, <1>s DEF Cancel, Busy
<1>3. CASE StopSending
  <2>1. Busy' = Busy /\ Processed' = Processed /\ stopped' /\ toSend' = {} /\ phase' = phase
        /\ selected' = selected
    BY <1>3 DEF StopSending, Busy, Processed
  <2>2. Cardinality(toSend') = 0
    BY <2>1, FS_EmptySet
  <2>3. SummaryAddsUp'
    BY <1>f, <2>1, <2>2, SMT DEF SummaryInv, SummaryAddsUp
  <2> QED
    BY <2>1, <2>3 DEF SummaryInv, NothingIdle
<1>4. CASE Finish
  <2>1. Busy' = Busy /\ Processed' = Processed /\ UNCHANGED <<stopped, toSend, selected>>
        /\ toSend = {} /\ Busy = {} /\ phase = "running"
    BY <1>4 DEF Finish, Busy, Processed
  <2>2. SummaryAddsUp'
    BY <1>f, <2>1 DEF SummaryInv, SummaryAddsUp
  <2> QED
    BY <2>1, <2>2 DEF SummaryInv, NothingIdle
<1>5. CASE Crash
  <2>1. phase' = "idle" /\ toSend' = {}
    BY <1>5 DEF Crash
  <2>2. Busy' = {}
    BY <1>5, SMT DEF Crash, Busy, Writers
  <2> QED
    BY <2>1, <2>2, Zenon DEF SummaryInv, NothingIdle, SummaryAddsUp
<1>6. ASSUME NEW w \in Workers, Send(w) PROVE SummaryInv'
  <2>1. PICK d \in toSend : toSend' = toSend \ {d}
    BY <1>6 DEF Send
  <2>2. w \notin Busy /\ Busy' = Busy \cup {w}
    BY <1>6, SMT DEF Send, Busy, BackfillTypeOK, Writers
  <2>3. Cardinality(toSend') = Cardinality(toSend) - 1 /\ Cardinality(Busy') = Cardinality(Busy) + 1
    BY <1>f, <2>1, <2>2, FS_AddElement, FS_RemoveElement
  <2>4. Processed' = Processed /\ UNCHANGED <<stopped, selected, phase>> /\ phase = "running"
    BY <1>6 DEF Send, Processed
  <2>5. SummaryAddsUp'
    BY <1>f, <2>3, <2>4, SMT DEF SummaryInv, SummaryAddsUp
  <2> QED
    BY <2>4, <2>5 DEF SummaryInv, NothingIdle
<1>7. ASSUME NEW w \in Workers, Fetch(w) PROVE SummaryInv'
  BY <1>7, <1>s DEF Fetch, Busy
<1>8. ASSUME NEW w \in Workers, Collected(w) PROVE SummaryInv'
  <2>1. Busy' = Busy
    BY <1>8, SMT DEF Collected, Concludes, Busy, BackfillTypeOK, Writers
  <2> QED
    BY <1>8, <2>1, <1>s DEF Collected
<1>9. ASSUME NEW w \in Workers, Update(w) PROVE SummaryInv'
  <2>1. w \in Busy /\ Busy' = Busy \ {w}
    BY <1>9, SMT DEF Update, Leaves, Busy, BackfillTypeOK, Writers
  <2>2. Cardinality(Busy') = Cardinality(Busy) - 1
    BY <1>f, <2>1, FS_RemoveElement
  <2>3. Processed' = Processed + 1
    <3>1. outcome[w] \in Outcomes /\ counted \in [Outcomes -> Nat]
          /\ counted' = [counted EXCEPT ![outcome[w]] = @ + 1]
      BY <1>9 DEF Update, Count, BackfillTypeOK, Writers
    <3> QED
      BY <3>1, SMT DEF Processed, Outcomes
  <2>4. UNCHANGED <<stopped, selected, phase, toSend>>
    BY <1>9 DEF Update
  <2>5. SummaryAddsUp'
    BY <1>f, <2>2, <2>3, <2>4, SMT DEF SummaryInv, SummaryAddsUp
  <2> QED
    BY <2>1, <2>4, <2>5 DEF SummaryInv, NothingIdle
<1>10. ASSUME NEW a \in Audits, AuditCollected(a) PROVE SummaryInv'
  <2>1. Busy' = Busy
    BY <1>10, BackfillAssumption, SMT DEF AuditCollected, Busy, BackfillTypeOK, Writers
  <2> QED
    BY <1>10, <2>1, <1>s DEF AuditCollected
<1>11. ASSUME NEW w \in Writers, WriteRow(w) PROVE SummaryInv'
  BY <1>11, <1>s DEF WriteRow, Busy
<1>12. ASSUME NEW w \in Writers, UpsertFails(w) \/ Commit(w) PROVE SummaryInv'
  <2>1. Busy' = Busy
    <3>1. pc[w] = "writing"
      BY <1>12 DEF UpsertFails, Commit
    <3>2. pc' = [pc EXCEPT ![w] = IF w \in Workers THEN "counting" ELSE "idle"]
      BY <1>12, SMT DEF UpsertFails, Commit, Ends, Concludes, Leaves
    <3> QED
      BY <3>1, <3>2, SMT DEF Busy, BackfillTypeOK, Writers
  <2>2. UNCHANGED <<phase, toSend, stopped, selected, counted>>
    BY <1>12 DEF UpsertFails, Commit, Ends
  <2> QED
    BY <2>1, <2>2, <1>s
<1>13. CASE UNCHANGED backfillVars
  BY <1>13, <1>s DEF backfillVars, Busy
<1> QED
  BY <1>1, <1>2, <1>3, <1>4, <1>5, <1>6, <1>7, <1>8, <1>9, <1>10, <1>11, <1>12, <1>13
     DEF BackfillNext, WorkerStep, WriterStep

\* No deal is lost or counted twice, whatever fails or is canceled.
THEOREM SummaryBalances == BackfillSpec => []SummaryAddsUp
  BY SummaryInit, SummaryStep, BackfillTypeCorrect, PTL DEF BackfillSpec, SummaryInv
=============================================================================
