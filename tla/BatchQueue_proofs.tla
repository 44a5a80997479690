-------------------------- MODULE BatchQueue_proofs --------------------------
(***************************************************************************)
(* Proofs about the audit queue, for any number of batches, deals, workers *)
(* and processes.  LifecycleStep is about the abstract rows alone; the     *)
(* worker invariants then give the refinement, and the refinement gives    *)
(* back the invariants of the rows.                                        *)
(***************************************************************************)
EXTENDS BatchQueueProps, TLAPS

LEMMA BatchOfItem == \A i \in Items : BatchOf(i) \in Batches
  BY DEF Items, BatchOf

-----------------------------------------------------------------------------
(* Type correctness. *)

LEMMA FinishStatementsType ==
  ASSUME QueueTypeOK, NEW w \in Workers, pc[w] = "running",
         NEW out \in Settlements, FinishStatements(w, out)
  PROVE  QueueTypeOK'
<1>1. CASE item[held[w]] = "PROCESSING"
  <2>1. /\ pc' = [pc EXCEPT ![w] = "finishing"]
        /\ outcome' = [outcome EXCEPT ![w] = out]
        /\ verdict' = [verdict EXCEPT ![w] =
                 Tally(BatchOf(held[w]), [item EXCEPT ![held[w]] = out])]
        /\ UNCHANGED <<held, tries, selected, seenCanceled>>
        /\ UNCHANGED <<tableVars, cancelVars, faults>>
    BY <1>1 DEF FinishStatements
  <2>2. Tally(BatchOf(held[w]), [item EXCEPT ![held[w]] = out]) \in Verdicts \cup {"KEEP"}
    BY DEF Tally, Verdict, Verdicts
  <2> QED
    BY <2>1, <2>2 DEF QueueTypeOK, PCs, tableVars, cancelVars
<1>2. CASE item[held[w]] # "PROCESSING"
  BY <1>2 DEF FinishStatements, Release, QueueTypeOK, PCs, tableVars, cancelVars
<1> QED BY <1>1, <1>2

LEMMA TypeStep == QueueTypeOK /\ [Next]_vars => QueueTypeOK'
<1> SUFFICES ASSUME QueueTypeOK, [Next]_vars PROVE QueueTypeOK'
  OBVIOUS
<1> USE WorkersAssumption DEF QueueTypeOK, tableVars, cancelVars, workerVars
<1>1. CASE UNCHANGED vars
  BY <1>1 DEF vars
<1>2. ASSUME NEW b \in Batches, NEW ds \in SUBSET Deals, Create(b, ds)
      PROVE QueueTypeOK'
  BY <1>2 DEF Create, Open, BatchStatuses, ItemStatuses
<1>3. ASSUME NEW b \in Batches, CancelStatement(b) PROVE QueueTypeOK'
  BY <1>3 DEF CancelStatement, ItemsOf
<1>4. ASSUME NEW b \in Batches, CancelCommit(b) PROVE QueueTypeOK'
  BY <1>4 DEF CancelCommit, Cancel, BatchStatuses, ItemStatuses
<1>5. ASSUME NEW w \in Workers, WorkerStep(w) PROVE QueueTypeOK'
  <2>1. CASE RecoverStatement(w)
    BY <2>1 DEF RecoverStatement, PCs, CanceledBatches
  <2>2. CASE RecoverCommit(w)
    BY <2>2 DEF RecoverCommit, RequeueCommit, Release, PCs, ItemStatuses
  <2>3. ASSUME NEW i \in Items, Claim(w, i) PROVE QueueTypeOK'
    BY <2>3 DEF Claim, PCs, ItemStatuses
  <2>10. CASE ClaimStatement(w)
    BY <2>10 DEF ClaimStatement, PCs
  <2>11. CASE ClaimMissed(w)
    BY <2>11 DEF ClaimMissed, Release, PCs
  <2>4. CASE StartBatch(w)
    BY <2>4 DEF StartBatch, MarkStarted, PCs, BatchStatuses
  <2>5. CASE Complete(w)
    BY <2>5, FinishStatementsType DEF Complete, Settlements
  <2>6. CASE Fail(w)
    BY <2>6, FinishStatementsType DEF Fail, Settlements
  <2>7. CASE Reschedule(w)
    <3>1. CASE item[held[w]] = "PROCESSING"
      BY <2>7, <3>1 DEF Reschedule, PCs, CanceledBatches
    <3>2. CASE item[held[w]] # "PROCESSING"
      BY <2>7, <3>2 DEF Reschedule, Release, PCs
    <3> QED BY <3>1, <3>2
  <2>8. CASE RescheduleCommit(w)
    BY <2>8 DEF RescheduleCommit, RequeueCommit, Release, PCs, ItemStatuses
  <2>9. CASE FinishCommit(w)
    <3>1. held[w] \in Items
      BY <2>9 DEF FinishCommit
    <3>2. \A b \in Batches : FinalStatus(w, b) \in BatchStatuses
      BY DEF FinalStatus, BatchStatuses
    <3>3. batch' \in [Batches -> BatchStatuses]
      BY <2>9, <3>1, <3>2, BatchOfItem DEF FinishCommit
    <3>4. item' \in [Items -> ItemStatuses]
      BY <2>9, <3>1 DEF FinishCommit, ItemStatuses, Settlements
    <3> QED BY <2>9, <3>3, <3>4 DEF FinishCommit, Release, PCs
  <2> QED BY <1>5, <2>1, <2>2, <2>3, <2>4, <2>5, <2>6, <2>7, <2>8, <2>9, <2>10, <2>11
          DEF WorkerStep
<1>6. ASSUME NEW i \in Items, BecomeDue(i) PROVE QueueTypeOK'
  BY <1>6 DEF BecomeDue
<1>7. ASSUME NEW i \in Items, LeaseExpires(i) PROVE QueueTypeOK'
  BY <1>7 DEF LeaseExpires
<1>8. ASSUME NEW w \in Workers, StatementFails(w) PROVE QueueTypeOK'
  BY <1>8 DEF StatementFails, Release, PCs
<1>9. ASSUME NEW S \in SUBSET Workers, WorkersStop(S) PROVE QueueTypeOK'
  BY <1>9 DEF WorkersStop, PCs
<1> QED BY <1>1, <1>2, <1>3, <1>4, <1>5, <1>6, <1>7, <1>8, <1>9 DEF Next

LEMMA TypeInit == Init => QueueTypeOK
  BY WorkersAssumption
  DEF Init, LifecycleInit, QueueTypeOK, BatchStatuses, ItemStatuses, Verdicts, PCs

\* Every step keeps each variable in its type: no operation of the queue writes
\* a status, a lease or a claim outside the values the schema and the loop allow.
THEOREM TypeCorrect == Spec => []QueueTypeOK
<1> QED BY TypeInit, TypeStep, PTL DEF Spec

-----------------------------------------------------------------------------
(* The rows alone. *)

RowsTypeOK ==
    /\ batch \in [Batches -> BatchStatuses]
    /\ item \in [Items -> ItemStatuses]

\* Settled items, closed batches, and the absence of an item in a batch that
\* exists, are for good.
RowsStay ==
    /\ \A i \in Items : item[i] \in Settlements => item'[i] = item[i]
    /\ \A b \in Batches : batch[b] \in Verdicts \cup {"CANCELED"} => batch'[b] = batch[b]
    /\ \A i \in Items : item[i] = "NONE" /\ batch[BatchOf(i)] # "NONE" => item'[i] = "NONE"
    /\ \A b \in Batches : batch[b] # "NONE" => batch'[b] # "NONE"

LEMMA RowsStayStep ==
  ASSUME RowsTypeOK, LifecycleInv, [LifecycleNext]_lifecycleVars
  PROVE  RowsStay
<1> USE BatchOfItem
        DEF RowsTypeOK, RowsStay, Verdicts, Settlements, BatchStatuses, ItemStatuses,
            OpenStatuses
<1>1. CASE UNCHANGED lifecycleVars
  BY <1>1 DEF lifecycleVars
<1>2. ASSUME NEW b \in Batches, NEW ds \in SUBSET Deals, Open(b, ds) PROVE RowsStay
  BY <1>2 DEF Open, LifecycleInv, ItemsHaveBatch
<1>3. ASSUME NEW i \in Items, Take(i) PROVE RowsStay
  BY <1>3 DEF Take
<1>4. ASSUME NEW b \in Batches, MarkStarted(b) PROVE RowsStay
  BY <1>4 DEF MarkStarted
<1>5. ASSUME NEW i \in Items, NEW out \in Settlements, Settle(i, out) PROVE RowsStay
  BY <1>5 DEF Settle, Verdict
<1>6. ASSUME NEW S \in SUBSET Items, Requeue(S) PROVE RowsStay
  BY <1>6 DEF Requeue
<1>7. ASSUME NEW b \in Batches, NEW S \in SUBSET Items, Cancel(b, S) PROVE RowsStay
  BY <1>7 DEF Cancel, ItemsOf
<1> QED BY <1>1, <1>2, <1>3, <1>4, <1>5, <1>6, <1>7 DEF LifecycleNext

\* The items of a drained batch that exists do not change.
LEMMA DrainedStays ==
  ASSUME RowsTypeOK, RowsStay, NEW b \in Batches, batch[b] # "NONE", Drained(b, item)
  PROVE  \A i \in ItemsOf(b) : item'[i] = item[i]
<1> SUFFICES ASSUME NEW i \in ItemsOf(b) PROVE item'[i] = item[i]
  OBVIOUS
<1>1. i \in Items /\ BatchOf(i) = b
  BY DEF ItemsOf
<1>2. item[i] \in Settlements \cup {"NONE"}
  BY <1>1 DEF Drained, RowsTypeOK, ItemStatuses, Settlements, ActiveStatuses
<1> QED BY <1>1, <1>2 DEF RowsStay

LEMMA SameItemsSameVerdict ==
  ASSUME NEW b \in Batches, NEW f, NEW g, \A i \in ItemsOf(b) : f[i] = g[i]
  PROVE  Drained(b, f) = Drained(b, g) /\ Verdict(b, f) = Verdict(b, g)
  BY DEF Drained, Verdict

LEMMA LifecycleStep ==
  ASSUME RowsTypeOK, RowsTypeOK', LifecycleInv, [LifecycleNext]_lifecycleVars
  PROVE  LifecycleInv'
<1>1. RowsStay
  BY RowsStayStep
<1>2. ItemsHaveBatch'
  <2> USE BatchOfItem DEF RowsTypeOK, LifecycleInv, ItemsHaveBatch
  <2>1. CASE UNCHANGED lifecycleVars
    BY <2>1 DEF lifecycleVars
  <2>2. ASSUME NEW b \in Batches, NEW ds \in SUBSET Deals, Open(b, ds) PROVE ItemsHaveBatch'
    BY <2>2 DEF Open
  <2>3. ASSUME NEW i \in Items, Take(i) PROVE ItemsHaveBatch'
    BY <2>3 DEF Take
  <2>4. ASSUME NEW b \in Batches, MarkStarted(b) PROVE ItemsHaveBatch'
    BY <2>4 DEF MarkStarted
  <2>5. ASSUME NEW i \in Items, NEW out \in Settlements, Settle(i, out) PROVE ItemsHaveBatch'
    BY <1>1, <2>5 DEF Settle, RowsStay
  <2>6. ASSUME NEW S \in SUBSET Items, Requeue(S) PROVE ItemsHaveBatch'
    BY <2>6 DEF Requeue
  <2>7. ASSUME NEW b \in Batches, NEW S \in SUBSET Items, Cancel(b, S) PROVE ItemsHaveBatch'
    BY <2>7 DEF Cancel, ItemsOf
  <2> QED BY <2>1, <2>2, <2>3, <2>4, <2>5, <2>6, <2>7 DEF LifecycleNext
<1>3. ASSUME NEW b \in Batches, batch'[b] \in Verdicts
      PROVE Drained(b, item') /\ batch'[b] = Verdict(b, item')
  <2>1. CASE batch[b] \in Verdicts
    <3>1. batch'[b] = batch[b] /\ batch[b] # "NONE"
      BY <1>1, <2>1 DEF RowsStay, Verdicts
    <3>2. Drained(b, item) /\ batch[b] = Verdict(b, item)
      BY <2>1 DEF LifecycleInv, VerdictMeansDrained, VerdictMatchesItems
    <3>3. \A i \in ItemsOf(b) : item'[i] = item[i]
      BY <1>1, <3>1, <3>2, DrainedStays
    <3> QED BY <3>1, <3>2, <3>3, SameItemsSameVerdict
  <2>2. CASE batch[b] \notin Verdicts
    <3> USE BatchOfItem DEF RowsTypeOK, Verdicts
    <3>1. CASE UNCHANGED lifecycleVars
      BY <1>3, <2>2, <3>1 DEF lifecycleVars
    <3>2. ASSUME NEW c \in Batches, NEW ds \in SUBSET Deals, Open(c, ds) PROVE FALSE
      BY <1>3, <2>2, <3>2 DEF Open
    <3>3. ASSUME NEW i \in Items, Take(i) PROVE FALSE
      BY <1>3, <2>2, <3>3 DEF Take
    <3>4. ASSUME NEW c \in Batches, MarkStarted(c) PROVE FALSE
      BY <1>3, <2>2, <3>4 DEF MarkStarted
    <3>5. ASSUME NEW i \in Items, NEW out \in Settlements, Settle(i, out)
          PROVE Drained(b, item') /\ batch'[b] = Verdict(b, item')
      BY <1>3, <2>2, <3>5 DEF Settle
    <3>6. ASSUME NEW S \in SUBSET Items, Requeue(S) PROVE FALSE
      BY <1>3, <2>2, <3>6 DEF Requeue
    <3>7. ASSUME NEW c \in Batches, NEW S \in SUBSET Items, Cancel(c, S) PROVE FALSE
      BY <1>3, <2>2, <3>7 DEF Cancel
    <3> QED BY <3>1, <3>2, <3>3, <3>4, <3>5, <3>6, <3>7 DEF LifecycleNext
  <2> QED BY <2>1, <2>2
<1>4. DroppedOnlyByCancel'
  <2> USE BatchOfItem DEF RowsTypeOK, LifecycleInv, DroppedOnlyByCancel
  <2>1. CASE UNCHANGED lifecycleVars
    BY <2>1 DEF lifecycleVars
  <2>2. ASSUME NEW b \in Batches, NEW ds \in SUBSET Deals, Open(b, ds)
        PROVE DroppedOnlyByCancel'
    BY <2>2 DEF Open
  <2>3. ASSUME NEW i \in Items, Take(i) PROVE DroppedOnlyByCancel'
    BY <2>3 DEF Take
  <2>4. ASSUME NEW b \in Batches, MarkStarted(b) PROVE DroppedOnlyByCancel'
    BY <2>4 DEF MarkStarted
  <2>5. ASSUME NEW i \in Items, NEW out \in Settlements, Settle(i, out)
        PROVE DroppedOnlyByCancel'
    BY <1>1, <2>5 DEF Settle, RowsStay
  <2>6. ASSUME NEW S \in SUBSET Items, Requeue(S) PROVE DroppedOnlyByCancel'
    BY <2>6 DEF Requeue
  <2>7. ASSUME NEW b \in Batches, NEW S \in SUBSET Items, Cancel(b, S)
        PROVE DroppedOnlyByCancel'
    BY <2>7 DEF Cancel, ItemsOf
  <2> QED BY <2>1, <2>2, <2>3, <2>4, <2>5, <2>6, <2>7 DEF LifecycleNext
<1> QED BY <1>2, <1>3, <1>4 DEF LifecycleInv, VerdictMeansDrained, VerdictMatchesItems

-----------------------------------------------------------------------------
(* The queue implements the life of the rows. *)

LEMMA FinishStatementsRows ==
  ASSUME NEW w \in Workers, NEW out, FinishStatements(w, out)
  PROVE  UNCHANGED lifecycleVars
  BY DEF FinishStatements, tableVars, lifecycleVars

LEMMA RequeueRows ==
  ASSUME QueueTypeOK, SeenCanceledTrue, NEW w \in Workers, NEW d, RequeueCommit(w, d)
  PROVE  Requeue(StillSelected(w))
<1>1. StillSelected(w) \subseteq Items
  BY DEF StillSelected, QueueTypeOK
<1>2. \A i \in StillSelected(w) : item[i] = "PROCESSING"
  BY DEF StillSelected, Expired
<1>3. /\ item' = [i \in Items |->
                    IF i \notin StillSelected(w) THEN item[i]
                    ELSE IF BatchOf(i) \in seenCanceled[w] THEN "CANCELED" ELSE "PENDING"]
      /\ UNCHANGED batch
  BY DEF RequeueCommit
<1>4. item' \in [Items -> ItemStatuses]
  BY <1>3 DEF QueueTypeOK, ItemStatuses
<1>5. ASSUME NEW i \in Items
      PROVE  IF i \in StillSelected(w)
             THEN \/ item'[i] = "PENDING"
                  \/ item'[i] = "CANCELED" /\ batch[BatchOf(i)] = "CANCELED"
             ELSE item'[i] = item[i]
  <2>1. BatchOf(i) \in seenCanceled[w] => batch[BatchOf(i)] = "CANCELED"
    BY DEF SeenCanceledTrue, CanceledBatches
  <2> QED BY <1>3, <2>1
<1> QED BY <1>2, <1>3, <1>4, <1>5 DEF Requeue

LEMMA FinishRows ==
  ASSUME QueueTypeOK, QueueInv, NEW w \in Workers, FinishCommit(w)
  PROVE  Settle(held[w], outcome[w])
<1> DEFINE i == held[w]
           b == BatchOf(i)
<1>1. i \in Items /\ b \in Batches
  BY BatchOfItem DEF FinishCommit, QueueTypeOK
<1>2. /\ item[i] = "PROCESSING"
      /\ outcome[w] = "CANCELED" => batch[b] = "CANCELED"
  BY DEF FinishCommit, QueueInv, FinishLocksItem, FinishOutcomeTrue
<1>3. item' = ItemsAfter(w) /\ batch' = [batch EXCEPT ![b] = FinalStatus(w, b)]
  BY DEF FinishCommit, ItemsAfter
<1>4. CASE FinalStatus(w, b) = batch[b]
  <2>1. batch' = batch
    BY <1>1, <1>3, <1>4 DEF QueueTypeOK
  <2> QED BY <1>2, <1>3, <2>1 DEF Settle, ItemsAfter
<1>5. CASE FinalStatus(w, b) # batch[b]
  <2>1. verdict[w] # "KEEP" /\ batch[b] # "CANCELED" /\ FinalStatus(w, b) = verdict[w]
    BY <1>5 DEF FinalStatus
  <2>2. Drained(b, item') /\ verdict[w] = Verdict(b, item')
    BY <1>3, <2>1 DEF FinishCommit, QueueInv, FinishVerdictTrue
  <2>3. batch[b] # "NONE"
    BY <1>1, <1>2 DEF QueueInv, LifecycleInv, ItemsHaveBatch
  <2>4. batch[b] \notin Verdicts
    <3>1. i \in ItemsOf(b) /\ item[i] \in ActiveStatuses
      BY <1>1, <1>2 DEF ItemsOf, ActiveStatuses
    <3> QED BY <1>1, <3>1 DEF QueueInv, LifecycleInv, VerdictMeansDrained, Drained
  <2>5. batch[b] \in OpenStatuses
    BY <1>1, <2>1, <2>3, <2>4 DEF QueueTypeOK, BatchStatuses, OpenStatuses
  <2>6. item' = [item EXCEPT ![i] = outcome[w]]
    BY <1>3 DEF ItemsAfter
  <2>7. batch' = [batch EXCEPT ![b] = Verdict(b, item')]
    BY <1>3, <2>1, <2>2
  <2> QED BY <1>2, <2>2, <2>5, <2>6, <2>7 DEF Settle
<1> QED BY <1>4, <1>5

LEMMA StepRefines ==
  ASSUME QueueTypeOK, QueueInv, [Next]_vars
  PROVE  [LifecycleNext]_lifecycleVars
<1>1. CASE UNCHANGED vars
  BY <1>1 DEF vars, tableVars, lifecycleVars
<1>2. ASSUME NEW b \in Batches, NEW ds \in SUBSET Deals, Create(b, ds)
      PROVE [LifecycleNext]_lifecycleVars
  BY <1>2 DEF Create, LifecycleNext
<1>3. ASSUME NEW b \in Batches, CancelStatement(b) PROVE UNCHANGED lifecycleVars
  BY <1>3 DEF CancelStatement, tableVars, lifecycleVars
<1>4. ASSUME NEW b \in Batches, CancelCommit(b) PROVE [LifecycleNext]_lifecycleVars
  <2> DEFINE S == {i \in cancelSeen \cap ItemsOf(b) : item[i] = "PENDING"}
  <2>1. S \in SUBSET Items
    BY DEF ItemsOf
  <2>2. Cancel(b, S) \/ UNCHANGED lifecycleVars
    BY <1>4 DEF CancelCommit, lifecycleVars
  <2> QED BY <2>1, <2>2 DEF LifecycleNext
<1>5. ASSUME NEW w \in Workers, WorkerStep(w) PROVE [LifecycleNext]_lifecycleVars
  <2>1. CASE \/ RecoverStatement(w) \/ Reschedule(w)
              \/ ClaimStatement(w) \/ ClaimMissed(w)
    BY <2>1 DEF RecoverStatement, Reschedule, ClaimStatement, ClaimMissed, tableVars,
                lifecycleVars
  <2>2. CASE RecoverCommit(w) \/ RescheduleCommit(w)
    <3>1. Requeue(StillSelected(w))
      BY <2>2, RequeueRows DEF RecoverCommit, RescheduleCommit, QueueInv
    <3>2. StillSelected(w) \in SUBSET Items
      BY DEF StillSelected, QueueTypeOK
    <3> QED BY <3>1, <3>2 DEF LifecycleNext
  <2>3. ASSUME NEW i \in Items, Claim(w, i) PROVE Take(i)
    <3>1. i \in Items /\ BatchOf(i) \in Batches /\ item[i] = "PENDING"
      BY <2>3, BatchOfItem DEF Claim, StillFree
    <3>2. i \in ItemsOf(BatchOf(i)) /\ item[i] \in ActiveStatuses
      BY <3>1 DEF ItemsOf, ActiveStatuses
    <3>3. batch[BatchOf(i)] \notin Verdicts \cup {"NONE"}
      BY <3>1, <3>2 DEF QueueInv, LifecycleInv, ItemsHaveBatch, VerdictMeansDrained, Drained
    <3>4. batch[BatchOf(i)] \in OpenStatuses \cup {"CANCELED"}
      BY <3>1, <3>3 DEF QueueTypeOK, BatchStatuses, OpenStatuses
    <3> QED BY <2>3, <3>1, <3>4 DEF Claim, Take
  <2>4. CASE StartBatch(w)
    <3>1. BatchOf(held[w]) \in Batches
      BY <2>4, BatchOfItem DEF StartBatch, QueueTypeOK
    <3> QED BY <2>4, <3>1 DEF StartBatch, LifecycleNext, lifecycleVars
  <2>5. CASE Complete(w) \/ Fail(w)
    BY <2>5, FinishStatementsRows DEF Complete, Fail
  <2>6. CASE FinishCommit(w)
    <3>1. held[w] \in Items /\ outcome[w] \in Settlements
      BY <2>6 DEF FinishCommit, QueueTypeOK, QueueInv, FinishOutcomeTrue
    <3> QED BY <2>6, <3>1, FinishRows DEF LifecycleNext
  <2> QED BY <1>5, <2>1, <2>2, <2>3, <2>4, <2>5, <2>6 DEF WorkerStep, LifecycleNext
<1>6. ASSUME NEW i \in Items, BecomeDue(i) \/ LeaseExpires(i)
      PROVE UNCHANGED lifecycleVars
  BY <1>6 DEF BecomeDue, LeaseExpires, lifecycleVars
<1>7. ASSUME NEW w \in Workers, StatementFails(w) PROVE UNCHANGED lifecycleVars
  BY <1>7 DEF StatementFails, tableVars, lifecycleVars
<1>8. ASSUME NEW S \in SUBSET Workers, WorkersStop(S) PROVE UNCHANGED lifecycleVars
  BY <1>8 DEF WorkersStop, tableVars, lifecycleVars
<1> QED BY <1>1, <1>2, <1>3, <1>4, <1>5, <1>6, <1>7, <1>8 DEF Next

-----------------------------------------------------------------------------
(* The workers' part of the invariant. *)

\* A step that opens no finish transaction and leaves the locked items alone
\* keeps what is known of the open ones.
OpenFinishesKept ==
    \A w \in Workers : pc'[w] = "finishing" =>
        /\ pc[w] = "finishing"
        /\ held'[w] = held[w] /\ outcome'[w] = outcome[w] /\ verdict'[w] = verdict[w]
        /\ item'[held[w]] = item[held[w]]

\* A verdict once computed is not overtaken by a step of the rows.
LEMMA VerdictStays ==
  ASSUME QueueTypeOK, QueueInv, RowsTypeOK', RowsStay, NEW w \in Workers,
         pc[w] = "finishing", verdict[w] # "KEEP",
         held'[w] = held[w], outcome'[w] = outcome[w]
  PROVE  LET b == BatchOf(held[w])
         IN  /\ Drained(b, ItemsAfter(w)')
             /\ verdict[w] = Verdict(b, ItemsAfter(w)')
<1> DEFINE b == BatchOf(held[w])
<1>1. held[w] \in Items /\ b \in Batches
  BY BatchOfItem DEF QueueTypeOK
<1>2. batch[b] # "NONE"
  BY <1>1 DEF QueueInv, LifecycleInv, ItemsHaveBatch, FinishLocksItem
<1>3. Drained(b, ItemsAfter(w)) /\ verdict[w] = Verdict(b, ItemsAfter(w))
  BY DEF QueueInv, FinishVerdictTrue
<1>4. ASSUME NEW i \in ItemsOf(b) PROVE ItemsAfter(w)'[i] = ItemsAfter(w)[i]
  <2>1. i \in Items /\ BatchOf(i) = b
    BY DEF ItemsOf
  <2>2. CASE i = held[w]
    BY <2>1, <2>2 DEF ItemsAfter, QueueTypeOK, RowsTypeOK
  <2>3. CASE i # held[w]
    <3>1. item[i] \notin ActiveStatuses
      BY <1>3, <2>1, <2>3 DEF Drained, ItemsAfter, QueueTypeOK
    <3>2. item[i] \in Settlements \cup {"NONE"}
      BY <2>1, <3>1 DEF QueueTypeOK, ItemStatuses, Settlements, ActiveStatuses
    <3>3. item'[i] = item[i]
      BY <1>2, <2>1, <3>2 DEF RowsStay
    <3> QED BY <2>1, <2>3, <3>3 DEF ItemsAfter, QueueTypeOK, RowsTypeOK
  <2> QED BY <2>2, <2>3
<1> QED BY <1>1, <1>3, <1>4, SameItemsSameVerdict

FinishInv == FinishLocksItem /\ FinishOutcomeTrue /\ FinishVerdictTrue

LEMMA FinishesKept ==
  ASSUME QueueTypeOK, QueueInv, RowsTypeOK', RowsStay, OpenFinishesKept
  PROVE  FinishInv'
<1>1. FinishLocksItem'
  BY DEF OpenFinishesKept, QueueInv, FinishLocksItem
<1>2. FinishOutcomeTrue'
  <2> SUFFICES ASSUME NEW w \in Workers, pc'[w] = "finishing"
               PROVE  /\ outcome'[w] \in Settlements
                      /\ outcome'[w] = "CANCELED" => batch'[BatchOf(held'[w])] = "CANCELED"
    BY DEF FinishOutcomeTrue
  <2>1. /\ pc[w] = "finishing" /\ held'[w] = held[w] /\ outcome'[w] = outcome[w]
        /\ BatchOf(held[w]) \in Batches
    BY BatchOfItem DEF OpenFinishesKept, QueueTypeOK
  <2> QED BY <2>1 DEF QueueInv, FinishOutcomeTrue, RowsStay
<1>3. FinishVerdictTrue'
  <2> SUFFICES ASSUME NEW w \in Workers, pc'[w] = "finishing", verdict'[w] # "KEEP"
               PROVE  /\ Drained(BatchOf(held'[w]), ItemsAfter(w)')
                      /\ verdict'[w] = Verdict(BatchOf(held'[w]), ItemsAfter(w)')
    BY DEF FinishVerdictTrue
  <2> QED BY VerdictStays DEF OpenFinishesKept
<1> QED BY <1>1, <1>2, <1>3 DEF FinishInv

\* The statements of Complete and Fail establish it for their worker.
LEMMA FinishOpens ==
  ASSUME QueueTypeOK, QueueInv, QueueTypeOK', NEW w \in Workers, pc[w] = "running",
         NEW out \in Settlements, FinishStatements(w, out),
         out = "CANCELED" => batch[BatchOf(held[w])] = "CANCELED"
  PROVE  FinishInv'
<1>1. UNCHANGED <<batch, item>>
  BY DEF FinishStatements, tableVars
<1>2. RowsStay /\ RowsTypeOK'
  BY <1>1 DEF RowsStay, RowsTypeOK, QueueTypeOK
<1>3. CASE item[held[w]] # "PROCESSING"
  <2>1. OpenFinishesKept
    BY <1>1, <1>3 DEF FinishStatements, Release, OpenFinishesKept, QueueTypeOK
  <2> QED BY <1>2, <2>1, FinishesKept
<1>4. CASE item[held[w]] = "PROCESSING"
  <2>1. /\ pc' = [pc EXCEPT ![w] = "finishing"]
        /\ outcome' = [outcome EXCEPT ![w] = out]
        /\ verdict' = [verdict EXCEPT ![w] =
                          Tally(BatchOf(held[w]), [item EXCEPT ![held[w]] = out])]
        /\ UNCHANGED held
        /\ ~RowLocked(held[w])
    BY <1>4 DEF FinishStatements
  <2>2. ASSUME NEW v \in Workers, v # w, pc'[v] = "finishing"
        PROVE  /\ pc[v] = "finishing" /\ outcome'[v] = outcome[v]
               /\ verdict'[v] = verdict[v] /\ held'[v] = held[v]
               /\ ItemsAfter(v)' = ItemsAfter(v) /\ held[v] # held[w]
    BY <1>1, <2>1, <2>2 DEF QueueTypeOK, ItemsAfter, RowLocked
  <2>3. /\ pc'[w] = "finishing" /\ outcome'[w] = out /\ held'[w] = held[w]
        /\ verdict'[w] = Tally(BatchOf(held[w]), [item EXCEPT ![held[w]] = out])
        /\ ItemsAfter(w)' = [item EXCEPT ![held[w]] = out]
    BY <1>1, <2>1 DEF QueueTypeOK, ItemsAfter
  <2>4. FinishLocksItem'
    BY <1>1, <1>4, <2>2, <2>3 DEF FinishLocksItem, QueueInv
  <2>5. FinishOutcomeTrue'
    BY <1>1, <2>2, <2>3 DEF FinishOutcomeTrue, QueueInv
  <2>6. FinishVerdictTrue'
    <3> SUFFICES ASSUME NEW v \in Workers, pc'[v] = "finishing", verdict'[v] # "KEEP"
                 PROVE  /\ Drained(BatchOf(held'[v]), ItemsAfter(v)')
                        /\ verdict'[v] = Verdict(BatchOf(held'[v]), ItemsAfter(v)')
      BY DEF FinishVerdictTrue
    <3>1. CASE v # w
      BY <2>2, <3>1 DEF FinishVerdictTrue, QueueInv
    <3>2. CASE v = w
      BY <2>3, <3>2 DEF Tally
    <3> QED BY <3>1, <3>2
  <2> QED BY <2>4, <2>5, <2>6 DEF FinishInv
<1> QED BY <1>3, <1>4

LEMMA FinishInvStep ==
  ASSUME QueueTypeOK, QueueInv, [Next]_vars, QueueTypeOK', RowsStay
  PROVE  FinishInv'
<1>0. RowsTypeOK'
  BY DEF RowsTypeOK, QueueTypeOK
<1>1. SUFFICES \/ OpenFinishesKept
               \/ \E w \in Workers : Complete(w) \/ Fail(w)
  <2>1. ASSUME NEW w \in Workers, Complete(w) PROVE FinishInv'
    BY <2>1, FinishOpens DEF Complete, Settlements
  <2>2. ASSUME NEW w \in Workers, Fail(w) PROVE FinishInv'
    BY <2>2, FinishOpens DEF Fail, Settlements
  <2> QED BY <1>0, <2>1, <2>2, FinishesKept
<1> USE DEF QueueTypeOK, OpenFinishesKept
<1>2. CASE UNCHANGED vars
  BY <1>2 DEF vars, tableVars, workerVars
<1>3. ASSUME NEW b \in Batches, NEW ds \in SUBSET Deals, Create(b, ds)
      PROVE OpenFinishesKept
  BY <1>3 DEF Create, Open, workerVars, QueueInv, FinishLocksItem, LifecycleInv,
              ItemsHaveBatch
<1>4. ASSUME NEW b \in Batches, CancelStatement(b) PROVE OpenFinishesKept
  BY <1>4 DEF CancelStatement, tableVars, workerVars
<1>5. ASSUME NEW b \in Batches, CancelCommit(b) PROVE OpenFinishesKept
  BY <1>5 DEF CancelCommit, Cancel, workerVars, QueueInv, FinishLocksItem
<1>6. ASSUME NEW w \in Workers, WorkerStep(w)
      PROVE OpenFinishesKept \/ Complete(w) \/ Fail(w)
  <2>1. CASE RecoverStatement(w)
    BY <2>1 DEF RecoverStatement, tableVars
  <2>2. ASSUME NEW d, RequeueCommit(w, d) PROVE OpenFinishesKept
    <3> SUFFICES ASSUME NEW v \in Workers, pc'[v] = "finishing"
                 PROVE  /\ pc[v] = "finishing"
                        /\ held'[v] = held[v] /\ outcome'[v] = outcome[v]
                        /\ verdict'[v] = verdict[v]
                        /\ item'[held[v]] = item[held[v]]
      OBVIOUS
    <3>1. v # w /\ pc[v] = "finishing" /\ held'[v] = held[v]
          /\ outcome'[v] = outcome[v] /\ verdict'[v] = verdict[v]
      BY <2>2 DEF RequeueCommit, Release
    <3>2. held[v] \in Items /\ held[v] \notin StillSelected(w)
      BY <2>2, <3>1 DEF RequeueCommit, RowLocked, StillSelected
    <3> QED BY <2>2, <3>1, <3>2 DEF RequeueCommit
  <2>3. ASSUME NEW i \in Items, Claim(w, i) PROVE OpenFinishesKept
    BY <2>3 DEF Claim, StillFree, QueueInv, FinishLocksItem
  <2>4. CASE StartBatch(w)
    BY <2>4 DEF StartBatch, MarkStarted
  <2>7. CASE ClaimStatement(w)
    BY <2>7 DEF ClaimStatement, tableVars
  <2>8. CASE ClaimMissed(w)
    BY <2>8 DEF ClaimMissed, Release, tableVars
  <2>5. CASE Reschedule(w)
    BY <2>5 DEF Reschedule, Release, tableVars
  <2>6. CASE FinishCommit(w)
    BY <2>6 DEF FinishCommit, Release, QueueInv, FinishLocksItem
  <2> QED BY <1>6, <2>1, <2>2, <2>3, <2>4, <2>5, <2>6, <2>7, <2>8
          DEF WorkerStep, RecoverCommit, RescheduleCommit
<1>7. ASSUME NEW i \in Items, BecomeDue(i) \/ LeaseExpires(i) PROVE OpenFinishesKept
  BY <1>7 DEF BecomeDue, LeaseExpires, workerVars
<1>8. ASSUME NEW w \in Workers, StatementFails(w) PROVE OpenFinishesKept
  BY <1>8 DEF StatementFails, Release, tableVars
<1>9. ASSUME NEW S \in SUBSET Workers, WorkersStop(S) PROVE OpenFinishesKept
  BY <1>9 DEF WorkersStop, tableVars
<1> QED BY <1>2, <1>3, <1>4, <1>5, <1>6, <1>7, <1>8, <1>9 DEF Next

LEMMA SeenCanceledStep ==
  ASSUME QueueTypeOK, QueueInv, [Next]_vars, RowsStay
  PROVE  SeenCanceledTrue'
<1>1. ASSUME NEW w \in Workers
      PROVE  seenCanceled'[w] \in {seenCanceled[w], {}, CanceledBatches}
  <2> USE <1>1 DEF QueueTypeOK, workerVars
  <2>1. CASE UNCHANGED vars
    BY <2>1 DEF vars
  <2>2. ASSUME NEW b \in Batches, NEW ds \in SUBSET Deals,
               Create(b, ds) \/ CancelStatement(b) \/ CancelCommit(b)
        PROVE seenCanceled' = seenCanceled
    BY <2>2 DEF Create, CancelStatement, CancelCommit
  <2>3. ASSUME NEW v \in Workers, WorkerStep(v)
        PROVE  seenCanceled'[w] \in {seenCanceled[w], {}, CanceledBatches}
    <3>1. CASE RecoverStatement(v) \/ Reschedule(v)
      BY <3>1 DEF RecoverStatement, Reschedule, Release
    <3>2. CASE ClaimStatement(v) \/ ClaimMissed(v) \/ \E i \in Items : Claim(v, i)
      BY <3>2 DEF ClaimStatement, ClaimMissed, Claim, Release
    <3>3. CASE StartBatch(v)
      BY <3>3 DEF StartBatch
    <3>4. CASE Complete(v) \/ Fail(v)
      BY <3>4 DEF Complete, Fail, FinishStatements, Release
    <3>5. CASE RecoverCommit(v) \/ RescheduleCommit(v) \/ FinishCommit(v)
      <4>1. seenCanceled' = [seenCanceled EXCEPT ![v] = {}]
        <5>1. CASE RecoverCommit(v)
          BY <5>1 DEF RecoverCommit, RequeueCommit, Release
        <5>2. CASE RescheduleCommit(v)
          BY <5>2 DEF RescheduleCommit, RequeueCommit, Release
        <5>3. CASE FinishCommit(v)
          BY <5>3 DEF FinishCommit, Release
        <5> QED BY <3>5, <5>1, <5>2, <5>3
      <4> QED BY <4>1
    <3> QED BY <2>3, <3>1, <3>2, <3>3, <3>4, <3>5 DEF WorkerStep
  <2>4. ASSUME NEW i \in Items, BecomeDue(i) \/ LeaseExpires(i)
        PROVE seenCanceled' = seenCanceled
    BY <2>4 DEF BecomeDue, LeaseExpires
  <2>5. ASSUME NEW v \in Workers, StatementFails(v)
        PROVE  seenCanceled'[w] \in {seenCanceled[w], {}}
    BY <2>5 DEF StatementFails, Release
  <2>6. ASSUME NEW S \in SUBSET Workers, WorkersStop(S)
        PROVE  seenCanceled'[w] \in {seenCanceled[w], {}}
    BY <2>6 DEF WorkersStop
  <2> QED BY <2>1, <2>2, <2>3, <2>4, <2>5, <2>6 DEF Next
<1>2. CanceledBatches \subseteq CanceledBatches'
  BY DEF CanceledBatches, RowsStay
<1> QED BY <1>1, <1>2 DEF SeenCanceledTrue, QueueInv

-----------------------------------------------------------------------------
(* The theorems. *)

LEMMA InvStep ==
  ASSUME QueueTypeOK, QueueInv, [Next]_vars
  PROVE  QueueInv'
<1>1. QueueTypeOK' /\ RowsTypeOK /\ RowsTypeOK'
  BY TypeStep DEF QueueTypeOK, RowsTypeOK
<1>2. LifecycleInv /\ [LifecycleNext]_lifecycleVars
  BY StepRefines DEF QueueInv
<1>3. RowsStay
  BY <1>1, <1>2, RowsStayStep
<1>4. LifecycleInv'
  BY <1>1, <1>2, LifecycleStep
<1> QED BY <1>1, <1>3, <1>4, FinishInvStep, SeenCanceledStep DEF QueueInv, FinishInv

LEMMA InvInit == Init => QueueInv
  BY BatchOfItem
  DEF Init, LifecycleInit, QueueInv, LifecycleInv, ItemsHaveBatch, VerdictMeansDrained,
      VerdictMatchesItems, DroppedOnlyByCancel, FinishLocksItem, FinishOutcomeTrue,
      FinishVerdictTrue, SeenCanceledTrue, Verdicts

\* The inductive invariant of the queue: the verdicts are right, and every open
\* finish transaction still knows what it needs to keep them right.
THEOREM QueueInvariant == Spec => [](QueueTypeOK /\ QueueInv)
<1>1. Init => QueueTypeOK /\ QueueInv
  BY TypeInit, InvInit
<1>2. QueueTypeOK /\ QueueInv /\ [Next]_vars => (QueueTypeOK /\ QueueInv)'
  BY TypeStep, InvStep
<1> QED BY <1>1, <1>2, PTL DEF Spec

\* A closed batch has no item left to run, however its workers' transactions
\* interleave with claims, requeues, cancels, crashes and expired leases.
THEOREM ClosedBatchesAreDrained == Spec => []VerdictMeansDrained
<1>1. QueueInv => VerdictMeansDrained
  BY DEF QueueInv, LifecycleInv
<1> QED BY <1>1, QueueInvariant, PTL

\* The verdict finalizeBatch stored is the one the settled items bear out.
THEOREM VerdictsAreRight == Spec => []VerdictMatchesItems
<1>1. QueueInv => VerdictMatchesItems
  BY DEF QueueInv, LifecycleInv
<1> QED BY <1>1, QueueInvariant, PTL

\* An item is dropped in a canceled batch only.
THEOREM OnlyCancelDrops == Spec => []DroppedOnlyByCancel
<1>1. QueueInv => DroppedOnlyByCancel
  BY DEF QueueInv, LifecycleInv
<1> QED BY <1>1, QueueInvariant, PTL

\* The queue, with its workers, leases, statements and faults, implements the
\* life of the rows that BatchLifecycle states.
THEOREM QueueImplementsLifecycle == Spec => LifecycleSpec
<1>1. Init => LifecycleInit
  BY DEF Init
<1>2. QueueTypeOK /\ QueueInv /\ [Next]_vars => [LifecycleNext]_lifecycleVars
  BY StepRefines
<1> QED BY <1>1, <1>2, QueueInvariant, PTL DEF Spec, LifecycleSpec

\* Settled items and closed batches never change again.
THEOREM SettlementsAreFinal == Spec => SettledForGood
<1>1. QueueTypeOK /\ QueueInv /\ [Next]_vars
      => [/\ \A i \in Items : item[i] \in Settlements => item'[i] = item[i]
          /\ \A b \in Batches :
                batch[b] \in Verdicts \cup {"CANCELED"} => batch'[b] = batch[b]]_vars
  <2> SUFFICES ASSUME QueueTypeOK, QueueInv, [Next]_vars PROVE RowsStay
    BY DEF RowsStay
  <2>1. RowsTypeOK /\ LifecycleInv /\ [LifecycleNext]_lifecycleVars
    BY StepRefines DEF QueueInv, QueueTypeOK, RowsTypeOK
  <2> QED BY <2>1, RowsStayStep
<1> QED BY <1>1, QueueInvariant, PTL DEF Spec, SettledForGood

-----------------------------------------------------------------------------
(***************************************************************************)
(* What the lease buys: with a lease that outlasts the run (LeaseCoversRun, *)
(* which config.go:179-181 imposes on the worker), claims are exclusive and *)
(* the attempt budget holds, for any number of workers and processes.      *)
(***************************************************************************)

LEMMA LeaseInit == Init => LeaseInv /\ BudgetInv
  BY WorkersAssumption
  DEF Init, LifecycleInit, LeaseInv, ClaimsAreExclusive, HeldItemIsLeased,
      RescheduleOfHeld, BudgetInv, AttemptsWithinBudget, Unattended

\* A worker that lets go of its item disturbs no other claim.
LEMMA ReleaseKeepsLeases ==
  ASSUME QueueTypeOK, LeaseInv, NEW w \in Workers, Release(w),
         \A v \in Workers \ {w} : held[v] # NoItem =>
            item'[held[v]] = item[held[v]] /\ lease'[held[v]] = lease[held[v]]
  PROVE  LeaseInv'
<1>1. \A v \in Workers \ {w} : /\ held'[v] = held[v] /\ pc'[v] = pc[v]
                               /\ selected'[v] = selected[v] /\ tries'[v] = tries[v]
  BY DEF Release, QueueTypeOK
<1>2. held'[w] = NoItem /\ pc'[w] = "idle"
  BY DEF Release, QueueTypeOK
<1> QED BY <1>1, <1>2 DEF LeaseInv, ClaimsAreExclusive, HeldItemIsLeased, RescheduleOfHeld

\* Items that a requeue statement still matches are no other worker's.
LEMMA RequeueSparesHeld ==
  ASSUME QueueTypeOK, LeaseInv, NEW w \in Workers, pc[w] \in {"recovering", "rescheduling"},
         NEW v \in Workers \ {w}, held[v] # NoItem
  PROVE  held[v] \in Items /\ held[v] \notin StillSelected(w)
<1>1. held[v] \in Items /\ lease[held[v]] = "live" /\ held[v] # held[w]
  BY DEF QueueTypeOK, LeaseInv, HeldItemIsLeased, ClaimsAreExclusive
<1>2. CASE pc[w] = "recovering"
  BY <1>1, <1>2 DEF StillSelected, Expired
<1>3. CASE pc[w] = "rescheduling"
  BY <1>1, <1>3 DEF StillSelected, LeaseInv, RescheduleOfHeld
<1> QED BY <1>2, <1>3

LEMMA LeaseStep ==
  ASSUME LeaseCoversRun, QueueTypeOK, ItemsHaveBatch, LeaseInv, [Next]_vars
  PROVE  LeaseInv'
<1>u. ASSUME UNCHANGED workerVars,
             \A w \in Workers : held[w] # NoItem =>
                item'[held[w]] = item[held[w]] /\ lease'[held[w]] = lease[held[w]]
      PROVE  LeaseInv'
  BY <1>u DEF workerVars, LeaseInv, ClaimsAreExclusive, HeldItemIsLeased, RescheduleOfHeld
<1>1. CASE UNCHANGED vars
  BY <1>1, <1>u DEF vars, tableVars
<1>2. ASSUME NEW b \in Batches, NEW ds \in SUBSET Deals, Create(b, ds) PROVE LeaseInv'
  <2>1. ASSUME NEW w \in Workers, held[w] # NoItem
        PROVE  item'[held[w]] = item[held[w]] /\ lease'[held[w]] = lease[held[w]]
    <3>1. held[w] \in Items /\ item[held[w]] = "PROCESSING"
      BY <2>1 DEF QueueTypeOK, LeaseInv, HeldItemIsLeased
    <3>2. BatchOf(held[w]) # b
      BY <1>2, <3>1 DEF Create, Open, ItemsHaveBatch
    <3> QED BY <1>2, <3>1, <3>2 DEF Create, Open
  <2> QED BY <1>2, <2>1, <1>u DEF Create
<1>3. ASSUME NEW b \in Batches, CancelStatement(b) PROVE LeaseInv'
  BY <1>3, <1>u DEF CancelStatement, tableVars
<1>4. ASSUME NEW b \in Batches, CancelCommit(b) PROVE LeaseInv'
  <2>1. \A w \in Workers : held[w] # NoItem =>
           held[w] \in Items /\ item[held[w]] = "PROCESSING"
    BY DEF QueueTypeOK, LeaseInv, HeldItemIsLeased
  <2> QED BY <1>4, <2>1, <1>u DEF CancelCommit, Cancel
<1>5. ASSUME NEW w \in Workers, WorkerStep(w) PROVE LeaseInv'
  <2>1. CASE RecoverStatement(w)
    BY <2>1 DEF RecoverStatement, QueueTypeOK, LeaseInv, ClaimsAreExclusive,
                HeldItemIsLeased, RescheduleOfHeld, tableVars
  <2>2. CASE RecoverCommit(w) \/ RescheduleCommit(w)
    <3>1. pc[w] \in {"recovering", "rescheduling"} /\ Release(w)
      BY <2>2 DEF RecoverCommit, RescheduleCommit, RequeueCommit
    <3>2. \A i \in Items \ StillSelected(w) : item'[i] = item[i] /\ lease'[i] = lease[i]
      BY <2>2 DEF RecoverCommit, RescheduleCommit, RequeueCommit
    <3>3. \A v \in Workers \ {w} : held[v] # NoItem =>
             held[v] \in Items \ StillSelected(w)
      BY <3>1, RequeueSparesHeld
    <3> QED BY <3>1, <3>2, <3>3, ReleaseKeepsLeases
  <2>3. ASSUME NEW i \in Items, Claim(w, i) PROVE LeaseInv'
    BY <2>3, WorkersAssumption
    DEF Claim, StillFree, QueueTypeOK, LeaseInv, ClaimsAreExclusive, HeldItemIsLeased,
        RescheduleOfHeld
  <2>10. CASE ClaimStatement(w)
    BY <2>10 DEF ClaimStatement, tableVars, QueueTypeOK, LeaseInv, ClaimsAreExclusive,
                 HeldItemIsLeased, RescheduleOfHeld
  <2>11. CASE ClaimMissed(w)
    BY <2>11, ReleaseKeepsLeases DEF ClaimMissed, tableVars
  <2>4. CASE StartBatch(w)
    BY <2>4 DEF StartBatch, MarkStarted, QueueTypeOK, LeaseInv, ClaimsAreExclusive,
                HeldItemIsLeased, RescheduleOfHeld
  <2>5. ASSUME NEW out, pc[w] = "running", FinishStatements(w, out) PROVE LeaseInv'
    BY <2>5 DEF FinishStatements, tableVars, QueueTypeOK, LeaseInv, ClaimsAreExclusive,
                HeldItemIsLeased, RescheduleOfHeld
  <2>6. CASE Reschedule(w)
    BY <2>6 DEF Reschedule, MayRetry, tableVars, QueueTypeOK, LeaseInv,
                ClaimsAreExclusive, HeldItemIsLeased, RescheduleOfHeld
  <2>7. CASE FinishCommit(w)
    <3>1. \A v \in Workers \ {w} : held[v] # NoItem =>
             item'[held[v]] = item[held[v]] /\ lease'[held[v]] = lease[held[v]]
      BY <2>7 DEF FinishCommit, QueueTypeOK, LeaseInv, ClaimsAreExclusive
    <3> QED BY <2>7, <3>1, ReleaseKeepsLeases DEF FinishCommit
  <2>8. CASE Complete(w)
    BY <2>5, <2>8 DEF Complete
  <2>9. CASE Fail(w)
    BY <2>5, <2>9 DEF Fail
  <2> QED BY <1>5, <2>1, <2>2, <2>3, <2>4, <2>6, <2>7, <2>8, <2>9, <2>10, <2>11
          DEF WorkerStep
<1>6. ASSUME NEW i \in Items, BecomeDue(i) PROVE LeaseInv'
  BY <1>6, <1>u DEF BecomeDue
<1>7. ASSUME NEW i \in Items, LeaseExpires(i) PROVE LeaseInv'
  <2>1. ~Busy(i)
    BY <1>7 DEF LeaseExpires
  <2>2. \A w \in Workers : held[w] # i
    BY <2>1 DEF Busy
  <2> QED BY <1>7, <2>2, <1>u DEF LeaseExpires, QueueTypeOK
<1>8. ASSUME NEW w \in Workers, StatementFails(w) PROVE LeaseInv'
  BY <1>8, ReleaseKeepsLeases DEF StatementFails, tableVars
<1>9. ASSUME NEW S \in SUBSET Workers, WorkersStop(S) PROVE LeaseInv'
  BY <1>9 DEF WorkersStop, tableVars, QueueTypeOK, LeaseInv, ClaimsAreExclusive,
              HeldItemIsLeased, RescheduleOfHeld
<1> QED BY <1>1, <1>2, <1>3, <1>4, <1>5, <1>6, <1>7, <1>8, <1>9 DEF Next

-----------------------------------------------------------------------------
(* The attempt budget. *)

\* A worker that lets go of an item it still had an attempt for spends nothing.
LEMMA ReleaseKeepsBudget ==
  ASSUME QueueTypeOK, BudgetInv, NEW w \in Workers, Release(w),
         UNCHANGED <<attempts, faults>>,
         \A i \in Items : item'[i] = "NONE" => item[i] = "NONE",
         \A i \in Items : item'[i] = item[i]
                          \/ attempts[i] < MaxAttempts + faults
                          \/ item'[i] \in Settlements,
         held[w] # NoItem => \/ attempts[held[w]] < MaxAttempts + faults
                             \/ item'[held[w]] \in Settlements
  PROVE  BudgetInv'
<1>1. \A v \in Workers \ {w} : held'[v] = held[v] /\ tries'[v] = tries[v]
  BY DEF Release, QueueTypeOK
<1>2. held'[w] = NoItem
  BY DEF Release, QueueTypeOK
<1>3. ASSUME NEW i \in Items, Unattended(i)' PROVE attempts[i] < MaxAttempts + faults
  <2>1. item'[i] \in ActiveStatuses
    BY <1>3 DEF Unattended, ActiveStatuses
  <2>2. item'[i] \notin Settlements
    BY <2>1 DEF ActiveStatuses, Settlements
  <2>3. CASE item'[i] # item[i] \/ held[w] = i
    BY <1>3, <2>2, <2>3, WorkersAssumption
  <2>4. CASE item'[i] = item[i] /\ held[w] # i
    <3>1. Unattended(i)
      BY <1>1, <1>3, <2>4 DEF Unattended, Busy
    <3> QED BY <3>1 DEF BudgetInv
  <2> QED BY <2>3, <2>4
<1> QED BY <1>1, <1>2, <1>3 DEF BudgetInv, AttemptsWithinBudget

LEMMA BudgetStep ==
  ASSUME QueueTypeOK, QueueTypeOK', ItemsHaveBatch, FinishOutcomeTrue, LeaseInv, BudgetInv,
         LeaseCoversRun, [Next]_vars
  PROVE  BudgetInv'
<1> USE WorkersAssumption
<1>k. ASSUME UNCHANGED <<workerVars, attempts>>, faults' = faults,
             \A i \in Items : Unattended(i)' => Unattended(i) \/ attempts[i] = 0,
             \A i \in Items : item'[i] = "NONE" => item[i] = "NONE"
      PROVE  BudgetInv'
  BY <1>k DEF workerVars, BudgetInv, AttemptsWithinBudget, QueueTypeOK
<1>1. CASE UNCHANGED vars
  BY <1>1 DEF vars, tableVars, workerVars, BudgetInv, AttemptsWithinBudget, Unattended, Busy
<1>2. ASSUME NEW b \in Batches, NEW ds \in SUBSET Deals, Create(b, ds) PROVE BudgetInv'
  <2>1. \A i \in Items : item'[i] # item[i] => item[i] = "NONE"
    BY <1>2 DEF Create, Open, ItemsHaveBatch
  <2>2. \A i \in Items : item'[i] = item[i] => (Unattended(i)' <=> Unattended(i))
    BY <1>2 DEF Create, workerVars, Unattended, Busy
  <2>3. \A i \in Items : item'[i] = "NONE" => item[i] = "NONE"
    BY <1>2 DEF Create, Open
  <2> QED BY <1>2, <2>1, <2>2, <2>3, <1>k DEF Create, BudgetInv
<1>3. ASSUME NEW b \in Batches, CancelStatement(b) PROVE BudgetInv'
  BY <1>3, <1>k DEF CancelStatement, tableVars, workerVars, Unattended, Busy
<1>4. ASSUME NEW b \in Batches, CancelCommit(b) PROVE BudgetInv'
  <2>1. \A i \in Items : item'[i] = item[i] \/ item'[i] = "CANCELED"
    BY <1>4 DEF CancelCommit, Cancel, QueueTypeOK
  <2>2. UNCHANGED <<workerVars, attempts, faults>>
    BY <1>4 DEF CancelCommit
  <2> QED BY <2>1, <2>2, <1>k DEF workerVars, Unattended, Busy
<1>5. ASSUME NEW w \in Workers, WorkerStep(w) PROVE BudgetInv'
  <2>1. CASE RecoverStatement(w)
    BY <2>1, <1>5 DEF RecoverStatement, tableVars, QueueTypeOK, BudgetInv,
                      AttemptsWithinBudget, Unattended, Busy
  <2>2. CASE RecoverCommit(w) \/ RescheduleCommit(w)
    <3>1. pc[w] \in {"recovering", "rescheduling"} /\ Release(w)
          /\ UNCHANGED <<attempts, faults>>
      BY <2>2 DEF RecoverCommit, RescheduleCommit, RequeueCommit
    <3>2. \A i \in Items : item'[i] = item[i] \/ i \in StillSelected(w)
      BY <2>2 DEF RecoverCommit, RescheduleCommit, RequeueCommit
    <3>3. \A i \in Items : item'[i] = "NONE" => item[i] = "NONE"
      BY <2>2 DEF RecoverCommit, RescheduleCommit, RequeueCommit
    <3>4. \A i \in StillSelected(w) : attempts[i] < MaxAttempts + faults
      <4>1. CASE pc[w] = "recovering"
        <5>1. \A i \in StillSelected(w) :
                 i \in Items /\ item[i] = "PROCESSING" /\ lease[i] = "expired"
          BY <4>1 DEF StillSelected, Expired, QueueTypeOK
        <5>2. \A i \in StillSelected(w) : \A v \in Workers : held[v] # i
          BY <5>1 DEF LeaseInv, HeldItemIsLeased
        <5>3. \A i \in StillSelected(w) : Unattended(i)
          BY <5>1, <5>2 DEF Unattended, Busy
        <5> QED BY <5>1, <5>3 DEF BudgetInv
      <4>2. CASE pc[w] = "rescheduling"
        <5>1. \A i \in StillSelected(w) : i = held[w] /\ held[w] # NoItem
          BY <4>2 DEF StillSelected, LeaseInv, RescheduleOfHeld, QueueTypeOK
        <5>2. tries[w] < MaxAttempts
          BY <4>2 DEF LeaseInv, RescheduleOfHeld
        <5> QED BY <5>1, <5>2 DEF BudgetInv, QueueTypeOK
      <4> QED BY <3>1, <4>1, <4>2
    <3>5. held[w] # NoItem => attempts[held[w]] < MaxAttempts + faults
      <4>1. CASE pc[w] = "recovering"
        BY <4>1 DEF QueueTypeOK
      <4>2. CASE pc[w] = "rescheduling"
        BY <4>2 DEF BudgetInv, QueueTypeOK, LeaseInv, RescheduleOfHeld
      <4> QED BY <3>1, <4>1, <4>2
    <3> QED BY <3>1, <3>2, <3>3, <3>4, <3>5, ReleaseKeepsBudget
  <2>3. ASSUME NEW i \in Items, Claim(w, i) PROVE BudgetInv'
    <3>1. /\ attempts[i] < MaxAttempts + faults
          /\ item[i] = "PENDING" /\ \A v \in Workers : held[v] # i
      BY <2>3, WorkersAssumption
      DEF Claim, StillFree, BudgetInv, Unattended, LeaseInv, HeldItemIsLeased
    <3>2. /\ attempts' = [attempts EXCEPT ![i] = @ + 1]
          /\ tries' = [tries EXCEPT ![w] = attempts[i] + 1]
          /\ held' = [held EXCEPT ![w] = i]
          /\ item' = [item EXCEPT ![i] = "PROCESSING"]
          /\ faults' = faults /\ held[w] = NoItem
      BY <2>3 DEF Claim, QueueTypeOK
    <3>3. AttemptsWithinBudget'
      BY <3>1, <3>2 DEF AttemptsWithinBudget, BudgetInv, QueueTypeOK
    <3>4. \A j \in Items : item'[j] = "NONE" => attempts'[j] = 0
      BY <3>1, <3>2 DEF BudgetInv, QueueTypeOK
    <3>5. ASSUME NEW j \in Items, Unattended(j)'
          PROVE  attempts'[j] < (MaxAttempts + faults)'
      <4>1. j # i
        BY <3>2, <3>5 DEF Unattended, Busy, QueueTypeOK
      <4>2. Unattended(j)
        BY <3>2, <3>5, <4>1, WorkersAssumption DEF Unattended, Busy, QueueTypeOK
      <4> QED BY <3>2, <4>1, <4>2 DEF BudgetInv, QueueTypeOK
    <3>6. \A v \in Workers : held'[v] # NoItem => tries'[v] = attempts'[held'[v]]
      BY <3>1, <3>2 DEF BudgetInv, QueueTypeOK
    <3> QED BY <3>3, <3>4, <3>5, <3>6 DEF BudgetInv
  <2>10. CASE ClaimStatement(w)
    BY <2>10 DEF ClaimStatement, tableVars, QueueTypeOK, BudgetInv, AttemptsWithinBudget,
                 Unattended, Busy
  <2>11. CASE ClaimMissed(w)
    <3>1. held[w] = NoItem
      BY <2>11 DEF ClaimMissed, QueueTypeOK
    <3> QED BY <2>11, <3>1, ReleaseKeepsBudget DEF ClaimMissed, tableVars
  <2>4. CASE StartBatch(w)
    BY <2>4 DEF StartBatch, MarkStarted, QueueTypeOK, BudgetInv, AttemptsWithinBudget,
                Unattended, Busy
  <2>5. ASSUME NEW out, pc[w] = "running", FinishStatements(w, out) PROVE BudgetInv'
    <3>1. item[held[w]] = "PROCESSING"
      BY <2>5 DEF LeaseInv, HeldItemIsLeased, QueueTypeOK
    <3>2. UNCHANGED <<held, tries, tableVars, faults>>
      BY <2>5, <3>1 DEF FinishStatements
    <3> QED BY <3>2 DEF tableVars, BudgetInv, AttemptsWithinBudget, Unattended, Busy
  <2>6. CASE Reschedule(w)
    <3>1. item[held[w]] = "PROCESSING"
      BY <2>6 DEF Reschedule, LeaseInv, HeldItemIsLeased, QueueTypeOK
    <3>2. UNCHANGED <<held, tries, tableVars, faults>>
      BY <2>6, <3>1 DEF Reschedule
    <3> QED BY <3>2 DEF tableVars, BudgetInv, AttemptsWithinBudget, Unattended, Busy
  <2>7. CASE FinishCommit(w)
    <3>1. held[w] \in Items /\ outcome[w] \in Settlements
      BY <2>7 DEF FinishCommit, QueueTypeOK, FinishOutcomeTrue
    <3>2. item' = [item EXCEPT ![held[w]] = outcome[w]] /\ item \in [Items -> ItemStatuses]
      BY <2>7 DEF FinishCommit, QueueTypeOK
    <3>3. Release(w) /\ UNCHANGED <<attempts, faults>>
      BY <2>7 DEF FinishCommit
    <3>4. \A i \in Items : item'[i] = "NONE" => item[i] = "NONE"
      BY <3>1, <3>2 DEF Settlements
    <3> QED BY <3>1, <3>2, <3>3, <3>4, ReleaseKeepsBudget
  <2>8. CASE Complete(w)
    BY <2>5, <2>8 DEF Complete
  <2>9. CASE Fail(w)
    BY <2>5, <2>9 DEF Fail
  <2> QED BY <1>5, <2>1, <2>2, <2>3, <2>4, <2>6, <2>7, <2>8, <2>9, <2>10, <2>11
          DEF WorkerStep
<1>6. ASSUME NEW i \in Items, BecomeDue(i) \/ LeaseExpires(i) PROVE BudgetInv'
  BY <1>6, <1>k DEF BecomeDue, LeaseExpires, workerVars, Unattended, Busy
<1>8. ASSUME NEW w \in Workers, StatementFails(w) PROVE BudgetInv'
  <2>1. UNCHANGED <<item, attempts>> /\ faults' = faults + 1
    BY <1>8 DEF StatementFails, tableVars
  <2>2. \A v \in Workers \ {w} : held'[v] = held[v] /\ tries'[v] = tries[v]
    BY <1>8 DEF StatementFails, Release, QueueTypeOK
  <2>3. held'[w] = NoItem
    BY <1>8 DEF StatementFails, Release, QueueTypeOK
  <2> QED BY <2>1, <2>2, <2>3 DEF BudgetInv, AttemptsWithinBudget, QueueTypeOK
<1>9. ASSUME NEW S \in SUBSET Workers, WorkersStop(S) PROVE BudgetInv'
  <2>1. UNCHANGED <<item, attempts>> /\ faults' = faults + 1
    BY <1>9 DEF WorkersStop, tableVars
  <2>2. \A v \in Workers : held'[v] # NoItem => held'[v] = held[v] /\ tries'[v] = tries[v]
    BY <1>9 DEF WorkersStop, QueueTypeOK
  <2> QED BY <2>1, <2>2 DEF BudgetInv, AttemptsWithinBudget, QueueTypeOK
<1> QED BY <1>1, <1>2, <1>3, <1>4, <1>5, <1>6, <1>8, <1>9 DEF Next

-----------------------------------------------------------------------------
(* The theorems. *)

LEMMA LeaseInvariant ==
  ASSUME LeaseCoversRun
  PROVE  Spec => [](LeaseInv /\ BudgetInv)
<1>1. QueueTypeOK /\ QueueInv /\ LeaseInv /\ BudgetInv /\ [Next]_vars
      => (LeaseInv /\ BudgetInv)'
  <2> SUFFICES ASSUME QueueTypeOK, QueueInv, LeaseInv, BudgetInv, [Next]_vars
               PROVE  LeaseInv' /\ BudgetInv'
    OBVIOUS
  <2>1. ItemsHaveBatch /\ FinishOutcomeTrue /\ QueueTypeOK'
    BY TypeStep DEF QueueInv, LifecycleInv
  <2> QED BY <2>1, LeaseStep, BudgetStep
<1> QED BY <1>1, LeaseInit, QueueInvariant, PTL DEF Spec

\* With a lease that outlasts the run, no item is in the hands of two workers,
\* whatever processes crash, restart and recover in the meantime.
THEOREM NoDoubleAudit == LeaseCoversRun => (Spec => []ClaimsAreExclusive)
<1> SUFFICES ASSUME LeaseCoversRun PROVE Spec => []ClaimsAreExclusive
  OBVIOUS
<1>1. LeaseInv => ClaimsAreExclusive
  BY DEF LeaseInv
<1> QED BY <1>1, LeaseInvariant, PTL

\* And a worker's result always finds its item reserved and leased.
THEOREM ResultsAreAccepted == LeaseCoversRun => (Spec => []HeldItemIsLeased)
<1> SUFFICES ASSUME LeaseCoversRun PROVE Spec => []HeldItemIsLeased
  OBVIOUS
<1>1. LeaseInv => HeldItemIsLeased
  BY DEF LeaseInv
<1> QED BY <1>1, LeaseInvariant, PTL

\* An item is claimed at most MaxAttempts times plus once per fault.
THEOREM AttemptsAreBounded == LeaseCoversRun => (Spec => []AttemptsWithinBudget)
<1> SUFFICES ASSUME LeaseCoversRun PROVE Spec => []AttemptsWithinBudget
  OBVIOUS
<1>1. BudgetInv => AttemptsWithinBudget
  BY DEF BudgetInv
<1> QED BY <1>1, LeaseInvariant, PTL
-----------------------------------------------------------------------------
(***************************************************************************)
(* What leaves a batch open: the tally of finalizeBatch is taken from the   *)
(* snapshot of one finish, and another that is open meanwhile is not in it. *)
(* Nothing but that overlap does it.                                       *)
(***************************************************************************)

LEMMA ClosingInit == Init => ClosingInv
  BY DEF Init, LifecycleInit, ClosingInv, LastItemClosesBatch, KeepsRight, OpenStatuses

\* A step that opens no finish, opens no batch and takes no active item of a batch that
\* stays open keeps the invariant.
ActiveKept ==
    /\ \A b \in Batches : batch'[b] \in OpenStatuses => batch[b] \in OpenStatuses
    /\ \A i \in Items : item[i] \in ActiveStatuses /\ batch'[BatchOf(i)] \in OpenStatuses =>
          item'[i] \in ActiveStatuses
    /\ \A w \in Workers : pc'[w] = "finishing" =>
          pc[w] = "finishing" /\ held'[w] = held[w] /\ verdict'[w] = verdict[w]

LEMMA ActiveKeptCloses ==
  ASSUME QueueTypeOK, ClosingInv, ActiveKept
  PROVE  ClosingInv'
<1>1. LastItemClosesBatch'
  BY DEF ActiveKept, ClosingInv, LastItemClosesBatch, Drained, ItemsOf
<1>2. KeepsRight'
  <2> SUFFICES ASSUME NEW w \in Workers, pc'[w] = "finishing", verdict'[w] = "KEEP",
                      batch'[BatchOf(held'[w])] \in OpenStatuses
               PROVE  OthersRemain(w)'
    BY DEF KeepsRight
  <2>1. pc[w] = "finishing" /\ held'[w] = held[w] /\ verdict[w] = "KEEP" /\ held[w] \in Items
    BY DEF ActiveKept, QueueTypeOK
  <2>2. OthersRemain(w)
    BY <2>1, BatchOfItem DEF ActiveKept, ClosingInv, KeepsRight
  <2> QED BY <2>1, <2>2 DEF OthersRemain, ItemsOf, ActiveKept
<1> QED BY <1>1, <1>2 DEF ClosingInv

LEMMA ClosingStep ==
  ASSUME QueueTypeOK, QueueInv, ClosingInv, FinishesApart, [Next]_vars
  PROVE  ClosingInv'
<1> SUFFICES ASSUME ~ActiveKept PROVE ClosingInv'
  BY ActiveKeptCloses
<1> USE DEF QueueTypeOK
<1>1. CASE UNCHANGED vars
  BY <1>1 DEF vars, tableVars, workerVars, ActiveKept
<1>2. ASSUME NEW b \in Batches, NEW ds \in SUBSET Deals, Create(b, ds) PROVE ClosingInv'
  <2>1. /\ batch[b] = "NONE" /\ ds # {} /\ batch' = [batch EXCEPT ![b] = "PENDING"]
        /\ item' = [i \in Items |-> IF BatchOf(i) = b /\ i[2] \in ds THEN "PENDING" ELSE item[i]]
        /\ UNCHANGED <<pc, held, verdict>>
    BY <1>2 DEF Create, Open, workerVars
  <2>2. LastItemClosesBatch'
    <3> SUFFICES ASSUME NEW c \in Batches, batch'[c] \in OpenStatuses PROVE ~Drained(c, item')
      BY DEF LastItemClosesBatch
    <3>1. CASE c = b
      <4>1. PICK d \in ds : <<b, d>> \in ItemsOf(b)
        BY <2>1 DEF ItemsOf, Items, BatchOf
      <4>2. item'[<<b, d>>] = "PENDING"
        BY <2>1, <4>1 DEF ItemsOf
      <4> QED BY <3>1, <4>1, <4>2 DEF Drained, ActiveStatuses
    <3>2. CASE c # b
      BY <2>1, <3>2 DEF ClosingInv, LastItemClosesBatch, Drained, ItemsOf
    <3> QED BY <3>1, <3>2
  <2>3. KeepsRight'
    <3> SUFFICES ASSUME NEW w \in Workers, pc[w] = "finishing", verdict[w] = "KEEP",
                        batch'[BatchOf(held[w])] \in OpenStatuses
                 PROVE  \E j \in ItemsOf(BatchOf(held[w])) \ {held[w]} : item'[j] \in ActiveStatuses
      BY <2>1 DEF KeepsRight, OthersRemain
    <3>1. held[w] \in Items /\ batch[BatchOf(held[w])] # "NONE" /\ BatchOf(held[w]) # b
      BY <2>1 DEF QueueInv, FinishLocksItem, LifecycleInv, ItemsHaveBatch
    <3>2. OthersRemain(w)
      BY <2>1, <3>1, BatchOfItem DEF ClosingInv, KeepsRight
    <3> QED BY <2>1, <3>1, <3>2 DEF OthersRemain, ItemsOf
  <2> QED BY <2>2, <2>3 DEF ClosingInv
<1>3. ASSUME NEW b \in Batches, CancelStatement(b) PROVE ClosingInv'
  BY <1>3 DEF CancelStatement, tableVars, workerVars, ActiveKept
<1>4. ASSUME NEW b \in Batches, CancelCommit(b) PROVE ClosingInv'
  BY <1>4, BatchOfItem DEF CancelCommit, Cancel, workerVars, ActiveKept, ItemsOf, OpenStatuses
<1>5. ASSUME NEW w \in Workers, NEW out \in Settlements, pc[w] = "running", FinishStatements(w, out)
      PROVE  ClosingInv'
  <2>1. UNCHANGED <<batch, item>>
    BY <1>5 DEF FinishStatements, tableVars
  <2>2. CASE item[held[w]] # "PROCESSING"
    BY <1>5, <2>1, <2>2 DEF FinishStatements, Release, ActiveKept
  <2>3. CASE item[held[w]] = "PROCESSING"
    <3> DEFINE i == held[w]
               view == [item EXCEPT ![i] = out]
    <3>1. /\ pc' = [pc EXCEPT ![w] = "finishing"] /\ held' = held
          /\ verdict' = [verdict EXCEPT ![w] = Tally(BatchOf(i), view)]
      BY <1>5, <2>3 DEF FinishStatements
    <3>2. i \in Items
      BY <1>5
    <3>3. Tally(BatchOf(i), view) = "KEEP" => OthersRemain(w)
      <4> SUFFICES ASSUME Tally(BatchOf(i), view) = "KEEP" PROVE OthersRemain(w)
        OBVIOUS
      <4>1. ~Drained(BatchOf(i), view)
        BY DEF Tally, Verdict
      <4>2. PICK j \in ItemsOf(BatchOf(i)) : view[j] \in ActiveStatuses
        BY <4>1 DEF Drained
      <4>3. j \in Items /\ j # i
        BY <3>2, <4>2 DEF ItemsOf, Settlements, ActiveStatuses
      <4> QED BY <4>2, <4>3 DEF OthersRemain
    <3> HIDE DEF view
    <3>4. ASSUME NEW v \in Workers, pc'[v] = "finishing", verdict'[v] = "KEEP",
                 batch'[BatchOf(held'[v])] \in OpenStatuses
          PROVE  OthersRemain(v)'
      <4>1. CASE v = w
        BY <2>1, <3>1, <3>3, <3>4, <4>1 DEF OthersRemain
      <4>2. CASE v # w
        BY <2>1, <3>1, <3>4, <4>2 DEF ClosingInv, KeepsRight, OthersRemain
      <4> QED BY <4>1, <4>2
    <3> QED BY <2>1, <3>4 DEF ClosingInv, LastItemClosesBatch, KeepsRight
  <2> QED BY <2>2, <2>3
<1>6. ASSUME NEW w \in Workers, FinishCommit(w) PROVE ClosingInv'
  <2> DEFINE i == held[w]
             b == BatchOf(i)
  <2>1. /\ pc[w] = "finishing" /\ i \in Items /\ b \in Batches
        /\ item' = [item EXCEPT ![i] = outcome[w]]
        /\ batch' = [batch EXCEPT ![b] = FinalStatus(w, b)]
        /\ pc' = [pc EXCEPT ![w] = "idle"]
        /\ \A v \in Workers : v # w => held'[v] = held[v] /\ verdict'[v] = verdict[v]
    BY <1>6, BatchOfItem DEF FinishCommit, Release
  <2>2. ASSUME batch'[b] \in OpenStatuses
        PROVE  verdict[w] = "KEEP" /\ batch[b] \in OpenStatuses
    BY <2>1, <2>2 DEF FinalStatus, OpenStatuses, Verdicts
  <2>3. LastItemClosesBatch'
    <3> SUFFICES ASSUME NEW c \in Batches, batch'[c] \in OpenStatuses PROVE ~Drained(c, item')
      BY DEF LastItemClosesBatch
    <3>1. CASE c = b
      <4>1. PICK j \in ItemsOf(b) \ {i} : item[j] \in ActiveStatuses
        BY <2>1, <2>2, <3>1 DEF ClosingInv, KeepsRight, OthersRemain
      <4>2. item'[j] = item[j]
        BY <2>1, <4>1 DEF ItemsOf
      <4> QED BY <3>1, <4>1, <4>2 DEF Drained
    <3>2. CASE c # b
      <4>1. batch'[c] = batch[c] /\ \A j \in ItemsOf(c) : item'[j] = item[j]
        BY <2>1, <3>2 DEF ItemsOf
      <4> QED BY <4>1 DEF ClosingInv, LastItemClosesBatch, Drained
    <3> QED BY <3>1, <3>2
  <2>4. KeepsRight'
    <3> SUFFICES ASSUME NEW v \in Workers, pc'[v] = "finishing", verdict'[v] = "KEEP",
                        batch'[BatchOf(held'[v])] \in OpenStatuses
                 PROVE  OthersRemain(v)'
      BY DEF KeepsRight
    <3>1. v # w /\ pc[v] = "finishing" /\ held'[v] = held[v] /\ verdict[v] = "KEEP" /\ held[v] \in Items
      BY <2>1
    <3>2. BatchOf(held[v]) # b
      BY <2>1, <3>1 DEF FinishesApart
    <3>3. /\ batch'[BatchOf(held[v])] = batch[BatchOf(held[v])]
          /\ \A j \in ItemsOf(BatchOf(held[v])) : item'[j] = item[j]
      BY <2>1, <3>1, <3>2, BatchOfItem DEF ItemsOf
    <3>4. OthersRemain(v)
      BY <3>1, <3>3 DEF ClosingInv, KeepsRight
    <3> QED BY <3>1, <3>3, <3>4 DEF OthersRemain
  <2> QED BY <2>3, <2>4 DEF ClosingInv
<1>7. ASSUME NEW w \in Workers, NEW d, RequeueCommit(w, d), pc[w] # "finishing" PROVE ClosingInv'
  <2>1. \A i \in Items : BatchOf(i) \in seenCanceled[w] => batch[BatchOf(i)] \notin OpenStatuses
    BY DEF QueueInv, SeenCanceledTrue, CanceledBatches, OpenStatuses
  <2> QED BY <1>7, <2>1 DEF RequeueCommit, Release, ActiveKept, ActiveStatuses
<1>8. ASSUME NEW w \in Workers, WorkerStep(w) PROVE ClosingInv'
  <2>1. CASE RecoverStatement(w) \/ ClaimStatement(w)
    BY <2>1 DEF RecoverStatement, ClaimStatement, tableVars, ActiveKept
  <2>2. ASSUME NEW i \in Items, Claim(w, i) PROVE ClosingInv'
    BY <2>2 DEF Claim, ActiveKept, ActiveStatuses
  <2>3. CASE StartBatch(w)
    BY <2>3, BatchOfItem DEF StartBatch, MarkStarted, ActiveKept, OpenStatuses
  <2>4. CASE ClaimMissed(w) \/ Reschedule(w)
    BY <2>4 DEF ClaimMissed, Reschedule, Release, tableVars, ActiveKept
  <2>5. CASE Complete(w)
    BY <1>5, <2>5 DEF Complete, Settlements
  <2>6. CASE Fail(w)
    BY <1>5, <2>6 DEF Fail, Settlements
  <2>7. CASE RecoverCommit(w) \/ RescheduleCommit(w)
    BY <1>7, <2>7 DEF RecoverCommit, RescheduleCommit
  <2> QED BY <1>6, <1>8, <2>1, <2>2, <2>3, <2>4, <2>5, <2>6, <2>7 DEF WorkerStep
<1>9. ASSUME NEW i \in Items, BecomeDue(i) \/ LeaseExpires(i) PROVE ClosingInv'
  BY <1>9 DEF BecomeDue, LeaseExpires, workerVars, ActiveKept
<1>10. ASSUME NEW w \in Workers, StatementFails(w) PROVE ClosingInv'
  BY <1>10 DEF StatementFails, Release, tableVars, ActiveKept
<1>11. ASSUME NEW S \in SUBSET Workers, WorkersStop(S) PROVE ClosingInv'
  BY <1>11 DEF WorkersStop, tableVars, ActiveKept
<1> QED BY <1>1, <1>2, <1>3, <1>4, <1>8, <1>9, <1>10, <1>11 DEF Next

\* A batch whose items are all settled is closed, with cancels, crashes, failed statements
\* and expired leases, as long as no two finish transactions of the batch overlap.
THEOREM OnlyOverlapsLeaveOpen == Spec /\ []FinishesApart => []LastItemClosesBatch
<1>1. QueueTypeOK /\ QueueInv /\ ClosingInv /\ FinishesApart /\ [Next]_vars => ClosingInv'
  BY ClosingStep
<1>2. ClosingInv => LastItemClosesBatch
  BY DEF ClosingInv
<1> QED BY <1>1, <1>2, ClosingInit, QueueInvariant, PTL DEF Spec

\* One worker alone closes every batch.
THEOREM LoneWorkerClosesBatches ==
    (\A v, w \in Workers : v = w) => (Spec => []LastItemClosesBatch)
<1> SUFFICES ASSUME \A v, w \in Workers : v = w PROVE Spec => []LastItemClosesBatch
  OBVIOUS
<1>1. Spec => []FinishesApart
  <2>1. Init => FinishesApart
    BY DEF FinishesApart
  <2>2. FinishesApart /\ [Next]_vars => FinishesApart'
    BY DEF FinishesApart
  <2> QED BY <2>1, <2>2, PTL DEF Spec
<1> QED BY <1>1, OnlyOverlapsLeaveOpen, PTL

-----------------------------------------------------------------------------
(***************************************************************************)
(* What leaves an item waiting in a canceled batch: a requeue that read the *)
(* batch before the cancel and writes the item after the cancel looked for  *)
(* it.  Nothing but that overlap does it.                                  *)
(***************************************************************************)

LEMMA DroppingInit == Init => DroppingInv
  BY DEF Init, LifecycleInit, DroppingInv, CanceledBatchHasNoneWaiting, CancelSeesAll,
         RequeueSeesCancel, CanceledBatches

\* A step that cancels nothing, puts nothing back and begins neither a cancel nor a
\* requeue keeps the invariant.
WaitingKept ==
    /\ \A b \in Batches : batch'[b] = "CANCELED" => batch[b] = "CANCELED"
    /\ \A b \in Batches : batch[b] # "NONE" => batch'[b] # "NONE"
    /\ \A i \in Items : item'[i] = "PENDING" =>
          item[i] = "PENDING" \/ (batch[BatchOf(i)] = "NONE" /\ batch'[BatchOf(i)] # "CANCELED")
    /\ canceling' = canceling /\ cancelSeen' = cancelSeen
    /\ \A w \in Workers : pc'[w] \in {"recovering", "rescheduling"} =>
          pc'[w] = pc[w] /\ selected'[w] = selected[w] /\ seenCanceled'[w] = seenCanceled[w]

LEMMA WaitingKeptDrops ==
  ASSUME QueueTypeOK, DroppingInv, WaitingKept
  PROVE  DroppingInv'
<1> USE DEF WaitingKept, DroppingInv, cancelVars
<1>1. CanceledBatchHasNoneWaiting'
  BY BatchOfItem DEF CanceledBatchHasNoneWaiting, CanceledBatches, ItemsOf
<1>2. CancelSeesAll'
  BY DEF CancelSeesAll, ItemsOf, QueueTypeOK
<1>3. RequeueSeesCancel'
  BY BatchOfItem DEF RequeueSeesCancel, QueueTypeOK
<1> QED BY <1>1, <1>2, <1>3

LEMMA DroppingStep ==
  ASSUME QueueTypeOK, QueueInv, DroppingInv, RequeuesApart, [Next]_vars
  PROVE  DroppingInv'
<1> SUFFICES ASSUME ~WaitingKept PROVE DroppingInv'
  BY WaitingKeptDrops
<1> USE DEF QueueTypeOK, cancelVars
<1>1. CASE UNCHANGED vars
  BY <1>1 DEF vars, tableVars, workerVars, WaitingKept
<1>2. ASSUME NEW b \in Batches, NEW ds \in SUBSET Deals, Create(b, ds) PROVE DroppingInv'
  BY <1>2, BatchOfItem DEF Create, Open, workerVars, WaitingKept
<1>3. ASSUME NEW b \in Batches, CancelStatement(b) PROVE DroppingInv'
  BY <1>3 DEF CancelStatement, tableVars, workerVars, DroppingInv, CanceledBatchHasNoneWaiting,
              CanceledBatches, CancelSeesAll, RequeueSeesCancel, OpenStatuses
<1>4. ASSUME NEW b \in Batches, CancelCommit(b) PROVE DroppingInv'
  <2>1. /\ b \in canceling /\ canceling' = canceling \ {b} /\ cancelSeen' = cancelSeen \ ItemsOf(b)
        /\ UNCHANGED <<pc, selected, seenCanceled>>
    BY <1>4 DEF CancelCommit, workerVars
  <2>2. \A i \in ItemsOf(b) : item[i] = "PENDING" => i \in cancelSeen
    BY <2>1 DEF DroppingInv, CancelSeesAll
  <2>3. CASE batch[b] \in OpenStatuses
    <3>1. /\ batch' = [batch EXCEPT ![b] = "CANCELED"]
          /\ item' = [i \in Items |-> IF i \in cancelSeen \cap ItemsOf(b) /\ item[i] = "PENDING"
                                      THEN "CANCELED" ELSE item[i]]
      BY <1>4, <2>3 DEF CancelCommit, Cancel
    <3>2. CanceledBatchHasNoneWaiting'
      BY <2>2, <3>1 DEF DroppingInv, CanceledBatchHasNoneWaiting, CanceledBatches, ItemsOf
    <3>3. CancelSeesAll'
      BY <2>1, <3>1 DEF DroppingInv, CancelSeesAll, ItemsOf
    <3>4. RequeueSeesCancel'
      BY <2>1, <3>1, BatchOfItem DEF DroppingInv, RequeueSeesCancel, RequeuesApart
    <3> QED BY <3>2, <3>3, <3>4 DEF DroppingInv
  <2>4. CASE batch[b] \notin OpenStatuses
    <3>1. UNCHANGED <<batch, item>>
      BY <1>4, <2>4 DEF CancelCommit
    <3> QED BY <2>1, <3>1 DEF DroppingInv, CanceledBatchHasNoneWaiting, CanceledBatches,
                              CancelSeesAll, RequeueSeesCancel, ItemsOf
  <2> QED BY <2>3, <2>4
<1>5. ASSUME NEW w \in Workers, NEW out, FinishStatements(w, out) PROVE DroppingInv'
  BY <1>5 DEF FinishStatements, Release, tableVars, WaitingKept
<1>6. ASSUME NEW w \in Workers, FinishCommit(w) PROVE DroppingInv'
  <2>1. /\ outcome[w] # "PENDING" /\ held[w] \in Items
        /\ batch[BatchOf(held[w])] # "NONE"
    BY <1>6, BatchOfItem DEF FinishCommit, QueueInv, FinishOutcomeTrue, Settlements,
       FinishLocksItem, LifecycleInv, ItemsHaveBatch
  <2>2. \A b \in Batches : /\ FinalStatus(w, b) = "CANCELED" => batch[b] = "CANCELED"
                           /\ batch[b] # "NONE" => FinalStatus(w, b) # "NONE"
    BY DEF FinalStatus, Verdicts
  <2>3. \A b \in Batches : /\ batch'[b] = "CANCELED" => batch[b] = "CANCELED"
                           /\ batch[b] # "NONE" => batch'[b] # "NONE"
    BY <1>6, <2>1, <2>2, BatchOfItem DEF FinishCommit
  <2>4. \A i \in Items : item'[i] = "PENDING" => item[i] = "PENDING"
    BY <1>6, <2>1 DEF FinishCommit
  <2> QED BY <1>6, <2>3, <2>4 DEF FinishCommit, Release, WaitingKept
<1>7. ASSUME NEW w \in Workers, NEW d, RequeueCommit(w, d), pc[w] \in {"recovering", "rescheduling"}
      PROVE  DroppingInv'
  <2>1. /\ UNCHANGED <<batch, canceling, cancelSeen>>
        /\ pc'[w] = "idle"
        /\ \A v \in Workers \ {w} : pc'[v] = pc[v] /\ selected'[v] = selected[v]
                                     /\ seenCanceled'[v] = seenCanceled[v]
    BY <1>7 DEF RequeueCommit, Release
  <2>2. ASSUME NEW i \in Items, item'[i] = "PENDING", item[i] # "PENDING"
        PROVE  i \in selected[w] /\ BatchOf(i) \notin seenCanceled[w]
    BY <1>7, <2>2 DEF RequeueCommit, StillSelected
  <2>3. ASSUME NEW i \in Items, item'[i] = "PENDING", item[i] # "PENDING"
        PROVE  batch[BatchOf(i)] # "CANCELED" /\ BatchOf(i) \notin canceling
    BY <1>7, <2>2, <2>3 DEF RequeuesApart, DroppingInv, RequeueSeesCancel
  <2>4. CanceledBatchHasNoneWaiting'
    BY <2>1, <2>3 DEF DroppingInv, CanceledBatchHasNoneWaiting, CanceledBatches, ItemsOf
  <2>5. CancelSeesAll'
    BY <2>1, <2>3 DEF DroppingInv, CancelSeesAll, ItemsOf
  <2>6. RequeueSeesCancel'
    BY <2>1 DEF DroppingInv, RequeueSeesCancel
  <2> QED BY <2>4, <2>5, <2>6 DEF DroppingInv
<1>8. ASSUME NEW w \in Workers, batch' = batch, item' = item, cancelVars' = cancelVars,
             selected'[w] \in SUBSET Items,
             \A v \in Workers \ {w} : pc'[v] = pc[v] /\ selected'[v] = selected[v]
                                       /\ seenCanceled'[v] = seenCanceled[v],
             seenCanceled'[w] = CanceledBatches
      PROVE  DroppingInv'
  BY <1>8, BatchOfItem DEF DroppingInv, CanceledBatchHasNoneWaiting, CanceledBatches, CancelSeesAll,
                           RequeueSeesCancel
<1>9. ASSUME NEW w \in Workers, WorkerStep(w) PROVE DroppingInv'
  <2>1. CASE RecoverStatement(w)
    BY <1>8, <2>1 DEF RecoverStatement, tableVars
  <2>2. ASSUME NEW i \in Items, Claim(w, i) PROVE DroppingInv'
    BY <2>2 DEF Claim, WaitingKept
  <2>3. CASE StartBatch(w)
    BY <2>3, BatchOfItem DEF StartBatch, MarkStarted, WaitingKept
  <2>4. CASE ClaimMissed(w) \/ ClaimStatement(w)
    BY <2>4 DEF ClaimMissed, ClaimStatement, Release, tableVars, WaitingKept
  <2>5. CASE Complete(w) \/ Fail(w)
    BY <1>5, <2>5 DEF Complete, Fail
  <2>6. CASE Reschedule(w)
    <3>1. CASE item[held[w]] = "PROCESSING"
      BY <1>8, <2>6, <3>1 DEF Reschedule, tableVars
    <3>2. CASE item[held[w]] # "PROCESSING"
      BY <2>6, <3>2 DEF Reschedule, Release, tableVars, WaitingKept
    <3> QED BY <3>1, <3>2
  <2>7. CASE RecoverCommit(w) \/ RescheduleCommit(w)
    BY <1>7, <2>7 DEF RecoverCommit, RescheduleCommit
  <2> QED BY <1>6, <1>9, <2>1, <2>2, <2>3, <2>4, <2>5, <2>6, <2>7 DEF WorkerStep
<1>10. ASSUME NEW i \in Items, BecomeDue(i) \/ LeaseExpires(i) PROVE DroppingInv'
  BY <1>10 DEF BecomeDue, LeaseExpires, workerVars, WaitingKept
<1>11. ASSUME NEW w \in Workers, StatementFails(w) PROVE DroppingInv'
  BY <1>11 DEF StatementFails, Release, tableVars, WaitingKept
<1>12. ASSUME NEW S \in SUBSET Workers, WorkersStop(S) PROVE DroppingInv'
  BY <1>12 DEF WorkersStop, tableVars, WaitingKept
<1> QED BY <1>1, <1>2, <1>3, <1>4, <1>9, <1>10, <1>11, <1>12 DEF Next

\* A canceled batch keeps no waiting item, with crashes, retries, recoveries and expired
\* leases, as long as no item is being put back while its batch is being canceled.
THEOREM OnlyOverlapsLeaveWaiting ==
    Spec /\ []RequeuesApart => []CanceledBatchHasNoneWaiting
<1>1. QueueTypeOK /\ QueueInv /\ DroppingInv /\ RequeuesApart /\ [Next]_vars => DroppingInv'
  BY DroppingStep
<1>2. DroppingInv => CanceledBatchHasNoneWaiting
  BY DEF DroppingInv
<1> QED BY <1>1, <1>2, DroppingInit, QueueInvariant, PTL DEF Spec

-----------------------------------------------------------------------------
(* What loses an item. *)

\* Who lets go of an item has put it back, settled it or found it settled.
OrphanInv ==
    /\ OrphansComeFromFaults
    /\ \A w \in Workers : pc[w] = "rescheduling" => selected[w] = {held[w]}

LEMMA OrphanStep ==
  ASSUME QueueTypeOK, QueueInv, OrphanInv, [Next]_vars
  PROVE  OrphanInv'
<1> USE DEF QueueTypeOK, OrphanInv, OrphansComeFromFaults, Busy
<1>1. CASE UNCHANGED vars
  BY <1>1 DEF vars, tableVars, workerVars
<1>2. ASSUME NEW b \in Batches, NEW ds \in SUBSET Deals, Create(b, ds) PROVE OrphanInv'
  BY <1>2 DEF Create, Open, workerVars
<1>3. ASSUME NEW b \in Batches, CancelStatement(b) PROVE OrphanInv'
  BY <1>3 DEF CancelStatement, tableVars, workerVars
<1>4. ASSUME NEW b \in Batches, CancelCommit(b) PROVE OrphanInv'
  BY <1>4 DEF CancelCommit, Cancel, workerVars
<1>5. ASSUME NEW w \in Workers, NEW out, FinishStatements(w, out) PROVE OrphanInv'
  BY <1>5 DEF FinishStatements, Release, tableVars
<1>6. ASSUME NEW w \in Workers, FinishCommit(w) PROVE OrphanInv'
  <2>1. outcome[w] # "PROCESSING" /\ held[w] \in Items
    BY <1>6 DEF FinishCommit, QueueInv, FinishOutcomeTrue, Settlements
  <2> QED BY <1>6, <2>1 DEF FinishCommit, Release
<1>7. ASSUME NEW w \in Workers, NEW d, RequeueCommit(w, d),
             \/ pc[w] = "recovering" /\ held[w] = NoItem
             \/ pc[w] = "rescheduling"
      PROVE  OrphanInv'
  <2>1. \A i \in Items : item'[i] = "PROCESSING" => item[i] = "PROCESSING" /\ i \notin StillSelected(w)
    BY <1>7 DEF RequeueCommit
  <2>2. \A i \in Items : item'[i] = "PROCESSING" => held[w] # i
    BY <1>7, <2>1, WorkersAssumption DEF StillSelected
  <2>3. /\ faults' = faults
        /\ \A v \in Workers : v # w => pc'[v] = pc[v] /\ held'[v] = held[v] /\ selected'[v] = selected[v]
        /\ pc'[w] = "idle"
    BY <1>7 DEF RequeueCommit, Release
  <2> QED BY <2>1, <2>2, <2>3
<1>8. ASSUME NEW w \in Workers, WorkerStep(w) PROVE OrphanInv'
  <2>1. CASE RecoverStatement(w) \/ ClaimStatement(w)
    BY <2>1 DEF RecoverStatement, ClaimStatement, tableVars
  <2>2. ASSUME NEW i \in Items, Claim(w, i) PROVE OrphanInv'
    BY <2>2, WorkersAssumption DEF Claim
  <2>3. CASE StartBatch(w)
    BY <2>3 DEF StartBatch, MarkStarted
  <2>4. CASE ClaimMissed(w)
    BY <2>4, WorkersAssumption DEF ClaimMissed, Release, tableVars
  <2>5. CASE Reschedule(w)
    BY <2>5 DEF Reschedule, Release, tableVars
  <2>6. CASE Complete(w) \/ Fail(w)
    BY <1>5, <2>6 DEF Complete, Fail
  <2>7. CASE RecoverCommit(w) \/ RescheduleCommit(w)
    BY <1>7, <2>7 DEF RecoverCommit, RescheduleCommit
  <2> QED BY <1>6, <1>8, <2>1, <2>2, <2>3, <2>4, <2>5, <2>6, <2>7 DEF WorkerStep
<1>9. ASSUME NEW i \in Items, BecomeDue(i) \/ LeaseExpires(i) PROVE OrphanInv'
  BY <1>9 DEF BecomeDue, LeaseExpires, workerVars
<1>10. ASSUME NEW w \in Workers, StatementFails(w) PROVE OrphanInv'
  BY <1>10 DEF StatementFails, Release, tableVars
<1>11. ASSUME NEW S \in SUBSET Workers, WorkersStop(S) PROVE OrphanInv'
  BY <1>11 DEF WorkersStop, tableVars
<1> QED BY <1>1, <1>2, <1>3, <1>4, <1>8, <1>9, <1>10, <1>11 DEF Next

\* Without a crash or a failed statement every item in progress is in a worker's hands,
\* even when leases expire under live workers and recoveries, cancels and reports overlap.
THEOREM OnlyFaultsLoseItems == Spec => []OrphansComeFromFaults
<1>1. Init => OrphanInv
  BY DEF Init, LifecycleInit, OrphanInv, OrphansComeFromFaults
<1>2. QueueTypeOK /\ QueueInv /\ OrphanInv /\ [Next]_vars => OrphanInv'
  BY OrphanStep
<1>3. OrphanInv => OrphansComeFromFaults
  BY DEF OrphanInv
<1> QED BY <1>1, <1>2, <1>3, QueueInvariant, PTL DEF Spec
=============================================================================
