--------------------------- MODULE BatchQueueProps ---------------------------
(* The correctness properties of the audit queue. *)
EXTENDS BatchQueue

\* A batch with a final verdict has no item left to run: finalizeBatch
\* (batch_queue.go:134-137) never closes a batch from a tally that other
\* workers' open transactions or a requeue have overtaken.
VerdictMeansDrained ==
    \A b \in Batches : batch[b] \in Verdicts => Drained(b, item)

\* The verdict a caller of Get reads is the one the settled items bear out,
\* although it was computed from a snapshot taken before the commit.
VerdictMatchesItems ==
    \A b \in Batches : batch[b] \in Verdicts => batch[b] = Verdict(b, item)

\* Only a cancel of its batch drops an item: the CASE on b.status in Fail,
\* Reschedule and RecoverExpired reads a status that can be stale, but never a
\* cancellation that did not happen.
DroppedOnlyByCancel ==
    \A i \in Items : item[i] = "CANCELED" => batch[BatchOf(i)] = "CANCELED"

\* No deal is audited by two workers at once, over any number of processes:
\* SKIP LOCKED, the PENDING guard and the lease together make a claim exclusive
\* as long as the lease outlasts the run (config.go:179-181).
ClaimsAreExclusive ==
    \A w1, w2 \in Workers :
        w1 # w2 /\ held[w1] # NoItem => held[w1] # held[w2]

\* The item a worker is running is still leased to it, so the result it will
\* report is not refused with "item de lote não está reservado".
HeldItemIsLeased ==
    \A w \in Workers : held[w] # NoItem =>
        item[held[w]] = "PROCESSING" /\ lease[held[w]] = "live"

\* A recovered lease costs an attempt beyond the budget, nothing else does:
\* Run checks MaxAttempts before a reschedule, RecoverExpired never does.
AttemptsWithinBudget ==
    \A i \in Items : attempts[i] <= MaxAttempts + faults

\* A settled item and a closed batch never change again, whoever still holds
\* a stale claim, snapshot or verdict of them.
SettledForGood ==
    [][/\ \A i \in Items : item[i] \in Settlements => item'[i] = item[i]
       /\ \A b \in Batches :
             batch[b] \in Verdicts \cup {"CANCELED"} => batch'[b] = batch[b]]_vars

-----------------------------------------------------------------------------
(* What makes them inductive. *)

\* Items exist only in existing batches.
ItemsHaveBatch ==
    \A i \in Items : item[i] # "NONE" => batch[BatchOf(i)] # "NONE"

LifecycleInv ==
    /\ ItemsHaveBatch
    /\ VerdictMeansDrained
    /\ VerdictMatchesItems
    /\ DroppedOnlyByCancel

\* An open finish transaction keeps its item as it found it, alone.
FinishLocksItem ==
    \A w \in Workers : pc[w] = "finishing" =>
        /\ item[held[w]] = "PROCESSING"
        /\ \A v \in Workers : pc[v] = "finishing" /\ held[v] = held[w] => v = w

\* What it is about to write cancels an item only in a canceled batch.
FinishOutcomeTrue ==
    \A w \in Workers : pc[w] = "finishing" =>
        /\ outcome[w] \in Settlements
        /\ outcome[w] = "CANCELED" => batch[BatchOf(held[w])] = "CANCELED"

\* A verdict computed from its snapshot stays the verdict of the items: a tally
\* without active items cannot be overtaken.
ItemsAfter(w) == [item EXCEPT ![held[w]] = outcome[w]]
FinishVerdictTrue ==
    \A w \in Workers : pc[w] = "finishing" /\ verdict[w] # "KEEP" =>
        /\ Drained(BatchOf(held[w]), ItemsAfter(w))
        /\ verdict[w] = Verdict(BatchOf(held[w]), ItemsAfter(w))

\* A batch a statement saw canceled is still canceled.
SeenCanceledTrue == \A w \in Workers : seenCanceled[w] \subseteq CanceledBatches

QueueInv ==
    /\ LifecycleInv
    /\ FinishLocksItem
    /\ FinishOutcomeTrue
    /\ FinishVerdictTrue
    /\ SeenCanceledTrue

\* A reschedule in flight is about the item its worker holds.
RescheduleOfHeld ==
    \A w \in Workers : pc[w] = "rescheduling" =>
        selected[w] = {held[w]} /\ tries[w] < MaxAttempts

LeaseInv == ClaimsAreExclusive /\ HeldItemIsLeased /\ RescheduleOfHeld

\* An item that waits, or that its worker lost, has an attempt to spare; the
\* fault that made a worker lose it is what pays for that attempt.
Unattended(i) == item[i] = "PENDING" \/ (item[i] = "PROCESSING" /\ ~Busy(i))
BudgetInv ==
    /\ AttemptsWithinBudget
    /\ \A i \in Items : item[i] = "NONE" => attempts[i] = 0
    /\ \A i \in Items : Unattended(i) => attempts[i] < MaxAttempts + faults
    /\ \A w \in Workers : held[w] # NoItem => tries[w] = attempts[held[w]]

-----------------------------------------------------------------------------
\* finish settles an item and finalizes its batch in one transaction, so a
\* batch whose items are all settled is closed
\* (batch_queue_integration_test.go:59 expects it).
LastItemClosesBatch ==
    \A b \in Batches : batch[b] \in OpenStatuses => ~Drained(b, item)

\* Two finish transactions of one batch do not overlap.
FinishesApart ==
    \A v, w \in Workers :
        pc[v] = "finishing" /\ pc[w] = "finishing" /\ BatchOf(held[v]) = BatchOf(held[w]) => v = w

\* As long as they do not, an open finish that found others to be done still does.
OthersRemain(w) ==
    \E j \in ItemsOf(BatchOf(held[w])) \ {held[w]} : item[j] \in ActiveStatuses
KeepsRight ==
    \A w \in Workers :
        pc[w] = "finishing" /\ verdict[w] = "KEEP" /\ batch[BatchOf(held[w])] \in OpenStatuses
            => OthersRemain(w)
ClosingInv == LastItemClosesBatch /\ KeepsRight

\* No statement or overlap of statements loses an item: one in progress that no worker
\* has was lost to a fault.
OrphansComeFromFaults ==
    \A i \in Items : item[i] = "PROCESSING" /\ ~Busy(i) => faults > 0

\* A canceled batch keeps no waiting item: Cancel drops those it finds, and a
\* requeue drops the one it puts back (batch_queue_integration_test.go:142).
CanceledBatchHasNoneWaiting ==
    \A b \in CanceledBatches : \A i \in ItemsOf(b) : item[i] # "PENDING"

\* No item is being put back while its batch is being canceled.
RequeuesApart ==
    \A w \in Workers : pc[w] \in {"recovering", "rescheduling"} =>
        \A i \in selected[w] : BatchOf(i) \notin canceling

\* Then a cancel has seen all that waits when it commits, and a requeue the cancel.
CancelSeesAll ==
    \A b \in canceling :
        /\ batch[b] # "NONE"
        /\ \A i \in ItemsOf(b) : item[i] = "PENDING" => i \in cancelSeen
RequeueSeesCancel ==
    \A w \in Workers : pc[w] \in {"recovering", "rescheduling"} =>
        \A i \in selected[w] : batch[BatchOf(i)] = "CANCELED" => BatchOf(i) \in seenCanceled[w]
DroppingInv == CanceledBatchHasNoneWaiting /\ CancelSeesAll /\ RequeueSeesCancel

\* No item of an open batch is forgotten while no worker crashes and no statement
\* fails: it is audited to the end or dropped by a cancel (worker.go:47-92).
EveryItemSettles ==
    [](faults = 0) =>
        \A i \in Items :
            item[i] \in ActiveStatuses ~>
                item[i] \in Settlements \/ batch[BatchOf(i)] = "CANCELED"
=============================================================================
