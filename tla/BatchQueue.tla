------------------------------ MODULE BatchQueue ------------------------------
(***************************************************************************)
(* The audit queue on PostgreSQL (internal/platform/postgres/              *)
(* batch_queue.go) driven by the worker loop                               *)
(* (internal/batch/application/worker.go) of every auditworker process.    *)
(*                                                                         *)
(* The database runs READ COMMITTED: a statement reads the rows committed  *)
(* when it starts and applies its change later, after waiting for row      *)
(* locks and rechecking its WHERE clause on the locked row only.  Each     *)
(* statement whose reads can be overtaken is therefore two steps: one      *)
(* takes the snapshot, one commits against the rows as they are by then.   *)
(*                                                                         *)
(* Bounds: MaxFaults caps crashes and failed statements.                   *)
(***************************************************************************)
EXTENDS BatchLifecycle

CONSTANTS Workers,         \* worker goroutines, over all auditworker processes
          MaxAttempts,     \* AUDIT_MAX_ATTEMPTS
          MaxFaults,       \* bound on crashes and failed statements
          LeaseCoversRun,  \* no lease expires under a live worker
          NoItem           \* a worker that holds nothing

ASSUME WorkersAssumption ==
    /\ MaxAttempts \in Nat \ {0}
    /\ MaxFaults \in Nat
    /\ LeaseCoversRun \in BOOLEAN
    /\ NoItem \notin Items

VARIABLES
    attempts,     \* attempts[i]     : audit_batch_items.attempts
    due,          \* due[i]          : available_at <= NOW()
    lease,        \* lease[i]        : none, live or expired (lease_expires_at)
    canceling,    \* batches with a Cancel statement in flight
    cancelSeen,   \* PENDING items those statements saw
    pc,           \* pc[w]           : where the worker is
    held,         \* held[w]         : the item Claim returned to it
    tries,        \* tries[w]        : item.Attempts of that claim
    outcome,      \* outcome[w]      : item status its open transaction wrote
    verdict,      \* verdict[w]      : batch status finalizeBatch computed
    selected,     \* selected[w]     : rows its requeue statement selected
    seenCanceled, \* seenCanceled[w] : batches that statement saw CANCELED
    faults        \* faults so far

tableVars  == <<batch, item, attempts, due, lease>>
cancelVars == <<canceling, cancelSeen>>
workerVars == <<pc, held, tries, outcome, verdict, selected, seenCanceled>>
vars       == <<tableVars, cancelVars, workerVars, faults>>

PCs == {"down", "recovering", "idle", "claiming", "claimed", "running", "finishing", "rescheduling"}

QueueTypeOK ==
    /\ batch \in [Batches -> BatchStatuses]
    /\ item \in [Items -> ItemStatuses]
    /\ attempts \in [Items -> Nat]
    /\ due \in [Items -> BOOLEAN]
    /\ lease \in [Items -> {"none", "live", "expired"}]
    /\ canceling \subseteq Batches
    /\ cancelSeen \subseteq Items
    /\ pc \in [Workers -> PCs]
    /\ held \in [Workers -> Items \cup {NoItem}]
    /\ \A w \in Workers :
          (held[w] = NoItem) <=> (pc[w] \in {"down", "recovering", "idle", "claiming"})
    /\ tries \in [Workers -> Nat]
    /\ outcome \in [Workers -> Settlements \cup {"NONE"}]
    /\ verdict \in [Workers -> Verdicts \cup {"KEEP"}]
    /\ selected \in [Workers -> SUBSET Items]
    /\ seenCanceled \in [Workers -> SUBSET Batches]
    /\ faults \in 0..MaxFaults

Init ==
    /\ LifecycleInit
    /\ attempts = [i \in Items |-> 0]
    /\ due = [i \in Items |-> TRUE]
    /\ lease = [i \in Items |-> "none"]
    /\ canceling = {}
    /\ cancelSeen = {}
    /\ pc = [w \in Workers |-> "down"]
    /\ held = [w \in Workers |-> NoItem]
    /\ tries = [w \in Workers |-> 0]
    /\ outcome = [w \in Workers |-> "NONE"]
    /\ verdict = [w \in Workers |-> "KEEP"]
    /\ selected = [w \in Workers |-> {}]
    /\ seenCanceled = [w \in Workers |-> {}]
    /\ faults = 0

-----------------------------------------------------------------------------
(* Helpers. *)

\* The row lock an open finish transaction holds until it commits.
RowLocked(i) == \E w \in Workers : pc[w] = "finishing" /\ held[w] = i

\* A worker between its claim and the report of its result.
Busy(i) == \E w \in Workers : held[w] = i

\* The WHERE clause of RecoverExpired; the wrong one (for mutation) forgets the
\* lease.
ExpiredOrNot(i) == item[i] = "PROCESSING"
Expired(i) == item[i] = "PROCESSING" /\ lease[i] = "expired"

\* The candidate rows of Claim; the wrong ones (for mutation) are those of
\* batches nobody has started.
ClaimableBeforeStart(i) == item[i] = "PENDING" /\ due[i] /\ batch[BatchOf(i)] = "PENDING"
Claimable(i) == item[i] = "PENDING" /\ due[i] /\ batch[BatchOf(i)] \in OpenStatuses

\* The batches a CASE on b.status takes for canceled; the wrong one (for
\* mutation) takes every batch that is not RUNNING.
NotRunningBatches == {b \in Batches : batch[b] # "RUNNING"}
CanceledBatches == {b \in Batches : batch[b] = "CANCELED"}

\* Two wrong tallies (for mutation): one that takes an item in progress for
\* finished, one that knows no PARTIAL.
TallyOfWaiting(b, view) ==
    IF \A i \in ItemsOf(b) : view[i] # "PENDING" THEN Verdict(b, view) ELSE "KEEP"
TallyWithoutPartial(b, view) ==
    IF ~Drained(b, view) THEN "KEEP"
    ELSE IF \E i \in ItemsOf(b) : view[i] = "FAILED" THEN "FAILED" ELSE "COMPLETED"

\* finalizeBatch: what its subquery makes of the batch, on the statuses it sees.
Tally(b, view) == IF Drained(b, view) THEN Verdict(b, view) ELSE "KEEP"

\* The loop's check of the attempts of its claim; the wrong one (for mutation)
\* is off by one.
MayRetryOnceMore(w) == tries[w] <= MaxAttempts
MayRetry(w) == tries[w] < MaxAttempts

\* The status finalizeBatch leaves in the batch when its transaction commits:
\* WHERE b.status <> 'CANCELED' is rechecked on the locked row.  The wrong one
\* (for mutation) trusts the snapshot.
FinalStatusUnchecked(w, b) == IF verdict[w] = "KEEP" THEN batch[b] ELSE verdict[w]
FinalStatus(w, b) ==
    IF verdict[w] = "KEEP" \/ batch[b] = "CANCELED" THEN batch[b] ELSE verdict[w]

\* A release that forgets the item (for mutation).
ReleaseKeepingItem(w) ==
    /\ pc' = [pc EXCEPT ![w] = "idle"]
    /\ outcome' = [outcome EXCEPT ![w] = "NONE"]
    /\ verdict' = [verdict EXCEPT ![w] = "KEEP"]
    /\ selected' = [selected EXCEPT ![w] = {}]
    /\ seenCanceled' = [seenCanceled EXCEPT ![w] = {}]
    /\ UNCHANGED <<held, tries>>

\* Back to the top of the worker's loop, with nothing held.
Release(w) ==
    /\ pc' = [pc EXCEPT ![w] = "idle"]
    /\ held' = [held EXCEPT ![w] = NoItem]
    /\ tries' = [tries EXCEPT ![w] = 0]
    /\ outcome' = [outcome EXCEPT ![w] = "NONE"]
    /\ verdict' = [verdict EXCEPT ![w] = "KEEP"]
    /\ selected' = [selected EXCEPT ![w] = {}]
    /\ seenCanceled' = [seenCanceled EXCEPT ![w] = {}]

-----------------------------------------------------------------------------
(* Operations of the API server and the TUI. *)

\* BatchQueue.Create: the batch and one item per distinct deal, in one
\* transaction.  An empty list or an invalid ID leaves no row behind.
Create(b, ds) ==
    /\ Open(b, ds)
    /\ UNCHANGED <<attempts, due, lease, cancelVars, workerVars, faults>>

\* BatchQueue.Cancel, snapshot: the batch is open, its PENDING items are seen.
CancelStatement(b) ==
    /\ b \notin canceling
    /\ batch[b] \in OpenStatuses
    /\ canceling' = canceling \cup {b}
    /\ cancelSeen' = cancelSeen \cup {i \in ItemsOf(b) : item[i] = "PENDING"}
    /\ UNCHANGED <<tableVars, workerVars, faults>>

\* Its commit: both WHERE clauses are rechecked on the rows it locks; an item
\* that was not PENDING in the snapshot is not visited.
CancelCommit(b) ==
    LET dropped == {i \in cancelSeen \cap ItemsOf(b) : item[i] = "PENDING"}
    IN  /\ b \in canceling
        /\ canceling' = canceling \ {b}
        /\ cancelSeen' = cancelSeen \ ItemsOf(b)
        /\ IF batch[b] \in OpenStatuses
           THEN /\ Cancel(b, dropped)
                /\ lease' = [i \in Items |-> IF i \in dropped THEN "none" ELSE lease[i]]
           ELSE UNCHANGED <<batch, item, lease>>
        /\ UNCHANGED <<attempts, due, workerVars, faults>>

-----------------------------------------------------------------------------
(* The worker's startup: RecoverExpired, once. *)

\* The statement selects the expired leases and reads their batches.
RecoverStatement(w) ==
    /\ pc[w] = "down"
    /\ pc' = [pc EXCEPT ![w] = "recovering"]
    /\ selected' = [selected EXCEPT ![w] =
                       {i \in Items : Expired(i)}]
    /\ seenCanceled' = [seenCanceled EXCEPT ![w] = CanceledBatches]
    /\ UNCHANGED <<tableVars, cancelVars, held, tries, outcome, verdict, faults>>

\* The rows a requeue statement still matches once it has locked them.  The wrong
\* one (for mutation) puts the lease into the WHERE clause of both statements.
StillSelectedExpired(w) == {i \in selected[w] : Expired(i)}
StillSelected(w) ==
    {i \in selected[w] :
        IF pc[w] = "recovering" THEN Expired(i) ELSE item[i] = "PROCESSING"}

\* The common effect of RecoverExpired and Reschedule: PENDING again, or
\* CANCELED for a batch the statement saw canceled.
RequeueCommit(w, dueNow) ==
    LET S == StillSelected(w)
    IN  /\ \A i \in selected[w] : ~RowLocked(i)
        /\ item' = [i \in Items |->
                       IF i \notin S THEN item[i]
                       ELSE IF BatchOf(i) \in seenCanceled[w] THEN "CANCELED"
                       ELSE "PENDING"]
        /\ lease' = [i \in Items |-> IF i \in S THEN "none" ELSE lease[i]]
        /\ due' = [i \in Items |-> IF i \in S THEN dueNow ELSE due[i]]
        /\ Release(w)
        /\ UNCHANGED <<batch, attempts, cancelVars, faults>>

RecoverCommit(w) == pc[w] = "recovering" /\ RequeueCommit(w, TRUE)

-----------------------------------------------------------------------------
(* One turn of the worker's loop. *)

\* Claim, first statement, snapshot: the due items of the batches it sees open.
\* Without one the worker polls again.
ClaimStatement(w) ==
    /\ pc[w] = "idle"
    /\ selected' = [selected EXCEPT ![w] = {i \in Items : Claimable(i)}]
    /\ selected'[w] # {}
    /\ pc' = [pc EXCEPT ![w] = "claiming"]
    /\ UNCHANGED <<tableVars, cancelVars, held, tries, outcome, verdict, seenCanceled, faults>>

\* Its commit: FOR UPDATE OF i SKIP LOCKED takes a candidate that is still
\* PENDING and due; the status of the batch is not looked at again.
StillFree(w) == {i \in selected[w] : item[i] = "PENDING" /\ due[i]}
Claim(w, i) ==
    /\ pc[w] = "claiming"
    /\ i \in StillFree(w)
    /\ item' = [item EXCEPT ![i] = "PROCESSING"]
    /\ attempts' = [attempts EXCEPT ![i] = @ + 1]
    /\ lease' = [lease EXCEPT ![i] = "live"]
    /\ pc' = [pc EXCEPT ![w] = "claimed"]
    /\ held' = [held EXCEPT ![w] = i]
    /\ tries' = [tries EXCEPT ![w] = attempts[i] + 1]
    /\ selected' = [selected EXCEPT ![w] = {}]
    /\ UNCHANGED <<batch, due, cancelVars, outcome, verdict, seenCanceled, faults>>

\* Every candidate was taken meanwhile: no row, and the worker polls again.
ClaimMissed(w) ==
    /\ pc[w] = "claiming"
    /\ StillFree(w) = {}
    /\ Release(w)
    /\ UNCHANGED <<tableVars, cancelVars, faults>>

\* Claim, second statement: the batch is RUNNING from its first claim on.
StartBatch(w) ==
    LET b == BatchOf(held[w])
    IN  /\ pc[w] = "claimed"
        /\ IF batch[b] = "PENDING" THEN MarkStarted(b) ELSE UNCHANGED <<batch, item>>
        /\ pc' = [pc EXCEPT ![w] = "running"]
        /\ UNCHANGED <<attempts, due, lease, cancelVars, held, tries, outcome,
                       verdict, selected, seenCanceled, faults>>

\* finish: the item's UPDATE and the snapshot of finalizeBatch, in an open
\* transaction.  An item that is no longer PROCESSING is an error, which the
\* worker only logs.  A row another transaction has locked is waited for.
FinishStatements(w, out) ==
    LET i == held[w]
    IN  /\ ~RowLocked(i)
        /\ IF item[i] = "PROCESSING"
           THEN /\ pc' = [pc EXCEPT ![w] = "finishing"]
                /\ outcome' = [outcome EXCEPT ![w] = out]
                /\ verdict' = [verdict EXCEPT ![w] =
                                  Tally(BatchOf(i), [item EXCEPT ![i] = out])]
                /\ UNCHANGED <<held, tries, selected, seenCanceled>>
           ELSE Release(w)
        /\ UNCHANGED <<tableVars, cancelVars, faults>>

\* Processor.Run returned no error: Queue.Complete.
Complete(w) == pc[w] = "running" /\ FinishStatements(w, "COMPLETED")

\* A permanent error, or a transient one on the last attempt: Queue.Fail, which
\* writes CANCELED when it sees the batch canceled.
Fail(w) ==
    /\ pc[w] = "running"
    /\ FinishStatements(w, IF batch[BatchOf(held[w])] = "CANCELED"
                           THEN "CANCELED" ELSE "FAILED")

\* A transient error with attempts left: Queue.Reschedule, snapshot.
Reschedule(w) ==
    /\ pc[w] = "running"
    /\ MayRetry(w)
    /\ IF item[held[w]] = "PROCESSING"
       THEN /\ pc' = [pc EXCEPT ![w] = "rescheduling"]
            /\ selected' = [selected EXCEPT ![w] = {held[w]}]
            /\ seenCanceled' = [seenCanceled EXCEPT ![w] = CanceledBatches]
            /\ UNCHANGED <<held, tries, outcome, verdict>>
       ELSE Release(w)
    /\ UNCHANGED <<tableVars, cancelVars, faults>>

RescheduleCommit(w) == pc[w] = "rescheduling" /\ RequeueCommit(w, FALSE)

\* The transaction of Complete or Fail commits: the item settles, and the batch
\* takes the verdict computed from the snapshot unless it was canceled since.
FinishCommit(w) ==
    LET i == held[w]
        b == BatchOf(i)
    IN  /\ pc[w] = "finishing"
        /\ item' = [item EXCEPT ![i] = outcome[w]]
        /\ lease' = [lease EXCEPT ![i] = "none"]
        /\ batch' = [batch EXCEPT ![b] = FinalStatus(w, b)]
        /\ Release(w)
        /\ UNCHANGED <<attempts, due, cancelVars, faults>>

-----------------------------------------------------------------------------
(* Time and faults. *)

\* available_at passes.
BecomeDue(i) ==
    /\ item[i] = "PENDING"
    /\ ~due[i]
    /\ due' = [due EXCEPT ![i] = TRUE]
    /\ UNCHANGED <<batch, item, attempts, lease, cancelVars, workerVars, faults>>

\* lease_expires_at passes.  config.go makes the worker refuse a lease that is
\* not longer than the audit timeout: with LeaseCoversRun it outlasts the run.
LeaseExpires(i) ==
    /\ lease[i] = "live"
    /\ LeaseCoversRun => ~Busy(i)
    /\ lease' = [lease EXCEPT ![i] = "expired"]
    /\ UNCHANGED <<batch, item, attempts, due, cancelVars, workerVars, faults>>

\* Complete, Fail or Reschedule returns a database error: nothing is written,
\* the worker logs it and goes on with the item still PROCESSING.
StatementFails(w) ==
    /\ faults < MaxFaults
    /\ pc[w] \in {"running", "finishing", "rescheduling"}
    /\ faults' = faults + 1
    /\ Release(w)
    /\ UNCHANGED <<tableVars, cancelVars>>

\* Workers end and leave their items under lease: alone when SIGTERM lets each
\* one return in its turn, together when their process dies or when an error of
\* RecoverExpired or Claim in one of them stops it.  Open transactions roll back.
WorkersStop(S) ==
    /\ faults < MaxFaults
    /\ S # {}
    /\ \A w \in S : pc[w] # "down"
    /\ faults' = faults + 1
    /\ pc' = [w \in Workers |-> IF w \in S THEN "down" ELSE pc[w]]
    /\ held' = [w \in Workers |-> IF w \in S THEN NoItem ELSE held[w]]
    /\ tries' = [w \in Workers |-> IF w \in S THEN 0 ELSE tries[w]]
    /\ outcome' = [w \in Workers |-> IF w \in S THEN "NONE" ELSE outcome[w]]
    /\ verdict' = [w \in Workers |-> IF w \in S THEN "KEEP" ELSE verdict[w]]
    /\ selected' = [w \in Workers |-> IF w \in S THEN {} ELSE selected[w]]
    /\ seenCanceled' = [w \in Workers |-> IF w \in S THEN {} ELSE seenCanceled[w]]
    /\ UNCHANGED <<tableVars, cancelVars>>

-----------------------------------------------------------------------------
WorkerStep(w) ==
    \/ RecoverStatement(w)
    \/ RecoverCommit(w)
    \/ ClaimStatement(w)
    \/ \E i \in Items : Claim(w, i)
    \/ ClaimMissed(w)
    \/ StartBatch(w)
    \/ Complete(w)
    \/ Fail(w)
    \/ Reschedule(w)
    \/ RescheduleCommit(w)
    \/ FinishCommit(w)

Next ==
    \/ \E b \in Batches, ds \in SUBSET Deals : Create(b, ds)
    \/ \E b \in Batches : CancelStatement(b)
    \/ \E b \in Batches : CancelCommit(b)
    \/ \E w \in Workers : WorkerStep(w)
    \/ \E i \in Items : BecomeDue(i)
    \/ \E i \in Items : LeaseExpires(i)
    \/ \E w \in Workers : StatementFails(w)
    \/ \E S \in SUBSET Workers : WorkersStop(S)

Spec == Init /\ [][Next]_vars

\* Statements return, runs end (the audit has a timeout), a stopped process is
\* started again, and the clock advances.  Nobody is obliged to create or
\* cancel a batch, and nothing obliges a fault to happen.
Fairness ==
    /\ \A w \in Workers : WF_vars(WorkerStep(w))
    /\ \A b \in Batches : WF_vars(CancelCommit(b))
    /\ \A i \in Items : WF_vars(BecomeDue(i)) /\ WF_vars(LeaseExpires(i))

FairSpec == Spec /\ Fairness
=============================================================================
