------------------------------ MODULE BatchAudit ------------------------------
(***************************************************************************)
(* The audit queue with its audits: the worker loop of BatchQueue, where   *)
(* the run between a claim and its report is the execution of              *)
(* AuditExecution under the key of the claimed item, and where SIGTERM     *)
(* cancels the context of the workers before they end.                     *)
(***************************************************************************)
EXTENDS BatchQueue

CONSTANT ErrorKinds  \* what Bitrix, Ollama and PostgreSQL may fail with

ASSUME ErrorKindsAssumption == ErrorKinds \subseteq {"transient", "permanent"}

VARIABLES assessment, analysis, step, job, result,
          stopping   \* workers whose context is canceled

\* One execution per worker, keyed "batch-item-<id>".
Audit == INSTANCE AuditExecution
            WITH Executors <- Workers, Keys <- Items, NoKey <- NoItem

auditVars    == <<assessment, analysis, step, job, result>>
batchAuditVars == <<vars, auditVars, stopping>>

BatchAuditInit ==
    /\ Init
    /\ Audit!AuditInit
    /\ stopping = {}

-----------------------------------------------------------------------------
\* Claim's second statement, then Processor.Run under the key of the item.
AuditStarts(w) ==
    /\ StartBatch(w)
    /\ Audit!Begin(w, held[w])
    /\ UNCHANGED stopping

\* What a call on the worker's context may fail with.
Kinds(w) == IF w \in stopping THEN {"permanent"} ELSE ErrorKinds

AuditRuns(w) ==
    /\ pc[w] = "running"
    /\ Audit!Run(w, Kinds(w))
    /\ UNCHANGED <<vars, stopping>>

\* The loop's choice among Complete, Reschedule and Fail.  A worker whose
\* context is canceled reports nothing: it returns and leaves its item under
\* lease.  The wrong one (for mutation) takes every answer for a success.
ReportIgnoringErrors(w) == Complete(w)
ReportOf(w) ==
    \/ result[w] = "ok" /\ Complete(w)
    \/ result[w] = "transient" /\ MayRetry(w) /\ Reschedule(w)
    \/ result[w] = "transient" /\ ~MayRetry(w) /\ Fail(w)
    \/ result[w] = "permanent" /\ Fail(w)
AuditReported(w) ==
    /\ w \notin stopping
    /\ Audit!Return(w)
    /\ ReportOf(w)
    /\ UNCHANGED stopping

\* The report fails, or its commit does; the worker goes on.
ReportFails(w) ==
    /\ StatementFails(w)
    /\ step[w] \in {"idle", "done"}
    /\ Audit!Forget({w})
    /\ UNCHANGED stopping

\* SIGTERM reaches a process: the context of its workers is canceled.
Signal(S) ==
    /\ S # {}
    /\ \A w \in S : pc[w] # "down" /\ w \notin stopping
    /\ stopping' = stopping \cup S
    /\ UNCHANGED <<vars, auditVars>>

\* Workers end, at the top of their loop or anywhere when their process dies.
AuditStops(S) ==
    /\ WorkersStop(S)
    /\ Audit!Forget(S)
    /\ stopping' = stopping \ S

\* Every other step of the queue leaves the audits alone; a worker whose
\* context is canceled claims nothing more.
QueueStep ==
    /\ \/ \E b \in Batches, ds \in SUBSET Deals : Create(b, ds)
       \/ \E b \in Batches : CancelStatement(b) \/ CancelCommit(b)
       \/ \E i \in Items : BecomeDue(i) \/ LeaseExpires(i)
       \/ \E w \in Workers :
             \/ RecoverStatement(w)
             \/ RecoverCommit(w)
             \/ w \notin stopping /\ ClaimStatement(w)
             \/ \E i \in Items : Claim(w, i)
             \/ ClaimMissed(w)
             \/ RescheduleCommit(w)
             \/ FinishCommit(w)
    /\ UNCHANGED <<auditVars, stopping>>

BatchAuditNext ==
    \/ QueueStep
    \/ \E w \in Workers : AuditStarts(w) \/ AuditRuns(w) \/ AuditReported(w) \/ ReportFails(w)
    \/ \E S \in SUBSET Workers : Signal(S) \/ AuditStops(S)

BatchAuditSpec == BatchAuditInit /\ [][BatchAuditNext]_batchAuditVars

-----------------------------------------------------------------------------
(* Properties. *)

BatchAuditTypeOK ==
    /\ Audit!AuditTypeOK
    /\ stopping \subseteq Workers

\* An item reported COMPLETED has a completed assessment, whichever run of
\* whichever worker stored it.
CompletedItemsAreAudited ==
    \A i \in Items : item[i] = "COMPLETED" => assessment[i] = "COMPLETED"

\* What the executions keep on their own, two workers with one item after an expired
\* lease among them: the assessment of an item and its analysis agree, ...
RowsAgree == Audit!RowsAgree

\* ... an audit that a worker takes for a success is stored, ...
SuccessIsStored == Audit!SuccessIsStored

\* ... and no retry, stale worker or restart changes a finished one.
FinishedForGood == Audit!FinishedForGood

\* A worker runs the audit of the item it claimed and no other, and it has
\* nothing running when it goes for the next.
RunsItsClaim ==
    \A w \in Workers : /\ (pc[w] = "running") <=> (step[w] # "idle")
                       /\ pc[w] = "running" => job[w] = held[w]

\* An item is audited by one run at a time.
OneRunPerItem ==
    \A v, w \in Workers : v # w /\ job[v] # NoItem => job[v] # job[w]

\* What a worker is about to write is backed by the assessment.
ReportIsBacked ==
    \A w \in Workers : pc[w] = "finishing" /\ outcome[w] = "COMPLETED" =>
        assessment[held[w]] = "COMPLETED"
=============================================================================
