---------------------------- MODULE AuditExecution ----------------------------
(***************************************************************************)
(* One audit of one deal under an execution key                            *)
(* (conversation/application/sync_analysis.go, Execute), on the two tables *)
(* it finishes together: deal_assessments (unique execution_key) and       *)
(* conversation_analyses (unique assessment_id).                           *)
(*                                                                         *)
(* An error is what Classify makes of it: "transient" is retried,          *)
(* "permanent" is not.  The deal and message upserts of the collection are *)
(* idempotent and are left out.                                            *)
(***************************************************************************)

CONSTANTS Executors,   \* goroutines that run audits
          Keys,        \* execution keys
          NoKey,       \* none of them: an executor without an audit
          ErrorKinds   \* what Bitrix, Ollama and PostgreSQL may fail with, of these two

VARIABLES
    assessment,  \* assessment[k] : deal_assessments.status, "NONE" without a row
    analysis,    \* analysis[k]   : conversation_analyses.status of that row
    step,        \* step[x]       : where Execute is
    job,         \* job[x]        : its execution key
    result       \* result[x]     : "ok" or the kind of error it will return

rowVars  == <<assessment, analysis>>
execVars == <<step, job, result>>
auditVars == <<rowVars, execVars>>

Steps   == {"idle", "finding", "collecting", "starting", "auditing", "refusing",
            "completing", "failing", "done"}
Results == {"none", "ok", "transient", "permanent"}

AuditTypeOK ==
    /\ assessment \in [Keys -> {"NONE", "PROCESSING", "COMPLETED", "FAILED"}]
    /\ analysis \in [Keys -> {"NONE", "COMPLETED", "FAILED"}]
    /\ step \in [Executors -> Steps]
    /\ job \in [Executors -> Keys \cup {NoKey}]
    /\ result \in [Executors -> Results]
    /\ \A x \in Executors : (job[x] = NoKey) <=> (step[x] = "idle")
    /\ \A x \in Executors :
          (result[x] = "none") <=> (step[x] \notin {"refusing", "failing", "done"})

AuditInit ==
    /\ assessment = [k \in Keys |-> "NONE"]
    /\ analysis = [k \in Keys |-> "NONE"]
    /\ step = [x \in Executors |-> "idle"]
    /\ job = [x \in Executors |-> NoKey]
    /\ result = [x \in Executors |-> "none"]

-----------------------------------------------------------------------------
(* Helpers. *)

GoTo(x, s) == step' = [step EXCEPT ![x] = s] /\ UNCHANGED <<job, result>>

\* From s on, the executor will report r.
GoWith(x, s, r) ==
    /\ step' = [step EXCEPT ![x] = s]
    /\ result' = [result EXCEPT ![x] = r]
    /\ UNCHANGED job

\* The INSERT of finish is refused by the unique index on assessment_id when the
\* row has an analysis already.  The wrong one (for mutation) has no index.
InsertsAlways(k) == TRUE
Insertable(k) == analysis[k] = "NONE"

\* AssessmentRepository.finish: the analysis and the status of the assessment,
\* in one transaction.  The wrong one (for mutation) updates the assessment only.
FinishRowHalf(k, status) ==
    /\ assessment' = [assessment EXCEPT ![k] = status]
    /\ UNCHANGED analysis
FinishRow(k, status) ==
    /\ analysis' = [analysis EXCEPT ![k] = status]
    /\ assessment' = [assessment EXCEPT ![k] = status]

\* INSERT ... ON CONFLICT (execution_key) DO UPDATE SET execution_key: a row that
\* exists is returned as it is.  The wrong one (for mutation) resets it.
StartRowAgain(k) ==
    /\ assessment' = [assessment EXCEPT ![k] = "PROCESSING"]
    /\ UNCHANGED analysis
StartRow(k) ==
    /\ assessment' = [assessment EXCEPT ![k] = IF @ = "NONE" THEN "PROCESSING" ELSE @]
    /\ UNCHANGED analysis

-----------------------------------------------------------------------------
(* Execute, up to its answer.  kinds: what a call on the run's context may     *)
(* fail with at this moment.                                                   *)

Begin(x, k) ==
    /\ step[x] = "idle"
    /\ step' = [step EXCEPT ![x] = "finding"]
    /\ job' = [job EXCEPT ![x] = k]
    /\ UNCHANGED <<rowVars, result>>

\* FindExecution: a completed assessment is reused.  Any other answer, the
\* failure of the query included, means a full audit.  The wrong Reusable (for
\* mutation) takes any finished assessment.
ReusableWhenFinished(k) == assessment[k] \in {"COMPLETED", "FAILED"}
Reusable(k) == assessment[k] = "COMPLETED"
Find(x, kinds) ==
    /\ step[x] = "finding"
    /\ \/ Reusable(job[x]) /\ GoWith(x, "done", "ok")
       \/ (~Reusable(job[x]) \/ kinds # {}) /\ GoTo(x, "collecting")
    /\ UNCHANGED rowVars

\* Deal, upsert, messages, upsert: the first error ends the run, no row touched.
Collect(x, kinds) ==
    /\ step[x] = "collecting"
    /\ \/ GoTo(x, "starting")
       \/ \E e \in kinds : GoWith(x, "done", e)
    /\ UNCHANGED rowVars

\* StartTraceExecution.  Its commit may have happened although it reports an error.
Start(x, kinds) ==
    /\ step[x] = "starting"
    /\ \/ StartRow(job[x]) /\ GoTo(x, "auditing")
       \/ \E e \in kinds : GoWith(x, "done", e) /\ (StartRow(job[x]) \/ UNCHANGED rowVars)

\* The rules, then ExecuteCollected (Ollama): the analysis is ready, or it has
\* failed and is about to be recorded as FAILED.
Audit(x, kinds) ==
    /\ step[x] = "auditing"
    /\ \/ GoTo(x, "completing")
       \/ \E e \in kinds : GoWith(x, "failing", e)
       \/ "permanent" \in ErrorKinds /\ GoWith(x, "refusing", "permanent")
    /\ UNCHANGED rowVars

\* Complete: stored; or refused by the row of an earlier run, an error Classify
\* knows nothing of; or failed, before or after its commit.
Complete(x, kinds) ==
    /\ step[x] = "completing"
    /\ IF Insertable(job[x])
       THEN \/ FinishRow(job[x], "COMPLETED") /\ GoWith(x, "done", "ok")
            \/ \E e \in kinds :
                  /\ GoWith(x, "failing", e)
                  /\ FinishRow(job[x], "COMPLETED") \/ UNCHANGED rowVars
       ELSE \E e \in kinds \cup {"permanent"} : GoWith(x, "failing", e) /\ UNCHANGED rowVars

\* Fail, on a context of its own: the failure is recorded; or refused, which can
\* hide a transient cause; or failed itself, and then its error decides.
RecordFailure(x) ==
    /\ step[x] = "failing"
    /\ \/ /\ Insertable(job[x])
          /\ FinishRow(job[x], "FAILED")
          /\ \E e \in ErrorKinds \cup {result[x]} : GoWith(x, "done", e)
       \/ /\ ~Insertable(job[x])
          /\ UNCHANGED rowVars
          /\ \E e \in ErrorKinds \cup {result[x], "permanent"} : GoWith(x, "done", e)
       \/ /\ UNCHANGED rowVars
          /\ \E e \in ErrorKinds : GoWith(x, "done", e)

\* The same for a rules error, except that what Fail answers is ignored.
RecordRefusal(x) ==
    /\ step[x] = "refusing"
    /\ \/ Insertable(job[x]) /\ FinishRow(job[x], "FAILED")
       \/ (~Insertable(job[x]) \/ ErrorKinds # {}) /\ UNCHANGED rowVars
    /\ GoTo(x, "done")

\* One step of Execute.
Run(x, kinds) ==
    \/ Find(x, kinds)
    \/ Collect(x, kinds)
    \/ Start(x, kinds)
    \/ Audit(x, kinds)
    \/ Complete(x, kinds)
    \/ RecordFailure(x)
    \/ RecordRefusal(x)

\* The executor is free again.  The wrong one (for mutation) keeps the answer.
ForgetKeepingResult(S) ==
    /\ step' = [x \in Executors |-> IF x \in S THEN "idle" ELSE step[x]]
    /\ job' = [x \in Executors |-> IF x \in S THEN NoKey ELSE job[x]]
    /\ UNCHANGED <<rowVars, result>>
Forget(S) ==
    /\ step' = [x \in Executors |-> IF x \in S THEN "idle" ELSE step[x]]
    /\ job' = [x \in Executors |-> IF x \in S THEN NoKey ELSE job[x]]
    /\ result' = [x \in Executors |-> IF x \in S THEN "none" ELSE result[x]]
    /\ UNCHANGED rowVars

\* The caller has the answer.
Return(x) == step[x] = "done" /\ Forget({x})

\* A process dies with its executors; open transactions are rolled back.
Crash(S) == (\E x \in S : step[x] # "idle") /\ Forget(S)

AuditNext ==
    \/ \E x \in Executors :
          \/ \E k \in Keys : Begin(x, k)
          \/ Run(x, ErrorKinds)
          \/ Return(x)
    \/ \E S \in SUBSET Executors : Crash(S)

AuditSpec == AuditInit /\ [][AuditNext]_auditVars

-----------------------------------------------------------------------------
(* Properties. *)

\* The assessment and its analysis agree at every moment, whatever transaction
\* of which run failed or lost its answer: finish writes both or none.
RowsAgree ==
    \A k \in Keys :
        analysis[k] = IF assessment[k] \in {"COMPLETED", "FAILED"}
                      THEN assessment[k] ELSE "NONE"

\* A run that reports success, its own or one it reuses, has a completed
\* assessment behind it.
SuccessIsStored ==
    \A x \in Executors : result[x] = "ok" => assessment[job[x]] = "COMPLETED"

\* A finished assessment never changes again, however many runs of its key
\* overlap, crash or retry.
FinishedForGood ==
    [][\A k \in Keys : assessment[k] \in {"COMPLETED", "FAILED"} =>
          UNCHANGED <<assessment[k], analysis[k]>>]_auditVars

\* A retried audit can still succeed: once its analysis is ready, no earlier
\* run of the key has left a failure that refuses it.
RetryCanSucceed ==
    \A x \in Executors : step[x] = "completing" => analysis[job[x]] # "FAILED"
=============================================================================
