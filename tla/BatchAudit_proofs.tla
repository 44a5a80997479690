--------------------------- MODULE BatchAudit_proofs ---------------------------
(***************************************************************************)
(* Proofs about the queue with its audits: it implements the queue, so all *)
(* that is proved of the queue holds of it, and the result it reports is   *)
(* the one the assessment shows.                                           *)
(***************************************************************************)
EXTENDS BatchAudit, BatchQueue_proofs

LEMMA ReportStep ==
  ASSUME NEW w \in Workers, ReportOf(w)
  PROVE  Complete(w) \/ Reschedule(w) \/ Fail(w)
  BY DEF ReportOf

\* Every step is one of the queue or leaves the queue alone.
LEMMA QueueRefined == [BatchAuditNext]_batchAuditVars => [Next]_vars
<1> SUFFICES ASSUME [BatchAuditNext]_batchAuditVars PROVE [Next]_vars
  OBVIOUS
<1>1. CASE UNCHANGED batchAuditVars
  BY <1>1 DEF batchAuditVars
<1>2. CASE QueueStep
  BY <1>2 DEF QueueStep, Next, WorkerStep
<1>3. ASSUME NEW w \in Workers, AuditStarts(w) PROVE Next
  BY <1>3 DEF AuditStarts, Next, WorkerStep
<1>4. ASSUME NEW w \in Workers, AuditRuns(w) PROVE UNCHANGED vars
  BY <1>4 DEF AuditRuns
<1>5. ASSUME NEW w \in Workers, AuditReported(w) PROVE Next
  BY <1>5, ReportStep DEF AuditReported, Next, WorkerStep
<1>6. ASSUME NEW w \in Workers, ReportFails(w) PROVE Next
  BY <1>6 DEF ReportFails, Next
<1>7. ASSUME NEW S \in SUBSET Workers, Signal(S) PROVE UNCHANGED vars
  BY <1>7 DEF Signal
<1>8. ASSUME NEW S \in SUBSET Workers, AuditStops(S) PROVE Next
  BY <1>8 DEF AuditStops, Next
<1> QED BY <1>1, <1>2, <1>3, <1>4, <1>5, <1>6, <1>7, <1>8 DEF BatchAuditNext

\* The queue with its audits implements the queue: what the worker loop does
\* with the answers of real runs is what BatchQueue lets it do.
THEOREM AuditedQueueImplementsQueue == BatchAuditSpec => Spec
<1>1. BatchAuditInit => Init
  BY DEF BatchAuditInit
<1> QED BY <1>1, QueueRefined, PTL DEF BatchAuditSpec, Spec

-----------------------------------------------------------------------------
(* The composition implements the executions too. *)

\* More kinds of error allow more of a run.
LEMMA RunMonotone ==
  ASSUME NEW x \in Workers, NEW small, NEW large, small \subseteq large, Audit!Run(x, small)
  PROVE  Audit!Run(x, large)
<1>1. CASE Audit!Find(x, small)
  BY <1>1 DEF Audit!Find, Audit!Run
<1>2. CASE Audit!Collect(x, small)
  BY <1>2 DEF Audit!Collect, Audit!Run
<1>3. CASE Audit!Start(x, small)
  BY <1>3 DEF Audit!Start, Audit!Run
<1>4. CASE Audit!Audit(x, small)
  BY <1>4 DEF Audit!Audit, Audit!Run
<1>5. CASE Audit!Complete(x, small)
  BY <1>5 DEF Audit!Complete, Audit!Run
<1>6. CASE Audit!RecordFailure(x) \/ Audit!RecordRefusal(x)
  BY <1>6 DEF Audit!Run
<1> QED BY <1>1, <1>2, <1>3, <1>4, <1>5, <1>6 DEF Audit!Run

\* Workers that end with nothing running leave the executions as they are.
LEMMA ForgetIdle ==
  ASSUME Audit!AuditTypeOK, NEW S \in SUBSET Workers, \A w \in S : step[w] = "idle",
         Audit!Forget(S)
  PROVE  UNCHANGED auditVars
<1>1. \A w \in S : job[w] = NoItem /\ result[w] = "none"
  BY DEF Audit!AuditTypeOK
<1>2. step' = step
  BY DEF Audit!Forget, Audit!AuditTypeOK
<1>3. job' = job
  BY <1>1 DEF Audit!Forget, Audit!AuditTypeOK
<1>4. result' = result
  BY <1>1 DEF Audit!Forget, Audit!AuditTypeOK
<1> QED BY <1>2, <1>3, <1>4 DEF auditVars, Audit!Forget, Audit!rowVars

\* Every step is one of an execution, the end of some, or none of their business.
LEMMA AuditRefined ==
  ASSUME "permanent" \in ErrorKinds, QueueTypeOK, Audit!AuditTypeOK,
         [BatchAuditNext]_batchAuditVars
  PROVE  [Audit!AuditNext]_(Audit!auditVars)
<1> USE DEF Audit!auditVars, Audit!rowVars, Audit!execVars
<1>0. ASSUME UNCHANGED auditVars PROVE UNCHANGED Audit!auditVars
  BY <1>0 DEF auditVars
<1>1. CASE UNCHANGED batchAuditVars
  BY <1>0, <1>1 DEF batchAuditVars
<1>2. CASE QueueStep
  BY <1>0, <1>2 DEF QueueStep
<1>3. ASSUME NEW w \in Workers, AuditStarts(w) PROVE Audit!AuditNext
  <2>1. held[w] \in Items
    BY <1>3 DEF AuditStarts, StartBatch, QueueTypeOK
  <2> QED BY <1>3, <2>1 DEF AuditStarts, Audit!AuditNext
<1>4. ASSUME NEW w \in Workers, AuditRuns(w) PROVE Audit!AuditNext
  <2>1. Kinds(w) \subseteq ErrorKinds
    BY DEF Kinds
  <2>2. Audit!Run(w, ErrorKinds)
    BY <1>4, <2>1, RunMonotone DEF AuditRuns
  <2> QED BY <2>2 DEF Audit!AuditNext
<1>5. ASSUME NEW w \in Workers, AuditReported(w) PROVE Audit!AuditNext
  BY <1>5 DEF AuditReported, Audit!AuditNext
<1>6. ASSUME NEW w \in Workers, ReportFails(w)
      PROVE  Audit!AuditNext \/ UNCHANGED auditVars
  <2>1. CASE step[w] = "done"
    BY <1>6, <2>1 DEF ReportFails, Audit!Return, Audit!AuditNext
  <2>2. CASE step[w] = "idle"
    BY <1>6, <2>2, ForgetIdle DEF ReportFails
  <2> QED BY <1>6, <2>1, <2>2 DEF ReportFails
<1>7. ASSUME NEW S \in SUBSET Workers, Signal(S) PROVE UNCHANGED auditVars
  BY <1>7 DEF Signal
<1>8. ASSUME NEW S \in SUBSET Workers, AuditStops(S)
      PROVE  Audit!AuditNext \/ UNCHANGED auditVars
  <2>1. CASE \E w \in S : step[w] # "idle"
    BY <1>8, <2>1 DEF AuditStops, Audit!Crash, Audit!AuditNext
  <2>2. CASE \A w \in S : step[w] = "idle"
    BY <1>8, <2>2, ForgetIdle DEF AuditStops
  <2> QED BY <2>1, <2>2
<1> QED BY <1>0, <1>1, <1>2, <1>3, <1>4, <1>5, <1>6, <1>7, <1>8 DEF BatchAuditNext

-----------------------------------------------------------------------------
(* The runs. *)

\* What one step of Execute does to the rows of its key.
RowsStep(k) ==
    \/ UNCHANGED Audit!rowVars
    \/ Audit!StartRow(k)
    \/ Audit!Insertable(k) /\ Audit!FinishRow(k, "COMPLETED")
    \/ Audit!Insertable(k) /\ Audit!FinishRow(k, "FAILED")

\* And to its own answer: none while it runs, "ok" only with the row to show.
AnswerStep(x) ==
    /\ UNCHANGED job
    /\ step' \in [Workers -> Audit!Steps] /\ result' \in [Workers -> Audit!Results]
    /\ \A y \in Workers \ {x} : step'[y] = step[y] /\ result'[y] = result[y]
    /\ step[x] # "idle" /\ step'[x] # "idle"
    /\ (result'[x] = "none") <=> (step'[x] \notin {"refusing", "failing", "done"})
    /\ result'[x] = "ok" => assessment'[job[x]] = "COMPLETED"

LEMMA RunStep ==
  ASSUME Audit!AuditTypeOK, Audit!RowsAgree, Audit!SuccessIsStored, NEW x \in Workers,
         NEW kinds \in SUBSET {"transient", "permanent"}, Audit!Run(x, kinds)
  PROVE  job[x] \in Items /\ RowsStep(job[x]) /\ AnswerStep(x)
<1> USE WorkersAssumption, ErrorKindsAssumption
        DEF Audit!AuditTypeOK, Audit!Steps, Audit!Results, Audit!GoTo, Audit!GoWith, RowsStep,
            AnswerStep, Audit!rowVars
<1>1. CASE Audit!Find(x, kinds)
  BY <1>1 DEF Audit!Find, Audit!Reusable
<1>2. CASE Audit!Collect(x, kinds)
  BY <1>2 DEF Audit!Collect
<1>3. CASE Audit!Start(x, kinds)
  BY <1>3 DEF Audit!Start
<1>4. CASE Audit!Audit(x, kinds)
  BY <1>4 DEF Audit!Audit
<1>5. CASE Audit!Complete(x, kinds)
  <2>1. CASE Audit!Insertable(job[x])
    BY <1>5, <2>1 DEF Audit!Complete, Audit!FinishRow
  <2>2. CASE ~Audit!Insertable(job[x])
    BY <1>5, <2>2 DEF Audit!Complete
  <2> QED BY <2>1, <2>2
<1>6. CASE Audit!RecordFailure(x)
  BY <1>6 DEF Audit!RecordFailure, Audit!RowsAgree, Audit!SuccessIsStored,
              Audit!Insertable, Audit!FinishRow
<1>7. CASE Audit!RecordRefusal(x)
  BY <1>7 DEF Audit!RecordRefusal, Audit!RowsAgree, Audit!SuccessIsStored,
              Audit!Insertable, Audit!FinishRow
<1> QED BY <1>1, <1>2, <1>3, <1>4, <1>5, <1>6, <1>7 DEF Audit!Run

\* The rows stay in their types and agree, and a finished one stays as it is.
FinishedStay ==
    \A k \in Items : assessment[k] \in {"COMPLETED", "FAILED"} =>
        UNCHANGED <<assessment[k], analysis[k]>>

AuditRowsTypeOK ==
    /\ assessment \in [Items -> {"NONE", "PROCESSING", "COMPLETED", "FAILED"}]
    /\ analysis \in [Items -> {"NONE", "COMPLETED", "FAILED"}]

LEMMA RowsKept ==
  ASSUME AuditRowsTypeOK, Audit!RowsAgree, NEW k \in Items, RowsStep(k)
  PROVE  AuditRowsTypeOK' /\ Audit!RowsAgree' /\ FinishedStay
<1> USE DEF AuditRowsTypeOK, Audit!RowsAgree, FinishedStay
<1>1. CASE UNCHANGED Audit!rowVars
  BY <1>1 DEF Audit!rowVars
<1>2. CASE Audit!StartRow(k)
  BY <1>2 DEF Audit!StartRow
<1>3. CASE Audit!Insertable(k) /\ Audit!FinishRow(k, "COMPLETED")
  BY <1>3 DEF Audit!Insertable, Audit!FinishRow
<1>4. CASE Audit!Insertable(k) /\ Audit!FinishRow(k, "FAILED")
  BY <1>4 DEF Audit!Insertable, Audit!FinishRow
<1> QED BY <1>1, <1>2, <1>3, <1>4 DEF RowsStep

ExecutionInv == Audit!AuditTypeOK /\ Audit!RowsAgree /\ Audit!SuccessIsStored

LEMMA RunKeepsRows ==
  ASSUME ExecutionInv, NEW x \in Workers,
         NEW kinds \in SUBSET {"transient", "permanent"}, Audit!Run(x, kinds)
  PROVE  ExecutionInv' /\ FinishedStay /\ AnswerStep(x)
<1>1. job[x] \in Items /\ RowsStep(job[x]) /\ AnswerStep(x)
  BY RunStep DEF ExecutionInv
<1>2. AuditRowsTypeOK' /\ Audit!RowsAgree' /\ FinishedStay
  BY <1>1, RowsKept DEF ExecutionInv, Audit!AuditTypeOK, AuditRowsTypeOK
<1>3. Audit!AuditTypeOK'
  BY <1>1, <1>2 DEF ExecutionInv, Audit!AuditTypeOK, AuditRowsTypeOK, AnswerStep
<1>4. Audit!SuccessIsStored'
  <2> SUFFICES ASSUME NEW y \in Workers, result'[y] = "ok"
               PROVE  assessment'[job'[y]] = "COMPLETED"
    BY DEF Audit!SuccessIsStored
  <2>1. CASE y = x
    BY <1>1, <2>1 DEF AnswerStep
  <2>2. CASE y # x
    <3>1. result[y] = "ok" /\ job'[y] = job[y]
      BY <1>1, <2>2 DEF AnswerStep
    <3>2. job[y] \in Items /\ assessment[job[y]] = "COMPLETED"
      BY <3>1 DEF ExecutionInv, Audit!AuditTypeOK, Audit!SuccessIsStored
    <3> QED BY <1>2, <3>1, <3>2 DEF FinishedStay
  <2> QED BY <2>1, <2>2
<1> QED BY <1>1, <1>2, <1>3, <1>4 DEF ExecutionInv

\* Beginning and forgetting a run touch no row.
LEMMA BeginKeepsRows ==
  ASSUME ExecutionInv, NEW w \in Workers, NEW i \in Items, Audit!Begin(w, i)
  PROVE  ExecutionInv'
<1> QED
  BY WorkersAssumption
  DEF ExecutionInv, Audit!AuditTypeOK, Audit!Steps, Audit!Results, Audit!RowsAgree,
      Audit!SuccessIsStored, Audit!rowVars, Audit!Begin

LEMMA ForgetKeepsRows ==
  ASSUME ExecutionInv, NEW S \in SUBSET Workers, Audit!Forget(S)
  PROVE  ExecutionInv'
<1> QED
  BY WorkersAssumption
  DEF ExecutionInv, Audit!AuditTypeOK, Audit!Steps, Audit!Results, Audit!RowsAgree,
      Audit!SuccessIsStored, Audit!rowVars, Audit!Forget

BatchAuditInv ==
    /\ ExecutionInv
    /\ RunsItsClaim
    /\ ReportIsBacked
    /\ CompletedItemsAreAudited

\* What a step of the queue alone keeps: the running workers and their claims,
\* the reports under way, and where COMPLETED items come from.
ClaimsKept ==
    /\ \A w \in Workers : (pc'[w] = "running") <=> (pc[w] = "running")
    /\ \A w \in Workers : pc[w] = "running" => held'[w] = held[w]
    /\ \A w \in Workers : pc'[w] = "finishing" =>
          pc[w] = "finishing" /\ held'[w] = held[w] /\ outcome'[w] = outcome[w]
    /\ \A i \in Items : item'[i] = "COMPLETED" =>
          \/ item[i] = "COMPLETED"
          \/ \E w \in Workers : pc[w] = "finishing" /\ held[w] = i /\ outcome[w] = "COMPLETED"

LEMMA QueueStepKeepsClaims ==
  ASSUME QueueTypeOK, QueueStep
  PROVE  ClaimsKept
<1> USE DEF QueueTypeOK, ClaimsKept, workerVars, tableVars
<1>1. ASSUME NEW b \in Batches, NEW ds \in SUBSET Deals, Create(b, ds) PROVE ClaimsKept
  BY <1>1 DEF Create, Open
<1>2. ASSUME NEW b \in Batches, CancelStatement(b) PROVE ClaimsKept
  BY <1>2 DEF CancelStatement
<1>3. ASSUME NEW b \in Batches, CancelCommit(b) PROVE ClaimsKept
  BY <1>3 DEF CancelCommit, Cancel
<1>4. ASSUME NEW i \in Items, BecomeDue(i) \/ LeaseExpires(i) PROVE ClaimsKept
  BY <1>4 DEF BecomeDue, LeaseExpires
<1>5. ASSUME NEW w \in Workers, RecoverStatement(w) \/ ClaimStatement(w)
      PROVE  ClaimsKept
  BY <1>5 DEF RecoverStatement, ClaimStatement
<1>6. ASSUME NEW w \in Workers, RecoverCommit(w) \/ RescheduleCommit(w)
      PROVE  ClaimsKept
  <2>1. pc[w] \in {"recovering", "rescheduling"}
    BY <1>6 DEF RecoverCommit, RescheduleCommit
  <2>2. Release(w) /\ \A i \in Items : item'[i] \in {item[i], "CANCELED", "PENDING"}
    BY <1>6 DEF RecoverCommit, RescheduleCommit, RequeueCommit
  <2> QED BY <2>1, <2>2 DEF Release
<1>7. ASSUME NEW w \in Workers, NEW i \in Items, Claim(w, i) PROVE ClaimsKept
  BY <1>7 DEF Claim
<1>8. ASSUME NEW w \in Workers, ClaimMissed(w) PROVE ClaimsKept
  BY <1>8 DEF ClaimMissed, Release
<1>9. ASSUME NEW w \in Workers, FinishCommit(w) PROVE ClaimsKept
  BY <1>9 DEF FinishCommit, Release
<1> QED BY <1>1, <1>2, <1>3, <1>4, <1>5, <1>6, <1>7, <1>8, <1>9 DEF QueueStep

LEMMA BatchAuditStep ==
  ASSUME QueueTypeOK, BatchAuditInv, [BatchAuditNext]_batchAuditVars
  PROVE  BatchAuditInv'
<1> USE DEF RunsItsClaim, ReportIsBacked, CompletedItemsAreAudited
<1>0. ASSUME UNCHANGED auditVars PROVE ExecutionInv'
  BY <1>0 DEF auditVars, BatchAuditInv, ExecutionInv, Audit!AuditTypeOK,
              Audit!RowsAgree, Audit!SuccessIsStored
<1>1. CASE UNCHANGED batchAuditVars
  BY <1>0, <1>1 DEF batchAuditVars, vars, tableVars, workerVars, auditVars, BatchAuditInv
<1>2. CASE QueueStep
  <2>1. ClaimsKept /\ UNCHANGED auditVars
    BY <1>2, QueueStepKeepsClaims DEF QueueStep
  <2>2. RunsItsClaim' /\ ReportIsBacked'
    BY <2>1 DEF ClaimsKept, auditVars, BatchAuditInv
  <2>3. CompletedItemsAreAudited'
    BY <2>1 DEF ClaimsKept, auditVars, BatchAuditInv
  <2> QED BY <1>0, <2>1, <2>2, <2>3 DEF BatchAuditInv
<1>3. ASSUME NEW w \in Workers, AuditStarts(w) PROVE BatchAuditInv'
  <2>1. held[w] \in Items
    BY <1>3 DEF AuditStarts, StartBatch, QueueTypeOK
  <2>2. ExecutionInv' /\ UNCHANGED assessment
    BY <1>3, <2>1, BeginKeepsRows
    DEF AuditStarts, Audit!Begin, Audit!rowVars, BatchAuditInv
  <2>3. /\ pc[w] = "claimed" /\ pc' = [pc EXCEPT ![w] = "running"] /\ UNCHANGED <<held, outcome>>
        /\ item' = item
    BY <1>3 DEF AuditStarts, StartBatch, MarkStarted
  <2>4. step' = [step EXCEPT ![w] = "finding"] /\ job' = [job EXCEPT ![w] = held[w]]
    BY <1>3 DEF AuditStarts, Audit!Begin
  <2>5. RunsItsClaim'
    BY <2>3, <2>4 DEF BatchAuditInv, QueueTypeOK, ExecutionInv, Audit!AuditTypeOK
  <2>6. ReportIsBacked' /\ CompletedItemsAreAudited'
    BY <2>2, <2>3 DEF BatchAuditInv, QueueTypeOK
  <2> QED BY <2>2, <2>5, <2>6 DEF BatchAuditInv
<1>4. ASSUME NEW w \in Workers, AuditRuns(w) PROVE BatchAuditInv'
  <2>1. Kinds(w) \in SUBSET {"transient", "permanent"}
    BY ErrorKindsAssumption DEF Kinds
  <2>2. ExecutionInv' /\ FinishedStay /\ AnswerStep(w) /\ UNCHANGED vars
    BY <1>4, <2>1, RunKeepsRows DEF AuditRuns, BatchAuditInv
  <2>3. RunsItsClaim'
    BY <1>4, <2>2 DEF AuditRuns, AnswerStep, BatchAuditInv, vars, workerVars
  <2>4. ReportIsBacked' /\ CompletedItemsAreAudited'
    BY <2>2 DEF FinishedStay, BatchAuditInv, vars, tableVars, workerVars, QueueTypeOK
  <2> QED BY <2>2, <2>3, <2>4 DEF BatchAuditInv
<1>5. ASSUME NEW w \in Workers, AuditReported(w) PROVE BatchAuditInv'
  <2>1. /\ pc[w] = "running" /\ held[w] \in Items /\ job[w] = held[w] /\ step[w] # "idle"
        /\ UNCHANGED <<item, assessment>>
    BY <1>5 DEF AuditReported, ReportOf, Complete, Fail, Reschedule, FinishStatements,
                Audit!Return, Audit!Forget, Audit!rowVars, tableVars, BatchAuditInv, QueueTypeOK
  <2>2. ExecutionInv' /\ step' = [x \in Workers |-> IF x = w THEN "idle" ELSE step[x]]
        /\ job' = [x \in Workers |-> IF x = w THEN NoItem ELSE job[x]]
    BY <1>5, <2>1, ForgetKeepsRows DEF AuditReported, Audit!Return, Audit!Forget, BatchAuditInv
  <2>3. \A v \in Workers \ {w} :
           pc'[v] = pc[v] /\ held'[v] = held[v] /\ outcome'[v] = outcome[v]
    BY <1>5 DEF AuditReported, ReportOf, Complete, Fail, Reschedule, FinishStatements,
                Release, QueueTypeOK
  <2>4. pc'[w] # "running"
    BY <1>5 DEF AuditReported, ReportOf, Complete, Fail, Reschedule, FinishStatements,
                Release, QueueTypeOK
  <2>5. pc'[w] = "finishing" /\ outcome'[w] = "COMPLETED" =>
           result[w] = "ok" /\ held'[w] = held[w]
    <3>1. CASE result[w] = "ok"
      BY <1>5, <3>1 DEF AuditReported, ReportOf, Complete, FinishStatements, Release, QueueTypeOK
    <3>2. CASE Fail(w)
      BY <3>2 DEF Fail, FinishStatements, Release, QueueTypeOK
    <3>3. CASE Reschedule(w)
      BY <3>3 DEF Reschedule, Release, QueueTypeOK
    <3> QED BY <1>5, <3>1, <3>2, <3>3 DEF AuditReported, ReportOf
  <2>6. result[w] = "ok" => assessment[held[w]] = "COMPLETED"
    BY <2>1 DEF BatchAuditInv, ExecutionInv, Audit!SuccessIsStored
  <2>7. RunsItsClaim'
    BY <2>2, <2>3, <2>4 DEF BatchAuditInv
  <2>8. ReportIsBacked' /\ CompletedItemsAreAudited'
    BY <2>1, <2>3, <2>5, <2>6 DEF BatchAuditInv
  <2> QED BY <2>2, <2>7, <2>8 DEF BatchAuditInv
<1>6. ASSUME NEW w \in Workers, ReportFails(w) PROVE BatchAuditInv'
  <2>1. /\ held[w] \in Items /\ {w} \in SUBSET Workers
        /\ UNCHANGED <<item, assessment>>
    BY <1>6 DEF ReportFails, StatementFails, Audit!Forget, Audit!rowVars, tableVars, QueueTypeOK
  <2>2. ExecutionInv' /\ step' = [x \in Workers |-> IF x = w THEN "idle" ELSE step[x]]
        /\ job' = [x \in Workers |-> IF x = w THEN NoItem ELSE job[x]]
    BY <1>6, <2>1, ForgetKeepsRows DEF ReportFails, Audit!Forget, BatchAuditInv
  <2>3. pc'[w] = "idle" /\ \A v \in Workers \ {w} :
           pc'[v] = pc[v] /\ held'[v] = held[v] /\ outcome'[v] = outcome[v]
    BY <1>6 DEF ReportFails, StatementFails, Release, QueueTypeOK
  <2>4. RunsItsClaim' /\ ReportIsBacked' /\ CompletedItemsAreAudited'
    BY <2>1, <2>2, <2>3 DEF BatchAuditInv
  <2> QED BY <2>2, <2>4 DEF BatchAuditInv
<1>7. ASSUME NEW S \in SUBSET Workers, Signal(S) PROVE BatchAuditInv'
  BY <1>0, <1>7 DEF Signal, vars, tableVars, workerVars, auditVars, BatchAuditInv
<1>8. ASSUME NEW S \in SUBSET Workers, AuditStops(S) PROVE BatchAuditInv'
  <2>1. UNCHANGED <<item, assessment>>
    BY <1>8 DEF AuditStops, WorkersStop, Audit!Forget, Audit!rowVars, tableVars
  <2>2. \A w \in Workers :
           IF w \in S THEN step'[w] = "idle" /\ job'[w] = NoItem /\ pc'[w] = "down"
           ELSE /\ step'[w] = step[w] /\ job'[w] = job[w] /\ pc'[w] = pc[w]
                /\ held'[w] = held[w] /\ outcome'[w] = outcome[w]
    BY <1>8 DEF AuditStops, WorkersStop, Audit!Forget
  <2>3. ExecutionInv'
    BY <1>8, ForgetKeepsRows DEF AuditStops, BatchAuditInv
  <2>4. RunsItsClaim' /\ ReportIsBacked' /\ CompletedItemsAreAudited'
    BY <2>1, <2>2 DEF BatchAuditInv
  <2> QED BY <2>3, <2>4 DEF BatchAuditInv
<1> QED BY <1>1, <1>2, <1>3, <1>4, <1>5, <1>6, <1>7, <1>8 DEF BatchAuditNext

LEMMA BatchAuditInitial == BatchAuditInit => BatchAuditInv
<1> SUFFICES ASSUME BatchAuditInit PROVE BatchAuditInv
  OBVIOUS
<1>1. ExecutionInv
  BY WorkersAssumption
  DEF BatchAuditInit, Audit!AuditInit, ExecutionInv, Audit!AuditTypeOK, Audit!Steps,
      Audit!Results, Audit!RowsAgree, Audit!SuccessIsStored
<1>2. RunsItsClaim /\ ReportIsBacked /\ CompletedItemsAreAudited
  BY DEF BatchAuditInit, Init, LifecycleInit, Audit!AuditInit, RunsItsClaim,
         ReportIsBacked, CompletedItemsAreAudited
<1> QED BY <1>1, <1>2 DEF BatchAuditInv

LEMMA BatchAuditInvariant == BatchAuditSpec => [](QueueTypeOK /\ BatchAuditInv)
<1>1. QueueTypeOK /\ BatchAuditInv /\ [BatchAuditNext]_batchAuditVars => BatchAuditInv'
  BY BatchAuditStep
<1> QED BY <1>1, BatchAuditInitial, AuditedQueueImplementsQueue, TypeCorrect, PTL
        DEF BatchAuditSpec

-----------------------------------------------------------------------------
\* The queue with its audits implements the executions as they are specified alone: the
\* workers start, repeat, cancel and abandon them in no way AuditExecution does not know.
\* A call on a canceled context fails for good, so failures of this kind must be among those.
THEOREM AuditedQueueRunsAudits ==
  "permanent" \in ErrorKinds => (BatchAuditSpec => Audit!AuditSpec)
<1> SUFFICES ASSUME "permanent" \in ErrorKinds PROVE BatchAuditSpec => Audit!AuditSpec
  OBVIOUS
<1>1. BatchAuditInit => Audit!AuditInit
  BY DEF BatchAuditInit
<1>2. QueueTypeOK /\ BatchAuditInv /\ [BatchAuditNext]_batchAuditVars
      => [Audit!AuditNext]_(Audit!auditVars)
  BY AuditRefined DEF BatchAuditInv, ExecutionInv
<1> QED BY <1>1, <1>2, BatchAuditInvariant, PTL DEF BatchAuditSpec, Audit!AuditSpec

\* An item reported COMPLETED has a completed assessment, whatever runs of it
\* failed, overlapped or were cut off before.
THEOREM CompletedMeansAudited == BatchAuditSpec => []CompletedItemsAreAudited
<1>1. BatchAuditInv => CompletedItemsAreAudited
  BY DEF BatchAuditInv
<1> QED BY <1>1, BatchAuditInvariant, PTL

\* In the composition as on their own: the assessment and the analysis of an item agree,
\* whatever workers of it overlap.
THEOREM AuditedRowsAgree == BatchAuditSpec => []RowsAgree
<1>1. BatchAuditInv => RowsAgree
  BY DEF BatchAuditInv, ExecutionInv, Audit!RowsAgree, RowsAgree, Audit!RowsAgree
<1> QED BY <1>1, BatchAuditInvariant, PTL

\* A worker takes only a stored audit for a success.
THEOREM AuditedSuccessIsStored == BatchAuditSpec => []SuccessIsStored
<1>1. BatchAuditInv => SuccessIsStored
  BY DEF BatchAuditInv, ExecutionInv, Audit!SuccessIsStored, SuccessIsStored,
         Audit!SuccessIsStored
<1> QED BY <1>1, BatchAuditInvariant, PTL

\* Only the run of an audit writes its rows, and never those of a finished one.
LEMMA FinishedStayStep ==
  ASSUME QueueTypeOK, BatchAuditInv, [BatchAuditNext]_batchAuditVars
  PROVE  FinishedStay
<1>0. ASSUME UNCHANGED <<assessment, analysis>> PROVE FinishedStay
  BY <1>0 DEF FinishedStay
<1>1. CASE UNCHANGED batchAuditVars
  BY <1>0, <1>1 DEF batchAuditVars, auditVars
<1>2. CASE QueueStep
  BY <1>0, <1>2 DEF QueueStep, auditVars
<1>3. ASSUME NEW w \in Workers, AuditStarts(w) PROVE FinishedStay
  BY <1>0, <1>3 DEF AuditStarts, Audit!Begin, Audit!rowVars
<1>4. ASSUME NEW w \in Workers, AuditRuns(w) PROVE FinishedStay
  <2>1. Kinds(w) \in SUBSET {"transient", "permanent"}
    BY ErrorKindsAssumption DEF Kinds
  <2> QED BY <1>4, <2>1, RunKeepsRows DEF AuditRuns, BatchAuditInv
<1>5. ASSUME NEW w \in Workers, AuditReported(w) PROVE FinishedStay
  BY <1>0, <1>5 DEF AuditReported, Audit!Return, Audit!Forget, Audit!rowVars
<1>6. ASSUME NEW w \in Workers, ReportFails(w) PROVE FinishedStay
  BY <1>0, <1>6 DEF ReportFails, Audit!Forget, Audit!rowVars
<1>7. ASSUME NEW S \in SUBSET Workers, Signal(S) PROVE FinishedStay
  BY <1>0, <1>7 DEF Signal, auditVars
<1>8. ASSUME NEW S \in SUBSET Workers, AuditStops(S) PROVE FinishedStay
  BY <1>0, <1>8 DEF AuditStops, Audit!Forget, Audit!rowVars
<1> QED BY <1>1, <1>2, <1>3, <1>4, <1>5, <1>6, <1>7, <1>8 DEF BatchAuditNext

\* No retry, stale worker or restart changes a finished audit.
THEOREM AuditedIsFinal == BatchAuditSpec => FinishedForGood
<1>1. QueueTypeOK /\ BatchAuditInv /\ [BatchAuditNext]_batchAuditVars
      => [\A k \in Items : assessment[k] \in {"COMPLETED", "FAILED"} =>
             UNCHANGED <<assessment[k], analysis[k]>>]_(Audit!auditVars)
  BY FinishedStayStep DEF FinishedStay
<1> QED BY <1>1, BatchAuditInvariant, PTL
        DEF BatchAuditSpec, FinishedForGood, Audit!FinishedForGood

\* Once a failure is recorded under the key of an item, transient or not, the item never
\* becomes COMPLETED, however often it is retried and recovered.
THEOREM RecordedFailureIsFinal ==
    ASSUME NEW i \in Items
    PROVE  BatchAuditSpec => [](assessment[i] = "FAILED" => [](item[i] # "COMPLETED"))
<1>1. QueueTypeOK /\ BatchAuditInv /\ [BatchAuditNext]_batchAuditVars
      => (assessment[i] = "FAILED" => (assessment[i] = "FAILED")')
  BY FinishedStayStep DEF FinishedStay
<1>2. CompletedItemsAreAudited => (assessment[i] = "FAILED" => item[i] # "COMPLETED")
  BY DEF CompletedItemsAreAudited
<1> QED BY <1>1, <1>2, BatchAuditInvariant, CompletedMeansAudited, PTL DEF BatchAuditSpec

\* With a lease that outlasts the run, no two runs audit the same item at once.
THEOREM RunsDoNotOverlap == LeaseCoversRun => (BatchAuditSpec => []OneRunPerItem)
<1> SUFFICES ASSUME LeaseCoversRun PROVE BatchAuditSpec => []OneRunPerItem
  OBVIOUS
<1>1. QueueTypeOK /\ BatchAuditInv /\ ClaimsAreExclusive => OneRunPerItem
  BY DEF BatchAuditInv, RunsItsClaim, ClaimsAreExclusive, OneRunPerItem, QueueTypeOK,
         ExecutionInv, Audit!AuditTypeOK
<1> QED BY <1>1, BatchAuditInvariant, AuditedQueueImplementsQueue, NoDoubleAudit, PTL
=============================================================================
