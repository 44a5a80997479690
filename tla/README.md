# auditor-ia: verification project

TLA+ models of the parts of auditor-ia where concurrency, failure and time
decide whether the program is right, the TLC configurations that check them on
small instances, and TLAPS proofs of their main theorems for every instance.
`src/` below is the repository; `PROJECT.json` maps every definition to the
lines it models and lists runs, mutants, hazards, findings and theorems.

    tlc -workers 2 -config BatchQueue_stale.cfg MCBatchQueue.tla    # one run
    tlapm BatchQueue_proofs.tla                                     # one proof

## 1. Inventory

auditor-ia audits the deals of a Bitrix24 CRM: it collects a deal, its timeline
and its Open Lines conversation, lets a local model (Ollama) assess the
conversation, checks the deal against a rules engine, and stores an assessment
in PostgreSQL. An API server, a terminal UI, workers and a dozen small commands
share the database; there is no other channel between processes.

| Component | State | Operations | Talks to | What is hard | Correct when |
|---|---|---|---|---|---|
| **Audit queue** `platform/postgres/batch_queue.go` | `audit_batches`, `audit_batch_items` (status, attempts, `available_at`, lease) | Create, Get, Cancel, Claim, Complete, Fail, Reschedule, RecoverExpired | API and TUI create and cancel; workers do the rest | READ COMMITTED statements of several processes on the same rows; tallies from old snapshots | a batch gets the verdict its items bear out, once; nothing settled changes; no item is forgotten |
| **Worker loop** `batch/application/worker.go`, `cmd/auditworker` | the claimed item | claim, run, classify the error, report, poll | queue, audit | leases, retries, SIGTERM, crashes, failed reports | one worker per item; attempts bounded; a shutdown costs nothing |
| **Audit execution** `conversation/application/sync_analysis.go`, `assessment_repository.go`, `conversation_analysis_repository.go` | `deal_assessments` (unique `execution_key`), `conversation_analyses` (unique `assessment_id`) | Execute: find, collect, start, audit, complete or fail | Bitrix, Ollama, the tables | two runs of one key, lost commits, failures stored on a context of their own | assessment and analysis agree; success means stored; a finished row is final; a retry can succeed |
| **CRM statistics** `crmstats/**`, `platform/postgres/crm_statistics.go` | `crm_sync_runs`, `deals.crm_sync_run_id`, `deal_channel_markers` | Start, CollectDeals, CollectMarker3264, Publish, FinishFailed, Statistics | Bitrix, the tables; read by TUI, API and PDF | concurrent starts, abandoned runs that come back, multi-query reads | one run at a time; the snapshot shown is whole; a run ends once |
| **Message backfill** `messagebackfill/service.go` | the shared summary, a job channel, a pool of goroutines | Run | conversation source, message repository | pool, cancellation, progress callback outside the lock | every deal is counted once; the summary balances |
| **Message persistence** `message_repository.go` | `conversation_messages` | UpsertBatch | backfill, audit, messagesync | concurrent upserts of one conversation | idempotent; all or nothing |
| **Governance** `governance/service.go` | rows of a deal, report files | PreviewDeal, DeleteDeal, Retention | every table, the reports directory | files are outside the transaction; foreign keys of the queue | after an erasure nothing is left of the deal but what came later |
| **TUI requests** `audit/interfaces/tui/model.go`, `ux.go`, `batch.go`, `crm_statistics.go` | screen, navigation stack, request sequence, loading flags, channels | key presses, answers, ticks | every read model, queue, audit, CRM sync | late and reordered answers, screens left while a request runs | an answer never lands on a screen that did not ask for it |
| **HTTP API** `api/httpapi/server.go` | token buckets | protect, ready, createBatch, createAudit, reads | queue, runner, read models | refill arithmetic, bursts | admitted requests stay within rate and burst |
| **HTTP client** `platform/httpclient` | slots of LimitTransport | RoundTrip (limit, retry) | Bitrix, Ollama | cancellation while waiting for a slot or a retry | never more than the limit in flight; no slot lost |
| **Readiness** `observability/readiness.go` | the cached snapshot, the check in flight | Check | PostgreSQL, Bitrix, Ollama | callers that share one check, in the context of the first | one check at a time; nobody waits forever; no old answer passes for a new one |
| **Conversation collection** `conversation/infrastructure/bitrix/timeline.go` | none | Conversation, Forms, Status, Messages | Bitrix | a message in several chats; the deal is written to and closed meanwhile; which senders count | nothing eligible is missed, nothing foreign taken |
| **Conversation analysis** `analyze.go`, `domain/analysis.go`, `ollama/analyzer.go` | none | Execute, reconcile, validate | collection, CRM, Ollama | an answer that contradicts the messages or the CRM; prose around it | no sale, and no advice to record one, without a ground in the conversation |
| **Rules engine and score** `audit/infrastructure/rules`, `audit/domain` | none | evaluate, score | deal records | boundaries | score within 0..100 and monotone |
| **Deals and assignees** `deal/**`, `deal_repository.go` | `deals`, `assignees` | upserts | Bitrix | partial records | idempotent |
| **Read models** `api_repository.go`, `dashboard_repository.go`, `business_*` | none | SELECTs | PostgreSQL | aggregation in SQL | |
| **Reports and exports** `export_report.go`, `report/*.go`, `business/**` | files | Export | renderer, disk | name collisions, half-written files | a file is whole or absent, never overwritten |
| **Privacy** `conversation/privacy`, `platform/security` | none | redaction | | regular expressions | |
| **Configuration** `platform/config` | none | Load | every command | cross-field rules | a worker's lease outlasts its audit |
| **TUI rendering, metrics, logs, bootstrap** | none | | | | |

The hazards, each at its line with the properties that would catch it going
wrong, are in `PROJECT.json`.

## 2. Modules

    BatchLifecycle            what the tables promise (abstract)
      BatchQueue              the queue's statements and the worker loop
        BatchQueueProps       its properties and inductive invariants
          BatchQueue_proofs
        BatchAudit            composes BatchQueue and AuditExecution
          BatchAudit_proofs
    AuditExecution            one audit under an execution key
    CrmSync                   synchronizations and their readers
      CrmSync_proofs
    HttpTransport             slots and retries of the HTTP clients
      MessageBackfill         the pool of the backfill and UpsertBatch
        MessageBackfill_proofs
    TuiRequests               keys, requests and answers of the terminal UI
      TuiRequests_proofs
    Governance                deletion, retention and the files of reports
      Governance_proofs
    Collection                how a conversation is put together
      Analysis                what is made of it
        Conversation_proofs
    ApiServer                 rate limits and /ready
      ApiServer_proofs
    MC*                       symmetry sets and constants for TLC, nothing else

Definitions named "the wrong one (for mutation)" or "... (for mutation)" are
used by no model: each is the body that replaces its neighbour when a mutant
asks whether a property would notice that mistake.

### BatchLifecycle

The life of a batch and its items as a reader of the two tables sees it: opened
with items, items taken, settled, requeued or dropped, the batch started,
canceled or closed with a verdict. It says what a verdict is (`Verdict`:
COMPLETED without failures, FAILED with nothing but failures, PARTIAL otherwise)
and that closing needs a batch without active items.

### BatchQueue

PostgreSQL runs these transactions READ COMMITTED: a statement reads the rows
committed when it starts, waits for the row locks it needs, rechecks its WHERE
clause on the locked row (only on that row, not on joined ones) and writes. A
statement whose reads can be overtaken is therefore two actions: `CancelStatement`
and `CancelCommit`, `ClaimStatement` and `Claim`, `RecoverStatement` and
`RecoverCommit`, `Reschedule` and `RescheduleCommit`, `FinishStatements` and
`FinishCommit`. The variables between them (`cancelSeen`, `selected`,
`seenCanceled`, `outcome`, `verdict`) are exactly what the statement remembers of
its snapshot. `finish` is one transaction of two statements (the item's UPDATE,
`finalizeBatch`): the UPDATE takes the row lock, which `RowLocked` makes the other
transactions wait for; the second statement's snapshot is the one that counts
for the tally, and since nothing but a lock wait lies between the two, both are
taken in `FinishStatements`. A deadlock PostgreSQL resolves by aborting a
transaction is an instance of `StatementFails`.

`pc[w]` is the place of a worker in `Worker.Run`; `held` and `tries` are the
`Item` that `Claim` returned. Time is two actions, `BecomeDue` (the backoff ends)
and `LeaseExpires`. With `LeaseCoversRun` a lease does not expire while its worker
is busy. That is what `config.go:175-181` is for: the worker refuses to start
unless its lease is longer than the audit timeout. It is an assumption all the
same: recording a failure takes up to ten seconds on a context of its own and the
report comes on top, and neither is in that inequality. So the properties that
need it are checked and proved under it, and those that do not are checked and
proved without it (`queue_stale`).

`WorkersStop(S)` is any set of workers ending together (SIGTERM, a crash, an
error of Claim in one of them cancels its process), with what they hold.

### AuditExecution

`SyncAnalysis.Execute` for a run with an execution key, one action per stage
(`Find`, `Collect`, `Start`, `Audit`, `Complete`, `RecordFailure`,
`RecordRefusal`), on the assessment row and the analysis row of the key. Errors
are what `Classify` makes of them: "transient" or "permanent". A commit whose
answer is lost is a success of the database and an error of the program. The
lookup of a finished execution swallows its own errors (`sync_analysis.go:71`),
so a run may repeat an audit that is already stored; the unique indexes then
decide, and the properties say what they guarantee. A crash takes any set of runs with
it, those of one process, and leaves what they stored (`Crash`).

### BatchAudit

BatchQueue where the run between a claim and its report is an execution under
the key of the item (`processor.go`: `batch-item-<id>`), and where SIGTERM cancels
the context first (`Signal`) and ends the workers later (`AuditStops`). The choice
among Complete, Reschedule and Fail, free in BatchQueue, is made by the answer of
the audit (`ReportOf`). Its specification implies that of BatchQueue by construction, every step
being one of the queue or leaving it alone, so what holds of the queue holds of the
composition. It implies that of AuditExecution as well, with
the workers as executors and the items as keys, where permanent failures are among the
kinds of errors: a canceled context is one.

### CrmSync

`Sync` as the sequence Start (cancel stale runs, check and insert, with the
partial unique index), CollectDeals, CollectMarker3264, Publish, FinishFailed, in
any number of processes, and one caller of `Statistics`, whose queries each see
their own snapshot. Nothing a reader does is visible to others, so one reader
stands for all. `tag` is `deals.crm_sync_run_id`; a count is modelled by the set it
counts, so that "adds up" is an inclusion of sets and not arithmetic.
The lists of `Statistics` are read row by row, and after the loops over the assignees, the months
and the shares of the markers `rows.Err` is not asked (`crm_statistics.go:173,188,229`): such a
read may return any part of its rows as if that were all (`Received`, with `cut` for the
queries it happened to).
`finished_at` is the start of the publishing transaction (`NOW()` in PostgreSQL),
kept in `opened`. A run may become older than two hours while its process is alive
(`Ages`): the configured timeout may be exactly two hours and the clock that
counts is the database's. `Erase` is the deletion of a deal by Governance.

### HttpTransport and MessageBackfill

HttpTransport is one request of each client at a time: it takes a slot
(`TakeSlot`), is answered (`Respond`), waits without its slot for the next attempt
(`Repeat`) or ends with its context (`GiveUp`). The backfill wires as many slots as
workers, and so do the constants; the workers of the queue, which share fewer slots,
use no retries and treat whatever comes of a request as the answer of an audit.

MessageBackfill is `Service.Run`: the loop that hands out deals (`Send`,
`StopSending`, `Finish`), workers that collect (`Collected`), store and count
(`Update`). `select` may choose a ready worker although the context has ended, so
`Send` does not look at `canceled`. All requests of one collection stand as one,
whose failure or answer decides; a conversation without messages is one outcome, be
access denied, the conversation empty or absent.

UpsertBatch is a transaction that writes its rows one by one in the order of time
and identifier, and each row it wrote is locked until its end (`Locked`); messages
are numbered in that order. A duplicate within a batch writes its row twice, which
changes nothing, so a batch is a set. Two rows that are equal in time and identifier
(one message under its session and under its chat) keep the order of collection,
sessions first, which is the same for every deal. `Audits` are the other callers of
UpsertBatch: audits in other processes and messagesync. `stored` keeps the `deal_id`
that a row got first, because ON CONFLICT leaves it alone, and `Candidates` reads it.

### TuiRequests

Bubble Tea calls `Update` with one message at a time and runs the commands it
returns as goroutines, whose messages come back in any order: one action per key
(`Esc`, `OpenFinding`, `CreateBatch`, ...) and one per kind of answer, taken from
the set `pending` (`ReadAnswered`, `CsvAnswered`, ...). A command's message says what
kind it is, which request it belongs to and what it is about, which is all that
`Update` compares. The polling loops of a batch are counted (`timers`, `polls`)
since all their messages are alike. Rows of a table, filters and texts are not
kept; a key that only moves a cursor is no action.

Two things make the navigation less obvious than it looks, and the model keeps
both. `Update` sends keys to a text field that has the focus, on whatever screen,
and the field keeps the focus when an answer or the error of a background job
changes the screen; hence `focus`, and hence keys that are tested by `focus` and not
by `screen`. And the stack is pushed when a deal is asked for, not when it is shown.

A screen waits for the read `active`, or for the dashboard with the last request
number and target; `Awaited` says which answers in flight would be taken for it.

| `Esc` does | while |
|---|---|
| `Abandon`: a new number for reads and batch, flags cleared | always, on the menu too |
| pop the stack | on a deal, an analysis, a raw answer or an error, if the stack is not empty |
| go where `BackTarget` says | otherwise |

### Governance

`DeleteDeal` reads the assessments (`Ask`), lists the report files (`ListReports`),
deletes the rows in one transaction (`DeleteRows`) and then removes the files one by
one (`Remove`); `Retention` goes through the kinds in order (`Select` and `Apply` are the
two halves of one statement, which selects and then deletes what is still there;
`Sweep` is the reports). Beside them audits store rows (`StoreMessage`, `Issue`, `Refer`)
and exporters write files (`Render`, `Create`, `Close`, `GiveUp`): a name that is taken
gets the second appended, and O_EXCL refuses a second writer. Exports of one report may
overlap: Esc clears `reportGenerating` (`model.go:1028`), and there are other processes. Any
step of a command may fail (`Fail`). Ages are two: before and after the cutoff; `TimePasses`
makes things old.

The history variables say what the code cannot promise about: `unseen`, files written after
a deletion had read its assessments, and `late`, rows of its deal stored after its commit;
`disturbed`, rows that others stored or deleted while a retention worked (a statement that
finds fewer rows than the batch ends the kind, whoever took the others). A message without
`sent_at` never expires.

What the model shows of the code and no property demands: an item of a batch keeps
`assessment_id` with a plain foreign key (`migrations/009_audit_batches.sql:26`), so a
deal that was audited through the queue cannot be deleted and retention of assessments
stops at such a row with an error. Once retention has removed an assessment, a
deletion of its deal no longer knows its files, and `DeletionIsThorough` speaks of the
assessments it has read. Retention lists the old files first: a young one that was written
under a name on the list goes too. And an export that fails removes its file by name
(`export_report.go:82,86`): when a deletion or a retention has removed that file under it and
another export has made one of that name, the whole report of the other goes.
`WholeReportsAreSafe` names this way beside the commands, and the theorem
`CommandsAloneTakeReports` says that there is no other.

### Collection and Analysis

Collection is `Timeline.Conversation`: sessions of the deal's activities, chats linked
to the deal, the deal's dates, chats linked to its contact, and their histories, each
call an action that may fail or be denied, while Bitrix goes on (`Write`, `Open`, `Plan`,
`Close`). Of the activities the code asks for one page and no more (`timeline.go:94`), and so does
`ListActivities` (`Pages`); a history is one call in the code and one answer here. `Plan` sets the
close date of an open deal, which the code takes for the end of the deal whether it is closed or
not (`timeline.go:346`). A message is the set of sessions and chats that show it, with what is known of
its sender (`Attendant` and `Client` are `classifySender`), what its text says of a payment
and what file it has; its number is its date. `collected` keeps the order the code puts
groups in: each session's messages, and then those of all chats, sorted. Two things are
as in the code and may surprise: the messages of a session are not compared with those of
the chats, so that one message may be there twice; and since the groups are not sorted
together (`timeline.go:65`), the last fifty messages that are analyzed
(`analyzer.go:68`) need not be the latest.

Analysis continues where the collection ends: `ReadForms`, `ReadStatus` and
`ReadRole` read the CRM, each at its own time; `Parse` folds the lines of the model's answer
as `ParseConversationAnalysis` does; `Checked`, `Advice` and `Reconciled` are the rules that
decide between answer, messages, files and CRM. An advice keeps whose words it is in: the
program's, or the model's, which pass unchecked beside every result that is not a sale
(`analyzer.go:159`), even if they say to mark the deal as won. The answer is any sequence of lines, so that
nothing is assumed of the model. Three of the six labels are kept: both kinds (fixed
values, free text) and the last one, which ends the absorption of prose.

### ApiServer

`protect` takes a token of one of two buckets (`Admit`, `Refuse`); tokens are counted in
units, so that what the code computes in floating point is exact here, and `admitted` is
history: what came through since each tick. `Readiness.Check` is
`Cached`, `Join`, `Lead`, `CheckEnds` for each dependency, `Publish` and `Wake`. The answer of
a check keeps when a dependency was seen up. `Leave` is a client that goes away: who waits
returns, who leads cannot, since it waits for its three results, but its context is
canceled, and the results may then be errors (`CutShort`). The waiters are told what it
found, and so is everybody for the TTL: with PostgreSQL up, `/ready` may say `not_ready`,
which `docs/observability.md:24` reserves for PostgreSQL being down. The properties say what
is certain in spite of this: one check, everybody woken, and nothing called up that
was not seen up lately. The TTL is positive in the program (`config.go:71,75`).

## 3. Runs

| Run | Question | Bounds |
|---|---|---|
| `queue_stale` | Leases expire under live workers: do the tables still follow BatchLifecycle, are verdicts right and final, and does only a fault leave an item without a worker? | 1 batch, 2 deals, 2 workers, 2 attempts, 1 fault |
| `queue_items` | With leases that outlast a run: one worker per item, attempts bounded, and, as long as nothing fails, does every item of a batch settle? | 1 batch, 2 deals, 2 workers, 2 attempts, 2 faults |
| `batch_audit` | When audits of one item overlap, crash, stop and lose answers: do the two rows agree, is success stored, are finished rows final, is COMPLETED backed by an assessment? | 1 batch, 1 deal, 2 workers, 1 fault, leases expire |
| `crm_publish` | Concurrent, late, crashed and canceled synchronizations: one RUNNING, whole snapshots, shares that add up unless their read was cut short, runs end once? | 2 syncers, 2 deals, 2 runs |
| `backfill` | Pool, cancellation, crash, retries, failures and lost commits, beside an audit of the same messages: is every deal accounted for, is what is counted stored, can transactions deadlock, does the command end? | 2 workers, 1 audit, 3 deals (two share a chat, one has none), 2 messages, 2 slots, 2 attempts, `--limit` 2 |
| `tui` | Keys and answers in any order: is every load answered once, does what Esc abandoned stay abandoned, what can the jobs that outlive Esc still do, are jobs single, does polling go on and end? | 2 deals, 2 assessments, 5 requests, 2 loops per batch |
| `governance` | Two commands, deletions or retentions, beside audits and exports: is a deletion thorough, a retention complete, who can take a whole report away? | 2 deals, 1 assessment (of the queue or not), 2 expired messages, batches of 1 row, 2 exporters, 2 exports, 1 stamp |
| `conversation` | People write and the deal is closed during a collection: is it complete and of the deal; are sale and advice grounded, whatever the model answers? | 2 sessions, pages of 1, 2 chats (one linked to deal and contact), 7 kinds of message, 3 messages, answers of 4 lines of 8 kinds |
| `api_ready` | Do limits hold in every interval; is there one check, and are waiters woken and answers recent, as clients leave and dependencies fail? | 2 callers, 2 dependencies, 2 ticks, burst 1 and 2, timeout and TTL 1 |

One batch is enough: rows of different batches meet in no statement but
RecoverExpired and Claim, which treat each item by itself. Two workers are the
least that race, and two items the least that can leave a batch half settled
(PARTIAL, skewed tallies). Two attempts give a first and a last one; a fault gives
an item without a worker, a second one a recovery that is lost again. Two CRM runs
give a published one and a later or an abandoned one; with two deals a snapshot
can lose one and keep one. Two workers and an audit of two messages in common
are more than a circle of waiting needs; a limit below the number of deals leaves one
for the next command, and a deal without conversation can be selected for ever. Five TUI requests are two more than it takes to abandon one,
start another and have both answered late; a load, a job and a batch fit beside each
other, and two deals with two assessments give a wrong one to be shown. Two commands of governance
give every pair of deletion and retention; batches of one row make each statement the
last or not; two exports write one report at once, or one after another, under two names or the same one. Three messages are one for each
of a session, a deal's chat and a contact's, or one in two of them before and after the
deal's dates; of two sessions one is beyond a page of one; four lines are a complete answer with a line too many. Two ticks make an
answer outlive its TTL and a bucket fill up again, and two callers are one that leads
and one that waits for it, or comes later. The proofs lift these bounds for all but liveness.

Three runs compare states by a VIEW that leaves out only what neither their properties nor the
future depends on: `crm_publish` what the reader has read but for the markers, `conversation` the
close date and what was seen once they were read, everything when the collection has failed and
what is written after it has ended, `governance` how a command has ended, the age of rows that are gone
and the histories of what is gone again.

Runs that TLC must find violated show where the code and its own documentation
or tests disagree; `PROJECT.json` quotes the lines under "findings".

| Run | What it shows |
|---|---|
| `queue_skew` | Two workers finishing the last two items at once both count the other's item as active: the batch stays open for good. |
| `audit_retry` | A transient failure is stored under the key and refuses the success of every retry (a shutdown during an analysis leaves the same failure behind). |
| `tui_polling` | The error of an executive PDF replaces the screen of an open batch, the poll that comes next ends the loop, and Esc leads back to a batch that nothing updates. |

Three configurations are kept beside those runs. `BatchQueue_cancel_race.cfg`
(MCBatchQueue): a reschedule overlapping a cancel puts its item back in a canceled
batch. `CrmSync_torn.cfg` (MCCrmSync): a publication between two queries of Statistics
empties the totals of the run it reports. Both end in the violation they are about, as
`queue_skew` does; that nothing but these overlaps leads there is proved (section 4).
`AuditExecution_overlap.cfg` (MCAuditExecution) passes: the properties of the audit alone,
with three executors and two keys.

Deadlock is checked in the run of CrmSync and in that of the audit alone. The queue may
stop: when every item is settled and the workers are idle nothing is left to do,
so its configurations, and those of its audits, switch that check off. So does that of TuiRequests: the user may
stop, and with the last request number used nothing more can be asked. A cycle of the
backfill is found by `UpsertsDoNotDeadlock` and not by that check, since a statement
that waits may fail.

### Fairness

`queue_items`, `backfill` and `api_ready` state liveness. The first does under `BatchQueue!Fairness`:
weak fairness of each worker's next step (a statement returns, an audit has a
timeout, a stopped process is started again by its supervisor, and its first act is
RecoverExpired), of a cancel that has begun, and of time. Nothing obliges anybody to
create or cancel a batch or a fault to happen. A claim picks the due items in no
order the fairness relies on. `EveryItemSettles` promises nothing once a fault has happened, because then
it is false: leases are recovered when a worker starts and at no
other time (`worker.go:44`), so an item that one failed statement left behind waits
for the next restart, and nothing obliges anybody to restart a worker that is up.

`RunEnds` of the backfill needs weak fairness of each worker's next step (requests
end: the client has a timeout), of commits and of the end of the command, and strong
fairness of writing a row: a row may be locked again and again by others, but
PostgreSQL serves those who wait for it in turn. Neither a failure nor a cancellation is needed to
end the command, and no start, crash or audit is owed.

`WaitersAreWoken` needs weak fairness of the goroutines of a check (each dependency
answers or its context ends) and of what `Check` does when they have. No client has to
stay, and the clock need not move.

## 4. Proofs

All theorems hold for arbitrary sets of batches, deals, workers, keys and
processes and any bounds.

* **BatchQueue_proofs.** `QueueInv` is inductive. Beside the properties it says what
  an open transaction may still rely on: `FinishLocksItem` (it alone holds the row
  lock of its item, which is still PROCESSING), `FinishVerdictTrue` (a verdict other
  than "keep" was computed from a batch without other active items; items leave the
  active states for good, so it cannot be overtaken), `FinishOutcomeTrue` and
  `SeenCanceledTrue` (a cancellation that was seen has happened). From these follow
  `ClosedBatchesAreDrained`, `VerdictsAreRight`, `OnlyCancelDrops`, and, step by step,
  `QueueImplementsLifecycle`, whose abstract steps give `SettlementsAreFinal`.
  Under `LeaseCoversRun`: an item in a worker's hands is
  PROCESSING with a live lease, which RecoverExpired and Claim both exclude, hence
  `NoDoubleAudit` and `ResultsAreAccepted`. `AttemptsAreBounded` needs a budget: an item
  nobody holds has an attempt to spare, and the fault that orphaned it pays for it.
  Three theorems say what the violations of this queue come from, by stating them away.
  If no two transactions of one batch that finish an item are open at once
  (`FinishesApart`), no batch is left open (`OnlyOverlapsLeaveOpen`): the last
  transaction sees every other item settled (`KeepsRight`), so who kept the batch open
  leaves an active item behind (`ClosingInv`). A single worker has no such overlap
  (`LoneWorkerClosesBatches`). If no reschedule or recovery is open beside a cancel of its
  batch (`RequeuesApart`), no item waits in a canceled one (`OnlyOverlapsLeaveWaiting`, from
  `DroppingInv`: either the cancel sees the item or the requeue sees the cancel). And an item
  that is PROCESSING in nobody's hands has a fault of its own to answer for
  (`OnlyFaultsLoseItems`), whatever leases do.
* **BatchAudit_proofs.** Each step of the composition is one of the queue or leaves
  its variables alone, so the queue's theorems carry over. `CompletedMeansAudited`
  needs that a worker runs the item it claimed (`RunsItsClaim`) and that a pending
  COMPLETED is backed (`ReportIsBacked`). For `AuditedRowsAgree`, `AuditedSuccessIsStored`
  and `AuditedIsFinal`, `RunStep` shows that each stage of an audit does one of four
  things to the rows of its key (`RowsStep`), and the rest argues about these four; `RecordedFailureIsFinal` is the
  other side of the finding `audit_retry`: once a failure, transient or not, is stored under
  the key of an item, the item never becomes COMPLETED. `AuditedQueueRunsAudits` maps the composition to
  AuditExecution: a run in a canceled context is one with more ways to fail (`RunMonotone`), and the end
  of a process is a crash there, or nothing if none of its workers runs (`ForgetIdle`).
* **CrmSync_proofs.** `SyncInv` adds to the properties that a live run belongs to one
  process and that the transaction which published last began last: the run being
  published is RUNNING from the beginning of its transaction to its commit, and
  there is only one. `ReaderInv` carries the two reads of the markers of one run.
  A list that was cut short is smaller, never larger, so `MarkedSharesAddUp` keeps its inclusion
  in any case and the equality unless the shares were cut. `OnlyPublicationsAndCutsTear`: as long
  as no later publication overtakes the call (`ReportIsCurrent`), no number of Statistics counts
  what is not in the snapshot it reports, and all of them are whole unless a list was cut short.
* **MessageBackfill_proofs.** `RowInv`: what a transaction wrote is of its batch, comes
  before what it has left, and is written by no other open one; `RowStep` sums up what
  a step can do to it. Who waits then waits for a writer that is at a later message, so
  of a set of waiting writers the one with the fewest messages after its own waits for
  nobody in the set (`OrderedLocks`; the least element of a set of naturals comes from
  the library's well-foundedness theorems). `SummaryBalances` counts: each step moves one deal
  between channel, workers and counters, or none, and a command that does not run
  holds none (`NothingIdle`).
* **TuiRequests_proofs.** Types, in two lemmas (data by the SMT solver, flags by
  Zenon), and `FlagsAlwaysTellTheTruth` from `JobInv`: a step starts a job only under
  its cleared flag, ends it with the flag, or does not touch what is in flight of its
  kind, whatever it does to the screen. `LoadsAreAnswered`, `AnalysesAreOfDeal` and
  `StaleAnswersAreDropped` share one invariant, `TuiInv`, because what is loading, where
  a text field has kept the focus and what is on the navigation stack guard each other:
  requests are told by their numbers (`RequestsOnce`); one load at a time is awaited, and
  while nothing is loading only behind the error of a job (`LoadInv`); a field that
  has kept the focus takes every key, so nothing is awaited under it (`FocusInv`, which
  also shows that the loading branch of a search by id is never taken); and a deal or an
  analysis stays on the stack only where it can be gone back to (`StackInv`, `DetailInv`),
  an analysis only while it is the deal's (`AnalysisInv`). `StaleAnswersAreDropped` also says what
  the answers do that Esc does not abandon, of a report, an executive PDF and a synchronization: they
  may put up the error screen or reload the executive view, and leave the rest as it was
  (`Beneath`). `PollingGoesOn` needs the types; that the way back from an error may show an open
  batch without a loop is part of its statement.
* **Governance_proofs.** Types with the two foreign keys. `DeletionsAreThorough` from
  what a deletion has still to remove (`Accounted`: every file of its subjects is on its list,
  gone, or unseen) and from its commit on of the rows (`Emptied`: there is none but late ones;
  `RowsStep` says who can bring one). `RetentionsAreComplete` from an undisturbed retention's
  passed kinds (`Undisturbed`) and from the reports, which are listed last and grow old only while
  no command runs (`Swept`, `NoFileGrowsOld`). `ReportsAreSafe` by cases of a step, for any
  number of exporters; `CommandsAloneTakeReports` adds, under `SparesUnfinished`, that an
  exporter's file is its own.
* **Conversation_proofs.** The groups are first reduced to the set of what they hold
  (`SessionAdds`, `HistoryAdds`). A message is then collected or in a place still to be read
  (`Kept`), and one that was seen is collected, or was shown by chats of the contact only
  and is out of the period that was read (`Remembered`): this needs the deal's chats to be read first.
  `CollectedIsOfDeal` needs that nothing of the contact is taken before the dates are known.
  Of the analysis, `SalesAreGrounded` and `AdviceIsAlwaysGrounded` rest on two facts about its
  recursive operators, each by induction over a set of naturals (`EveryNat`) once the recursive
  function is shown to exist (`FoldExists`, `FlatExists`). An accepted answer says one
  thing of the probable result (`OutcomesMean`): as long as no label came twice, an enumerated
  value is what its line says (`AsWritten`), because prose is absorbed by free texts
  only. And the conversation, whose groups can be put in order (`SortedExists`), holds
  collected messages only, in every window (`ConversationIsCollected`). `AnalysisInv` adds that
  the analysis begins when the collection has ended, after which its messages stay
  (`EntriesLast`), although people go on writing.
* **ApiServer_proofs.** A bucket is an account: for every interval, what was let in since
  it began and what could be had now are at most the burst and what the rate gave
  (`Account`); a tick adds at most the rate, a request moves one token from one side to
  the other. `AnswersStayRecent` follows a finding from the check that made it to those
  who are told (`Timely`): a check begins after its caller came and ends within the
  timeout, an answer that is kept was given at most a timeout after what it says, and
  whoever was woken came before it was given. `WaitsStayBounded` is the safe half of
  `WaitersAreWoken`: nobody whose client is still there waits longer than one check may
  take, since the check it waits for is still going on and began no later than it came.

The proofs assume only the named ASSUMEs of the modules, which TLC evaluates in
every run. Some theorems have a hypothesis besides, which each names in its statement:
`LeaseCoversRun` (the configuration is meant to ensure it), a lone worker, and
permanent failures among the kinds of errors are about constants; `FinishesApart`,
`RequeuesApart`, `ReportIsCurrent` and `SparesUnfinished` are about the behaviour, hold of most and not of all,
and are there to show that what the violated runs do needs just that overlap.

Model-checked only: `EveryItemSettles`, `RunEnds` and `WaitersAreWoken` (liveness under fairness
is outside TLAPS' reach here). Every other property of the runs that must pass is proved for all
values of the constants.

## 5. What is left out

* Get, the read models and the dashboards only read; their aggregation is SQL's.
* Texts: prompts, redaction, PDF and screen layout.
* Runs of an audit without an execution key: each has an assessment of its own.
* Assignees' names, progress counters, metrics and logs.
* The upsert of the deal inside an audit: idempotent by its unique key. The one of the
  messages is in MessageBackfill, beside the audit's other steps and not among them.
* Governance beside a backfill: UpsertBatch is one step in Governance, and no rows are
  deleted in MessageBackfill.
* The pages of the forms, which are followed to the last one (`timeline.go:137-175`).
* HTTP handlers: a POST that is sent again creates a second batch (`server.go:209`); a
  shutdown gives running audits fifteen seconds (`cmd/api/main.go:110`) and leaves what is
  still running PROCESSING, a row without a worker.
* Rules and score are functions of one record without state, tested rule by rule.
* The navigation stack of the TUI keeps a list whose deal was abandoned with Esc while
  loading; TuiRequests has that behaviour, and no property states what its test expects.
* The components marked not_modelled in `PROJECT.json`, each with its reason.

## 6. What could come next

1. Rules and score as operators checked against their definitions in
   `docs/`, if they ever depend on more than one record.
2. Deletion and retention beside the backfill and the CRM synchronization, whose rows
   they remove.
