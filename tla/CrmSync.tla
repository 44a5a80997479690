------------------------------- MODULE CrmSync -------------------------------
(***************************************************************************)
(* The global statistics of the CRM: synchronizations                      *)
(* (internal/crmstats/application/sync.go) that publish a snapshot of the  *)
(* deals, and a reader of the published statistics, on PostgreSQL          *)
(* (internal/platform/postgres/crm_statistics.go).                         *)
(*                                                                         *)
(* A deal is its identifier and the run its row is tagged with; a count is *)
(* the set of deals it counts.  Users' names, metrics and progress are     *)
(* left out.  Statements of one transaction that nobody can see between    *)
(* are one step.                                                           *)
(*                                                                         *)
(* Bounds: MaxRuns caps the identity column of crm_sync_runs.              *)
(***************************************************************************)
EXTENDS Naturals, FiniteSets

CONSTANTS Syncers,   \* processes that may synchronize: crmstatssync, a TUI
          Deals,     \* Bitrix deal identifiers
          MaxRuns    \* bound on the rows of crm_sync_runs

ASSUME SyncAssumption == MaxRuns \in Nat

Runs  == 1..MaxRuns
NoRun == 0

VARIABLES
    \* crm_sync_runs
    run,        \* run[r]       : status, "NONE" before the row exists
    old,        \* runs started more than two hours ago
    finished,   \* finished[r]  : finished_at of a published run
    collected,  \* collected[r] : deals_collected
    markers,    \* markers[r]   : deals of its deal_channel_markers rows
    \* deals
    tag,        \* tag[d]       : crm_sync_run_id, NoRun for none
    erased,     \* deals whose row was deleted by a personal data request
    clock,      \* NOW()
    \* synchronizations
    step,       \* step[s]      : where Sync is
    mine,       \* mine[s]      : its run
    deals,      \* deals[s]     : what CollectDeals returned
    marked,     \* marked[s]    : what CollectMarker3264 returned
    denied,     \* synchronizations whose activities Bitrix forbids
    opened,     \* opened[s]    : when its Publish transaction began
    \* one call of Statistics
    reads,      \* queries it has made
    chosen,     \* the run it reports
    counts,     \* what its queries on the tagged deals counted
    markedTotal, markedBy, \* the marker's total and its sum over assignees
    cut         \* queries whose rows ended early, with an error nobody asked for

runVars    == <<run, old, finished, collected, markers>>
tableVars  == <<runVars, tag, erased>>
syncVars   == <<step, mine, deals, marked, denied, opened>>
readerVars == <<reads, chosen, counts, markedTotal, markedBy, cut>>
crmVars    == <<tableVars, clock, syncVars, readerVars>>

Published == {"COMPLETED", "PARTIAL"}
Ended     == Published \cup {"FAILED", "CANCELED"}

Steps == {"idle", "starting", "inserting", "collecting", "marking", "opening",
          "publishing", "failing", "canceling"}

\* Statistics makes five queries on the tagged deals, then two on the markers.  The
\* loops over assignees, months and the marker's assignees ask no rows.Err(): a read
\* that fails midway is taken for one that came to its end.
DealReads == 5
Unchecked == {2, 3, DealReads + 1}

CrmTypeOK ==
    /\ run \in [Runs -> {"NONE", "RUNNING"} \cup Ended]
    /\ old \subseteq Runs
    /\ finished \in [Runs -> Nat]
    /\ collected \in [Runs -> SUBSET Deals]
    /\ markers \in [Runs -> SUBSET Deals]
    /\ tag \in [Deals -> Runs \cup {NoRun}]
    /\ erased \subseteq Deals
    /\ clock \in Nat
    /\ step \in [Syncers -> Steps]
    /\ mine \in [Syncers -> Runs \cup {NoRun}]
    /\ \A s \in Syncers :
          (mine[s] = NoRun) <=> (step[s] \in {"idle", "starting", "inserting"})
    /\ deals \in [Syncers -> SUBSET Deals]
    /\ marked \in [Syncers -> SUBSET Deals]
    /\ denied \subseteq Syncers
    /\ opened \in [Syncers -> Nat]
    /\ reads \in 0..DealReads + 2
    /\ chosen \in Runs \cup {NoRun}
    /\ reads > 0 => chosen # NoRun
    /\ counts \subseteq SUBSET Deals
    /\ markedTotal \subseteq Deals
    /\ markedBy \subseteq Deals
    /\ cut \subseteq Unchecked

CrmInit ==
    /\ run = [r \in Runs |-> "NONE"]
    /\ old = {}
    /\ finished = [r \in Runs |-> 0]
    /\ collected = [r \in Runs |-> {}]
    /\ markers = [r \in Runs |-> {}]
    /\ tag = [d \in Deals |-> NoRun]
    /\ erased = {}
    /\ clock = 0
    /\ step = [s \in Syncers |-> "idle"]
    /\ mine = [s \in Syncers |-> NoRun]
    /\ deals = [s \in Syncers |-> {}]
    /\ marked = [s \in Syncers |-> {}]
    /\ denied = {}
    /\ opened = [s \in Syncers |-> 0]
    /\ reads = 0
    /\ chosen = NoRun
    /\ counts = {}
    /\ markedTotal = {}
    /\ markedBy = {}
    /\ cut = {}

-----------------------------------------------------------------------------
(* Helpers. *)

\* The run Statistics reports: ORDER BY finished_at DESC, id DESC LIMIT 1.
IsShown(r) ==
    /\ run[r] \in Published
    /\ \A q \in Runs : run[q] \in Published =>
          finished[q] < finished[r] \/ (finished[q] = finished[r] /\ q <= r)

\* WHERE crm_sync_run_id = r.
Tagged(r) == {d \in Deals : tag[d] = r}

\* The runs Start takes for abandoned; the wrong ones (for mutation) are those
\* of any status.
StaleOfAnyStatus == {r \in old : run[r] # "NONE"}
Stale == {r \in old : run[r] = "RUNNING"}

\* The unique index on RUNNING rows lets the INSERT in; the wrong one (for
\* mutation) is not there.
NoIndex == TRUE
IndexAdmits == \A r \in Runs : run[r] # "RUNNING"

\* The last statement of Publish finds its run active; the wrong one (for
\* mutation) has no status in its WHERE clause.
AlwaysActive(s) == TRUE
Active(s) == run[mine[s]] = "RUNNING"

\* The tags a publication leaves: the deals it collected are its own.  The wrong
\* ones (for mutation) stay with the run that published a deal first.
FirstTag(s) == [d \in Deals |-> IF d \in deals[s] /\ tag[d] = NoRun THEN mine[s] ELSE tag[d]]
Retagged(s) == [d \in Deals |-> IF d \in deals[s] THEN mine[s] ELSE tag[d]]

\* The marker's deals per assignee.  The wrong ones (for mutation) are joined
\* with the run a deal is tagged with.
MarkedDealsOfRun(r) == markers[r] \cap Tagged(r)
MarkedDeals(r) == markers[r]

GoTo(s, where) == step' = [step EXCEPT ![s] = where]

\* Sync returns, or its process dies.  The wrong one (for mutation) keeps the run.
LeaveKeepingRun(s) ==
    /\ GoTo(s, "idle")
    /\ deals' = [deals EXCEPT ![s] = {}]
    /\ marked' = [marked EXCEPT ![s] = {}]
    /\ denied' = denied \ {s}
    /\ opened' = [opened EXCEPT ![s] = 0]
    /\ UNCHANGED mine
Leave(s) ==
    /\ GoTo(s, "idle")
    /\ mine' = [mine EXCEPT ![s] = NoRun]
    /\ deals' = [deals EXCEPT ![s] = {}]
    /\ marked' = [marked EXCEPT ![s] = {}]
    /\ denied' = denied \ {s}
    /\ opened' = [opened EXCEPT ![s] = 0]

-----------------------------------------------------------------------------
(* One synchronization. *)

\* Start, first statement: abandoned runs are canceled.  Its error is ignored.
CancelStale(s) ==
    /\ step[s] = "idle"
    /\ \/ run' = [r \in Runs |-> IF r \in Stale THEN "CANCELED" ELSE run[r]]
       \/ UNCHANGED run
    /\ GoTo(s, "starting")
    /\ UNCHANGED <<old, finished, collected, markers, tag, erased, clock,
                   mine, deals, marked, denied, opened, readerVars>>

\* Second statement, snapshot: with a run in progress (or an error) Sync returns.
CheckRunning(s) ==
    /\ step[s] = "starting"
    /\ \/ IndexAdmits /\ GoTo(s, "inserting")
       \/ GoTo(s, "idle")
    /\ UNCHANGED <<tableVars, clock, mine, deals, marked, denied, opened, readerVars>>

\* Its commit: a run inserted meanwhile makes the unique index refuse it.  The
\* answer of a committed INSERT can be lost: the run stays RUNNING, of nobody.
Insert(s, r) ==
    /\ step[s] = "inserting"
    /\ IndexAdmits
    /\ run[r] = "NONE"
    /\ \A q \in Runs : q < r => run[q] # "NONE"
    /\ run' = [run EXCEPT ![r] = "RUNNING"]
    /\ \/ GoTo(s, "collecting") /\ mine' = [mine EXCEPT ![s] = r]
       \/ GoTo(s, "idle") /\ UNCHANGED mine
    /\ UNCHANGED <<old, finished, collected, markers, tag, erased, clock,
                   deals, marked, denied, opened, readerVars>>

InsertRefused(s) ==
    /\ step[s] = "inserting"
    /\ GoTo(s, "idle")
    /\ UNCHANGED <<tableVars, clock, mine, deals, marked, denied, opened, readerVars>>

\* CollectDeals: the pages it reads, or an error; only here does a canceled or
\* expired context make the run CANCELED.
CollectDeals(s) ==
    /\ step[s] = "collecting"
    /\ \/ /\ \E D \in SUBSET Deals : deals' = [deals EXCEPT ![s] = D]
          /\ GoTo(s, "marking")
       \/ GoTo(s, "canceling") /\ UNCHANGED deals
       \/ GoTo(s, "failing") /\ UNCHANGED deals
    /\ UNCHANGED <<tableVars, clock, mine, marked, denied, opened, readerVars>>

\* The unknown assignees, then CollectMarker3264: owners of marked activities,
\* collected as deals or not; forbidden; or an error, a cancel among them.
CollectMarkers(s) ==
    /\ step[s] = "marking"
    /\ \/ /\ \E M \in SUBSET Deals : marked' = [marked EXCEPT ![s] = M]
          /\ GoTo(s, "opening")
          /\ UNCHANGED denied
       \/ denied' = denied \cup {s} /\ GoTo(s, "opening") /\ UNCHANGED marked
       \/ GoTo(s, "failing") /\ UNCHANGED <<marked, denied>>
    /\ UNCHANGED <<tableVars, clock, mine, deals, opened, readerVars>>

\* Publish begins its transaction, whose NOW() will be finished_at.
PublishBegins(s) ==
    /\ step[s] = "opening"
    /\ clock' = clock + 1
    /\ opened' = [opened EXCEPT ![s] = clock']
    /\ GoTo(s, "publishing")
    /\ UNCHANGED <<tableVars, mine, deals, marked, denied, readerVars>>

\* Its statements and their commit, for a run that is still RUNNING: deals,
\* markers of collected deals, status.  The answer of the commit can be lost.
PublishCommits(s) ==
    LET r == mine[s]
    IN  /\ step[s] = "publishing"
        /\ Active(s)
        /\ tag' = Retagged(s)
        /\ markers' = [markers EXCEPT ![r] = IF s \in denied THEN {} ELSE marked[s] \cap deals[s]]
        /\ collected' = [collected EXCEPT ![r] = deals[s]]
        /\ finished' = [finished EXCEPT ![r] = opened[s]]
        /\ run' = [run EXCEPT ![r] = IF s \in denied THEN "PARTIAL" ELSE "COMPLETED"]
        /\ \/ Leave(s)
           \/ GoTo(s, "failing") /\ UNCHANGED <<mine, deals, marked, denied, opened>>
        /\ erased' = erased
        /\ UNCHANGED <<old, clock, readerVars>>

\* A run somebody canceled, or any error: everything is rolled back.
PublishFails(s) ==
    /\ step[s] \in {"opening", "publishing"}
    /\ GoTo(s, "failing")
    /\ UNCHANGED <<tableVars, clock, mine, deals, marked, denied, opened, readerVars>>

\* FinishFailed, on a context of its own; its error is ignored.
FinishFailed(s) ==
    /\ step[s] \in {"failing", "canceling"}
    /\ \/ /\ Active(s)
          /\ run' = [run EXCEPT ![mine[s]] =
                        IF step[s] = "canceling" THEN "CANCELED" ELSE "FAILED"]
       \/ UNCHANGED run
    /\ Leave(s)
    /\ UNCHANGED <<old, finished, collected, markers, tag, erased, clock, readerVars>>

\* The process dies; an open transaction is rolled back.
Crash(s) ==
    /\ step[s] # "idle"
    /\ Leave(s)
    /\ UNCHANGED <<tableVars, clock, readerVars>>

-----------------------------------------------------------------------------
(* Statistics, one query after the other, each on its own snapshot. *)

ChooseRun(r) ==
    /\ reads = 0
    /\ chosen = NoRun
    /\ IsShown(r)
    /\ chosen' = r
    /\ UNCHANGED <<tableVars, clock, syncVars, reads, counts, markedTotal, markedBy, cut>>

\* The rows a query gives when D are there: all of them, or, where nobody asks for
\* the error, some of them.
Received(D) ==
    {[rows |-> D, cut |-> cut]} \cup
    [rows : SUBSET D \ {D}, cut : IF reads \in Unchecked THEN {cut \cup {reads}} ELSE {}]

\* The total, the outcomes, the assignees, the months, the outcomes by month.
CountDeals ==
    /\ chosen # NoRun
    /\ reads < DealReads
    /\ \E got \in Received(Tagged(chosen)) :
          counts' = counts \cup {got.rows} /\ cut' = got.cut
    /\ reads' = reads + 1
    /\ UNCHANGED <<tableVars, clock, syncVars, chosen, markedTotal, markedBy>>

\* The marker, for a run whose activities were available.
CountMarked ==
    /\ reads = DealReads
    /\ run[chosen] = "COMPLETED"
    /\ markedTotal' = markers[chosen]
    /\ reads' = reads + 1
    /\ UNCHANGED <<tableVars, clock, syncVars, chosen, counts, markedBy, cut>>

CountMarkedBy ==
    /\ reads = DealReads + 1
    /\ \E got \in Received(MarkedDeals(chosen)) : markedBy' = got.rows /\ cut' = got.cut
    /\ reads' = reads + 1
    /\ UNCHANGED <<tableVars, clock, syncVars, chosen, counts, markedTotal>>

\* The caller has the statistics, or a query failed.
Answer ==
    /\ chosen # NoRun
    /\ reads' = 0
    /\ chosen' = NoRun
    /\ counts' = {}
    /\ markedTotal' = {}
    /\ markedBy' = {}
    /\ cut' = {}
    /\ UNCHANGED <<tableVars, clock, syncVars>>

-----------------------------------------------------------------------------
\* Two hours pass.
Ages(r) ==
    /\ run[r] = "RUNNING"
    /\ r \notin old
    /\ old' = old \cup {r}
    /\ UNCHANGED <<run, finished, collected, markers, tag, erased, clock, syncVars, readerVars>>

\* Governance deletes a deal (governance/service.go, DeleteDeal); its markers
\* go with it.
Erase(d) ==
    /\ tag[d] # NoRun
    /\ tag' = [tag EXCEPT ![d] = NoRun]
    /\ markers' = [r \in Runs |-> markers[r] \ {d}]
    /\ erased' = erased \cup {d}
    /\ UNCHANGED <<run, old, finished, collected, clock, syncVars, readerVars>>

SyncStep(s) ==
    \/ CancelStale(s)
    \/ CheckRunning(s)
    \/ \E r \in Runs : Insert(s, r)
    \/ InsertRefused(s)
    \/ CollectDeals(s)
    \/ CollectMarkers(s)
    \/ PublishBegins(s)
    \/ PublishCommits(s)
    \/ PublishFails(s)
    \/ FinishFailed(s)
    \/ Crash(s)

ReaderStep ==
    \/ \E r \in Runs : ChooseRun(r)
    \/ CountDeals
    \/ CountMarked
    \/ CountMarkedBy
    \/ Answer

CrmNext ==
    \/ \E s \in Syncers : SyncStep(s)
    \/ ReaderStep
    \/ \E r \in Runs : Ages(r)
    \/ \E d \in Deals : Erase(d)

CrmSpec == CrmInit /\ [][CrmNext]_crmVars

-----------------------------------------------------------------------------
(* Properties. *)

\* At most one run is RUNNING, however many processes start one at once and
\* whichever of them Start took for abandoned (docs/crm-global-statistics.md:
\* "Duas sincronizações simultâneas são rejeitadas pelo banco").
OneRunning ==
    \A q, r \in Runs : run[q] = "RUNNING" /\ run[r] = "RUNNING" => q = r

\* The run Statistics picks is the last one that was published, and the deals
\* tagged with it are exactly those it collected, but for deals erased since:
\* neither a late publication of an abandoned run nor finished_at being the
\* start of its transaction shows an older or a mixed snapshot.
ShownIsWhole ==
    \A r \in Runs : IsShown(r) =>
        /\ Tagged(r) \subseteq collected[r]
        /\ collected[r] \ Tagged(r) \subseteq erased

\* A run ends once: published, failed and canceled runs never change, whoever
\* still works on them or lost the answer of their publication.
RunsEndOnce ==
    [][\A r \in Runs : run[r] \in Ended =>
          run'[r] = run[r] /\ collected'[r] = collected[r]]_crmVars

\* The marker's shares of the assignees never exceed the marker's total, and add up
\* to it, although two queries read them with publications in between: marker rows
\* belong to a run and no other run touches them.  They fall short only of deals
\* erased since and of rows lost by a read cut short, which Statistics returns as
\* if it were whole.
MarkedAddUp ==
    reads = DealReads + 2 =>
        /\ markedBy \subseteq markedTotal
        /\ (DealReads + 1 \notin cut) => markedTotal \ markedBy \subseteq erased

\* The total and its distributions, unless a read of them was cut short, are those
\* of one published snapshot (docs/crm-global-statistics.md: "Total global:
\* COUNT(DISTINCT bitrix_deal_id) do último snapshot publicado").
StatisticsOfOneSnapshot ==
    cut \subseteq {DealReads + 1} =>
        \A D \in counts : D \subseteq collected[chosen] /\ collected[chosen] \ D \subseteq erased

\* No count goes beyond the deals of the snapshot reported.
CountsWithinSnapshot == \A D \in counts : D \subseteq collected[chosen]

\* The run a call reports is still the one that a call would choose now: no
\* publication has overtaken it.
ReportIsCurrent == chosen # NoRun => IsShown(chosen)
=============================================================================
