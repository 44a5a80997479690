----------------------------- MODULE TuiRequests -----------------------------
(***************************************************************************)
(* The terminal UI as a machine of requests and answers                    *)
(* (internal/audit/interfaces/tui: model.go, ux.go, batch.go,              *)
(* crm_statistics.go).  Update handles one message at a time, a key or the *)
(* answer of a command; commands run as goroutines and answer in any       *)
(* order, at any later time, whatever the user does meanwhile.             *)
(*                                                                         *)
(* Of each screen its part in the navigation is kept; "Priorities" stands  *)
(* for the lists that open a deal, "Funnel" for the tables that open the   *)
(* list of priorities, or nothing.  Screens no key leads to (summary,      *)
(* audit progress and result) are left out, as are cursors, scrolling,     *)
(* filters' values and what only renders.                                  *)
(*                                                                         *)
(* Bounds: MaxRequests caps requestSequence, MaxPolls the polling loops    *)
(* the user starts on one batch.                                           *)
(***************************************************************************)
EXTENDS Naturals, Sequences, FiniteSets

CONSTANTS Deals,        \* Bitrix deal identifiers
          NoDeal,       \* the zero deal id
          Audits,       \* assessments of a deal, numbered from 1 for each deal
          MaxRequests,  \* bound on requestSequence
          MaxPolls      \* bound on the polling loops of a batch

ASSUME TuiAssumption ==
    /\ NoDeal \notin Deals
    /\ Audits \subseteq Nat \ {0}
    /\ MaxRequests \in Nat \ {0}
    /\ MaxPolls \in Nat \ {0}

BusinessScreens == {"Executive", "Funnel", "Priorities", "Help"}
Screens == BusinessScreens \cup
    {"Menu", "Findings", "DealSearch", "DealDetail", "Analysis", "Raw",
     "BatchImport", "BatchProgress", "Error"}

VARIABLES
    \* navigation
    screen,
    navigation,     \* the stack of screens to go back to
    errorReturn, detailOrigin, searchOrigin,
    focus,          \* text fields that have the focus: "search", "batch"
    filterOpen,
    \* reads
    seq,            \* requestSequence
    loading,
    active,         \* the read of a table in progress: request, kind, about
    retry,          \* the read that r repeats on the error screen
    businessTarget, \* the screen the last dashboard was loaded for
    detail,         \* the deal shown and its assessment
    analysis,       \* the deal and the assessment whose analysis is shown
    \* background jobs
    exporting, reportGenerating, pdfGenerating, crmSyncing,
    \* the batch
    batchRequest, batchLoading,
    batchOpen,      \* the batch shown is not terminal
    timers,         \* timers[r] : batchPollCmd timers running for request r
    polls,          \* polls[r]  : loadBatchProgress calls in flight for r
    \* every other command in flight: kind, request, about
    pending

navigationVars == <<screen, navigation, errorReturn, detailOrigin, searchOrigin, focus, filterOpen>>
readVars  == <<seq, loading, active, retry, businessTarget, detail, analysis>>
jobVars   == <<exporting, reportGenerating, pdfGenerating, crmSyncing>>
batchVars == <<batchRequest, batchLoading, batchOpen, timers, polls>>
tuiVars   == <<navigationVars, readVars, jobVars, batchVars, pending>>

ReadKinds == {"findings", "detail", "analysis"}
Requests  == 0..MaxRequests

\* A deal and its assessment, 0 for none; findings are about Nothing.
Subjects  == (Deals \cup {NoDeal}) \X (Audits \cup {0})
Nothing   == <<NoDeal, 0>>
NoRead    == [request |-> 0, kind |-> "none", about |-> Nothing]
NoRetry   == [kind |-> "none", about |-> Nothing]

Messages ==
    [kind : ReadKinds \cup {"report", "created", "canceled", "sync", "pdf"},
     request : Requests, about : Subjects]
    \cup [kind : {"business", "csv"}, request : Requests, about : Screens]

NavigationTypeOK ==
    /\ screen \in Screens
    /\ navigation \in Seq(Screens)
    /\ {errorReturn, detailOrigin, searchOrigin} \subseteq Screens
    /\ focus \subseteq {"search", "batch"}

ReadsTypeOK ==
    /\ seq \in Requests
    /\ active \in [request : Requests, kind : ReadKinds \cup {"none"}, about : Subjects]
    /\ active.request = 0 => active = NoRead
    /\ retry \in [kind : ReadKinds \cup {"none"}, about : Subjects]
    /\ businessTarget \in Screens
    /\ {detail, analysis} \subseteq Subjects

FlagsTypeOK ==
    /\ filterOpen \in BOOLEAN /\ loading \in BOOLEAN
    /\ exporting \in BOOLEAN /\ reportGenerating \in BOOLEAN
    /\ pdfGenerating \in BOOLEAN /\ crmSyncing \in BOOLEAN
    /\ batchLoading \in BOOLEAN /\ batchOpen \in BOOLEAN

BatchTypeOK ==
    /\ batchRequest \in Requests
    /\ timers \in [Requests -> Nat]
    /\ polls \in [Requests -> Nat]

TuiTypeOK ==
    /\ NavigationTypeOK
    /\ ReadsTypeOK
    /\ BatchTypeOK
    /\ FlagsTypeOK
    /\ pending \subseteq Messages

TuiInit ==
    /\ screen = "Menu"
    /\ navigation = <<>>
    /\ errorReturn = "Menu" /\ detailOrigin = "Menu" /\ searchOrigin = "Menu"
    /\ focus = {}
    /\ filterOpen = FALSE
    /\ seq = 0
    /\ loading = FALSE
    /\ active = NoRead
    /\ retry = NoRetry
    /\ businessTarget = "Menu"
    /\ detail = Nothing
    /\ analysis = Nothing
    /\ exporting = FALSE /\ reportGenerating = FALSE
    /\ pdfGenerating = FALSE /\ crmSyncing = FALSE
    /\ batchRequest = 0
    /\ batchLoading = FALSE
    /\ batchOpen = FALSE
    /\ timers = [r \in Requests |-> 0]
    /\ polls = [r \in Requests |-> 0]
    /\ pending = {}

-----------------------------------------------------------------------------
(* Helpers of Update. *)

Command(kind, r, about) == [kind |-> kind, request |-> r, about |-> about]

\* beginRead.  Its callers are handled only when nothing is loading; inflight
\* are the commands that stay in flight.
BeginRead(kind, about) ==
    /\ seq < MaxRequests
    /\ seq' = seq + 1
    /\ active' = [request |-> seq + 1, kind |-> kind, about |-> about]
    /\ retry' = [kind |-> kind, about |-> about]
    /\ loading' = TRUE
    /\ pending' = pending \cup {Command(kind, seq + 1, about)}
    /\ UNCHANGED <<businessTarget, detail, analysis>>

LoadBusiness(target, inflight) ==
    /\ seq < MaxRequests
    /\ seq' = seq + 1
    /\ businessTarget' = target
    /\ loading' = TRUE
    /\ pending' = inflight \cup {Command("business", seq + 1, target)}
    /\ UNCHANGED <<active, retry, detail, analysis>>

\* isCurrent: the read a screen waits for.  The wrong one (for mutation) looks at
\* the kind only.
IsCurrentKind(m) == active.kind = m.kind
IsCurrent(m) ==
    /\ active.request = m.request
    /\ active.kind = m.kind
    /\ active.about[1] = m.about[1]

\* showError, from the error screen returning to where ret says.
ShowError(ret, operation) ==
    /\ errorReturn' = IF screen # "Error" THEN screen ELSE ret
    /\ screen' = "Error"
    /\ loading' = FALSE
    /\ retry' = operation

\* pushNavigation.
Pushed ==
    IF navigation # <<>> /\ navigation[Len(navigation)] = screen
    THEN navigation ELSE Append(navigation, screen)

\* A key reaches handleKey when no text field has the focus, and is acted upon
\* when nothing is loading and the filter is closed.  The wrong one (for
\* mutation) does not look at loading.
KeyAlways(s) == screen = s /\ focus = {} /\ ~filterOpen
Key(s) == screen = s /\ focus = {} /\ ~filterOpen /\ ~loading

\* An answer is taken out of flight.
Drop(m) == pending' = pending \ {m}

\* An answer nobody waits for.
Ignore(m) ==
    /\ Drop(m)
    /\ UNCHANGED <<navigationVars, readVars, jobVars, batchVars>>

-----------------------------------------------------------------------------
(* Esc: navigateBack. *)

\* The read in progress is forgotten.  The wrong ones (for mutation) keep it, or
\* all of it but its request.
KeepRead == UNCHANGED active
ForgetRequest == active' = [active EXCEPT !.request = 0]
ForgetRead == active' = NoRead

\* Whatever is in flight is abandoned, by a new request number.
Abandon ==
    /\ seq < MaxRequests
    /\ seq' = seq + 1
    /\ batchRequest' = seq + 1
    /\ batchLoading' = FALSE
    /\ ForgetRead
    /\ loading' = FALSE
    /\ reportGenerating' = FALSE
    /\ retry' = NoRetry

\* Where Esc leads without the stack.
BackTarget ==
    CASE screen = "DealSearch" -> searchOrigin
      [] screen = "DealDetail" ->
            IF detailOrigin \in {"Findings", "DealSearch"} THEN detailOrigin ELSE "Menu"
      [] screen = "Analysis" -> "DealDetail"
      [] screen = "Raw" -> "Analysis"
      [] screen = "Error" -> IF errorReturn = "Error" THEN "Menu" ELSE errorReturn
      [] OTHER -> "Menu"

PopsNavigation ==
    navigation # <<>> /\ screen \in {"DealDetail", "Analysis", "Raw", "Error"}

Esc ==
    /\ IF PopsNavigation
       THEN /\ screen' = navigation[Len(navigation)]
            /\ navigation' = SubSeq(navigation, 1, Len(navigation) - 1)
            /\ UNCHANGED focus
       ELSE /\ screen' = BackTarget
            /\ focus' = CASE screen = "BatchImport" -> focus \ {"batch"}
                          [] screen = "DealSearch" -> focus \ {"search"}
                          [] screen = "DealDetail" /\ BackTarget = "DealSearch" ->
                                focus \cup {"search"}
                          [] OTHER -> focus
            /\ UNCHANGED navigation
    /\ ~filterOpen
    /\ Abandon
    /\ UNCHANGED <<errorReturn, detailOrigin, searchOrigin, filterOpen, businessTarget,
                   detail, analysis, exporting, pdfGenerating, crmSyncing, batchOpen,
                   timers, polls, pending>>

EscFilter ==
    /\ filterOpen
    /\ filterOpen' = FALSE
    /\ UNCHANGED <<screen, navigation, errorReturn, detailOrigin, searchOrigin, focus,
                   readVars, jobVars, batchVars, pending>>

-----------------------------------------------------------------------------
(* Keys that lead from screen to screen. *)

OpenHelp ==
    /\ Key("Menu")
    /\ screen' = "Help"
    /\ UNCHANGED <<navigation, errorReturn, detailOrigin, searchOrigin, focus, filterOpen,
                   readVars, jobVars, batchVars, pending>>

OpenBatchImport ==
    /\ Key("Menu")
    /\ screen' = "BatchImport"
    /\ focus' = focus \cup {"batch"}
    /\ UNCHANGED <<navigation, errorReturn, detailOrigin, searchOrigin, filterOpen,
                   readVars, jobVars, batchVars, pending>>

StartSearch ==
    /\ Key("Menu") \/ Key("Findings")
    /\ searchOrigin' = screen
    /\ screen' = "DealSearch"
    /\ focus' = focus \cup {"search"}
    /\ UNCHANGED <<navigation, errorReturn, detailOrigin, filterOpen,
                   readVars, jobVars, batchVars, pending>>

OpenRaw ==
    /\ Key("Analysis")
    /\ navigation' = Pushed
    /\ screen' = "Raw"
    /\ UNCHANGED <<errorReturn, detailOrigin, searchOrigin, focus, filterOpen,
                   readVars, jobVars, batchVars, pending>>

OpenFilter ==
    /\ screen \in BusinessScreens /\ Key(screen)
    /\ filterOpen' = TRUE
    /\ UNCHANGED <<screen, navigation, errorReturn, detailOrigin, searchOrigin, focus,
                   readVars, jobVars, batchVars, pending>>

-----------------------------------------------------------------------------
(* Keys that read. *)

\* A menu entry, a reload (r, and c and d, which change filters), or a stage
\* chosen in the funnel.
OpenDashboard ==
    /\ \/ Key("Menu") /\ \E s \in BusinessScreens \ {"Help"} : LoadBusiness(s, pending)
       \/ screen \in BusinessScreens /\ Key(screen) /\ LoadBusiness(screen, pending)
       \/ Key("Funnel") /\ LoadBusiness("Priorities", pending)
    /\ UNCHANGED <<navigationVars, jobVars, batchVars>>

\* handleFilterKey, on whatever screen the filter was left open.
ApplyFilter ==
    /\ filterOpen /\ focus = {} /\ ~loading
    /\ filterOpen' = FALSE
    /\ LoadBusiness(screen, pending)
    /\ UNCHANGED <<screen, navigation, errorReturn, detailOrigin, searchOrigin, focus,
                   jobVars, batchVars>>

\* The menu, paging, filters and r.
ReadFindings ==
    /\ Key("Menu") \/ Key("Findings")
    /\ BeginRead("findings", Nothing)
    /\ UNCHANGED <<navigationVars, jobVars, batchVars>>

OpenFinding(d) ==
    /\ Key("Findings")
    /\ detailOrigin' = "Findings"
    /\ BeginRead("detail", <<d, 0>>)
    /\ UNCHANGED <<screen, navigation, errorReturn, searchOrigin, focus, filterOpen,
                   jobVars, batchVars>>

OpenPriority(d) ==
    /\ Key("Priorities")
    /\ navigation' = Pushed
    /\ BeginRead("detail", <<d, 0>>)
    /\ UNCHANGED <<screen, errorReturn, detailOrigin, searchOrigin, focus, filterOpen,
                   jobVars, batchVars>>

\* updateSearch: Enter with a valid id, wherever the field has kept the focus.
SearchDeal(d) ==
    /\ "search" \in focus
    /\ focus' = focus \ {"search"}
    /\ detailOrigin' = "DealSearch"
    /\ IF loading THEN UNCHANGED <<readVars, pending>> ELSE BeginRead("detail", <<d, 0>>)
    /\ UNCHANGED <<screen, navigation, errorReturn, searchOrigin, filterOpen, jobVars, batchVars>>

RefreshDeal ==
    /\ Key("DealDetail")
    /\ BeginRead("detail", <<detail[1], 0>>)
    /\ UNCHANGED <<navigationVars, jobVars, batchVars>>

OpenAnalysis ==
    /\ Key("DealDetail")
    /\ detail[2] # 0
    /\ navigation' = Pushed
    /\ BeginRead("analysis", detail)
    /\ UNCHANGED <<screen, errorReturn, detailOrigin, searchOrigin, focus, filterOpen,
                   jobVars, batchVars>>

RefreshAnalysis ==
    /\ Key("Analysis")
    /\ BeginRead("analysis", analysis)
    /\ UNCHANGED <<navigationVars, jobVars, batchVars>>

Retry ==
    /\ Key("Error")
    /\ retry.kind # "none"
    /\ BeginRead(retry.kind, retry.about)
    /\ UNCHANGED <<navigationVars, jobVars, batchVars>>

-----------------------------------------------------------------------------
(* Keys that start a job. *)

\* The funnel itself exports nothing, other screens it stands for do.
ExportCSV ==
    /\ Key("Priorities") \/ Key("Funnel")
    /\ ~exporting
    /\ seq < MaxRequests
    /\ seq' = seq + 1
    /\ exporting' = TRUE
    /\ pending' = pending \cup {Command("csv", seq + 1, screen)}
    /\ UNCHANGED <<navigationVars, loading, active, retry, businessTarget, detail, analysis,
                   reportGenerating, pdfGenerating, crmSyncing, batchVars>>

\* businessPDFRequest numbers the executive reports; while one is generated p
\* does nothing, so its answer always carries the current number.
ExportExecutivePDF ==
    /\ Key("Executive")
    /\ ~pdfGenerating
    /\ pdfGenerating' = TRUE
    /\ pending' = pending \cup {Command("pdf", 0, Nothing)}
    /\ UNCHANGED <<navigationVars, readVars, exporting, reportGenerating, crmSyncing, batchVars>>

\* The answer is told by its assessment, not by a request; seq is only here so
\* that two reports of one assessment are two.
ExportReport ==
    /\ Key("DealDetail")
    /\ ~reportGenerating
    /\ detail[2] # 0
    /\ reportGenerating' = TRUE
    /\ pending' = pending \cup {Command("report", seq, detail)}
    /\ UNCHANGED <<navigationVars, readVars, exporting, pdfGenerating, crmSyncing, batchVars>>

\* One synchronization at a time.  The wrong one (for mutation) looks at loading.
MaySyncUnlessLoading == ~loading
MaySync == ~crmSyncing

StartSync ==
    /\ Key("Executive")
    /\ MaySync
    /\ seq < MaxRequests
    /\ seq' = seq + 1
    /\ crmSyncing' = TRUE
    /\ pending' = pending \cup {Command("sync", seq + 1, Nothing)}
    /\ UNCHANGED <<navigationVars, loading, active, retry, businessTarget, detail, analysis,
                   exporting, reportGenerating, pdfGenerating, batchVars>>

\* updateBatchInput: Enter with a list, wherever the field has kept the focus.
CreateBatch ==
    /\ focus = {"batch"}
    /\ ~batchLoading
    /\ seq < MaxRequests
    /\ seq' = seq + 1
    /\ batchRequest' = seq + 1
    /\ batchLoading' = TRUE
    /\ pending' = pending \cup {Command("created", seq + 1, Nothing)}
    /\ UNCHANGED <<navigationVars, loading, active, retry, businessTarget, detail, analysis,
                   jobVars, batchOpen, timers, polls>>

\* r on the batch's screen adds a polling loop to those there are.
PollNow ==
    /\ Key("BatchProgress")
    /\ timers[batchRequest] + polls[batchRequest] < MaxPolls
    /\ polls' = [polls EXCEPT ![batchRequest] = @ + 1]
    /\ UNCHANGED <<navigationVars, readVars, jobVars, batchRequest, batchLoading, batchOpen,
                   timers, pending>>

CancelBatch ==
    /\ Key("BatchProgress")
    /\ ~batchLoading
    /\ batchOpen
    /\ timers[batchRequest] + polls[batchRequest] < MaxPolls
    /\ batchLoading' = TRUE
    /\ pending' = pending \cup {Command("canceled", batchRequest, Nothing)}
    /\ UNCHANGED <<navigationVars, readVars, jobVars, batchRequest, batchOpen, timers, polls>>
-----------------------------------------------------------------------------
(* Answers of the reads. *)

OfKind(kinds) == {m \in pending : m.kind \in kinds}

\* An analysis is accepted only of the assessment asked for; another one is an
\* error.  The wrong one (for mutation) takes the deal's latest.
TakeLatestAnalysis(m) == \E a \in Audits : analysis' = <<m.about[1], a>>
TakeAnalysis(m) == analysis' = m.about

\* A table, a deal or an analysis.  The deal's latest assessment is whichever
\* the database holds.
ReadAnswered(m) ==
    /\ m \in OfKind(ReadKinds)
    /\ IF ~IsCurrent(m) THEN Ignore(m)
       ELSE /\ Drop(m)
            /\ active' = NoRead
            /\ \/ /\ ShowError(errorReturn, [kind |-> m.kind, about |-> m.about])
                  /\ UNCHANGED <<detail, analysis>>
               \/ /\ loading' = FALSE
                  /\ retry' = NoRetry
                  /\ UNCHANGED errorReturn
                  /\ CASE m.kind = "findings" ->
                            screen' = "Findings" /\ UNCHANGED <<detail, analysis>>
                       [] m.kind = "detail" ->
                            /\ screen' = "DealDetail"
                            /\ \E a \in Audits \cup {0} : detail' = <<m.about[1], a>>
                            /\ UNCHANGED analysis
                       [] OTHER ->
                            screen' = "Analysis" /\ detail' = m.about /\ TakeAnalysis(m)
            /\ UNCHANGED <<navigation, detailOrigin, searchOrigin, focus, filterOpen, seq,
                           businessTarget, jobVars, batchVars>>

BusinessAnswered(m) ==
    /\ m \in OfKind({"business"})
    /\ IF m.request # seq \/ m.about # businessTarget THEN Ignore(m)
       ELSE /\ Drop(m)
            /\ \/ ShowError(errorReturn, NoRetry)
               \/ /\ screen' = m.about
                  /\ loading' = FALSE
                  /\ UNCHANGED <<errorReturn, retry>>
            /\ UNCHANGED <<navigation, detailOrigin, searchOrigin, focus, filterOpen, seq,
                           active, businessTarget, detail, analysis, jobVars, batchVars>>

-----------------------------------------------------------------------------
(* Answers of the jobs. *)

\* An error moves to the error screen, from Executive's if ret says so; a success
\* only says where the file is.
JobEnds(ret) ==
    /\ \/ ShowError(ret, NoRetry)
       \/ UNCHANGED <<screen, errorReturn, loading, retry>>
    /\ UNCHANGED <<navigation, detailOrigin, searchOrigin, focus, filterOpen, seq, active,
                   businessTarget, detail, analysis, crmSyncing, batchVars>>

CsvAnswered(m) ==
    /\ m \in OfKind({"csv"})
    /\ IF m.request # seq \/ m.about # screen THEN Ignore(m)
       ELSE /\ Drop(m)
            /\ exporting' = FALSE
            /\ JobEnds(errorReturn)
            /\ UNCHANGED <<reportGenerating, pdfGenerating>>

ExecutivePDFAnswered(m) ==
    /\ m \in OfKind({"pdf"})
    /\ Drop(m)
    /\ pdfGenerating' = FALSE
    /\ JobEnds("Executive")
    /\ UNCHANGED <<exporting, reportGenerating>>

ReportAnswered(m) ==
    /\ m \in OfKind({"report"})
    /\ IF m.about # detail \/ screen # "DealDetail" THEN Ignore(m)
       ELSE /\ Drop(m)
            /\ reportGenerating' = FALSE
            /\ JobEnds(errorReturn)
            /\ UNCHANGED <<exporting, pdfGenerating>>

\* Success reloads the executive view where it is shown.
SyncAnswered(m) ==
    /\ m \in OfKind({"sync"})
    /\ crmSyncing' = FALSE
    /\ \/ Drop(m) /\ UNCHANGED readVars
       \/ /\ screen = "Executive" /\ ~loading
          /\ LoadBusiness("Executive", pending \ {m})
    /\ UNCHANGED <<navigationVars, exporting, reportGenerating, pdfGenerating, batchVars>>

-----------------------------------------------------------------------------
(* Answers of the batch. *)

\* batchPollCmd.  The wrong one (for mutation) is left out after an error.
PollsUnlessError(r) == timers' \in {timers, [timers EXCEPT ![r] = @ + 1]}
PollsAgain(r) == timers' = [timers EXCEPT ![r] = @ + 1]

BatchCreated(m) ==
    /\ m \in OfKind({"created"})
    /\ IF m.request # batchRequest THEN Ignore(m)
       ELSE /\ Drop(m)
            /\ batchLoading' = FALSE
            /\ \/ UNCHANGED <<screen, focus, batchOpen, timers>>
               \/ /\ batchOpen' = TRUE
                  /\ screen' = "BatchProgress"
                  /\ focus' = focus \ {"batch"}
                  /\ PollsAgain(m.request)
            /\ UNCHANGED <<navigation, errorReturn, detailOrigin, searchOrigin, filterOpen,
                           readVars, jobVars, batchRequest, polls>>

BatchCanceled(m) ==
    /\ m \in OfKind({"canceled"})
    /\ IF m.request # batchRequest THEN Ignore(m)
       ELSE /\ Drop(m)
            /\ batchLoading' = FALSE
            /\ \/ UNCHANGED polls
               \/ polls' = [polls EXCEPT ![m.request] = @ + 1]
            /\ UNCHANGED <<navigationVars, readVars, jobVars, batchRequest, batchOpen, timers>>

\* The request whose answers the batch's screen takes.
OnBatch(r) == r = batchRequest /\ screen = "BatchProgress"

\* batchPollMsg.
TimerFires(r) ==
    /\ timers[r] > 0
    /\ timers' = [timers EXCEPT ![r] = @ - 1]
    /\ polls' = IF OnBatch(r) /\ batchOpen THEN [polls EXCEPT ![r] = @ + 1] ELSE polls
    /\ UNCHANGED <<navigationVars, readVars, jobVars, batchRequest, batchLoading, batchOpen,
                   pending>>

\* batchProgressMsg: an error, or the batch as the query found it; with several
\* loops an older answer may come last and show a finished batch open again.
ProgressAnswered(r) ==
    /\ polls[r] > 0
    /\ polls' = [polls EXCEPT ![r] = @ - 1]
    /\ IF OnBatch(r)
       THEN /\ PollsAgain(r)
            /\ batchOpen' \in BOOLEAN
       ELSE UNCHANGED <<timers, batchOpen>>
    /\ UNCHANGED <<navigationVars, readVars, jobVars, batchRequest, batchLoading, pending>>

-----------------------------------------------------------------------------
UserStep ==
    \/ Esc \/ EscFilter
    \/ OpenHelp \/ OpenBatchImport \/ StartSearch \/ OpenRaw \/ OpenFilter
    \/ OpenDashboard \/ ApplyFilter \/ ReadFindings
    \/ \E d \in Deals : OpenFinding(d) \/ OpenPriority(d) \/ SearchDeal(d)
    \/ RefreshDeal \/ OpenAnalysis \/ RefreshAnalysis \/ Retry
    \/ ExportCSV \/ ExportExecutivePDF \/ ExportReport \/ StartSync
    \/ CreateBatch \/ PollNow \/ CancelBatch

AnswerStep ==
    \/ \E m \in pending :
          \/ ReadAnswered(m) \/ BusinessAnswered(m)
          \/ CsvAnswered(m) \/ ExecutivePDFAnswered(m) \/ ReportAnswered(m) \/ SyncAnswered(m)
          \/ BatchCreated(m) \/ BatchCanceled(m)
    \/ \E r \in Requests : TimerFires(r) \/ ProgressAnswered(r)

TuiNext == UserStep \/ AnswerStep
TuiSpec == TuiInit /\ [][TuiNext]_tuiVars

-----------------------------------------------------------------------------
(* Properties. *)

\* The answers in flight that the screen would take for what it waits for.
Awaited(m) ==
    \/ m.kind \in ReadKinds /\ IsCurrent(m)
    \/ m.kind = "business" /\ m.request = seq /\ m.about = businessTarget
Expected == {m \in pending : Awaited(m)}

\* While the screen says it is loading, exactly one answer in flight will be
\* taken for it, whatever was abandoned before: the screen cannot hang on an
\* answer that is dropped as stale, and two loads never race.  When it says
\* nothing is loading, no answer in flight can still replace it, unless the error
\* screen of a background job came up over a load.
LoadingIsAnswered ==
    /\ loading => \E m \in pending : Expected = {m}
    /\ ~loading /\ screen # "Error" => Expected = {}

\* crmSyncing and businessPDFGenerating, which keep a second job from starting,
\* are set exactly while one is running, through any navigation meanwhile.
FlagsTellTheTruth ==
    /\ Cardinality(OfKind({"sync"})) = IF crmSyncing THEN 1 ELSE 0
    /\ Cardinality(OfKind({"pdf"})) = IF pdfGenerating THEN 1 ELSE 0

\* The analysis and the raw response are shown under the deal and the assessment
\* they belong to, whichever answers were late and however the screen was reached.
AnalysisIsOfDeal == screen \in {"Analysis", "Raw"} => analysis = detail

\* The screen, the deal and the batch beneath an error.
Beneath == <<navigation, detailOrigin, searchOrigin, focus, filterOpen, active, detail, analysis, batchVars>>

\* A read, a dashboard, a CSV export or a request of the batch asked for before Esc
\* changes nothing when it is answered afterwards.  A report, an executive PDF and a
\* synchronization outlive Esc: however late their answer comes it may put the error
\* screen over the one shown and start the executive view anew, but leaves the deal, its
\* analysis, the read that is awaited, the way back and the batch alone, and a
\* report's does nothing at all once another deal or assessment is held.  Of two
\* reports of one assessment, which an Esc between them allows (model.go:1028), the
\* first to answer clears the flag of both.
LateAnswersAreDropped ==
    [][\A m \in pending \ pending' :
          /\ /\ m.kind \in ReadKinds \cup {"business", "csv", "created", "canceled"}
             /\ m.request < batchRequest
             => UNCHANGED <<navigationVars, readVars, jobVars, batchVars>>
          /\ m.kind \in {"report", "pdf", "sync"} =>
                UNCHANGED Beneath /\ screen' \in {screen, "Error"}
          /\ m.kind = "report" /\ m.about # detail =>
                UNCHANGED <<navigationVars, readVars, jobVars, batchVars>>]_tuiVars

Loops(r) == timers[r] + polls[r]

\* A batch shown open is polled: "a tela mostra progresso persistente, atualiza
\* automaticamente" (README.md:134).  It need not be: the error of an executive PDF
\* covers the batch's screen (model.go:377-384), the next poll finds another screen and
\* is the last (404-412), and Esc goes back to the batch under a new request (1017).
OpenBatchIsPolled == screen = "BatchProgress" /\ batchOpen => Loops(batchRequest) > 0

\* While its screen shows a batch open none of its loops ends, those of a request left
\* behind never multiply, and an open batch comes to be shown without one only on the
\* way back from the error screen.
PollingLoops ==
    [][/\ \A r \in Requests :
             /\ (OnBatch(r) /\ batchOpen /\ OnBatch(r)' /\ batchOpen') => Loops(r)' >= Loops(r)
             /\ r # batchRequest' => Loops(r)' <= Loops(r)
       /\ OpenBatchIsPolled /\ ~OpenBatchIsPolled' => screen = "Error"]_tuiVars
=============================================================================
