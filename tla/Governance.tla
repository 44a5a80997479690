------------------------------ MODULE Governance ------------------------------
(***************************************************************************)
(* Deletion of a deal and retention (internal/governance, cmd/datadelete,  *)
(* cmd/retention) beside audits that store rows and exports that write     *)
(* files into REPORTS_DIR (internal/api/application/export_report.go,      *)
(* internal/business/application/export.go and executive_pdf.go).          *)
(*                                                                         *)
(* An assessment stands for its row with its findings; its analysis may    *)
(* keep the raw response.  A row is expired when its date is before the    *)
(* cutoff; a message without sent_at never is.  A file is named after its  *)
(* subject, an assessment or a digest (a CSV file, the executive report),  *)
(* alone or with the second it was made in.  A dry run only counts, and    *)
(* the counts are only printed.                                            *)
(***************************************************************************)
EXTENDS Naturals, FiniteSets

CONSTANTS Deals,        \* Bitrix deal identifiers
          None,         \* no row, no job, no file
          Messages,     \* keys of conversation_messages
          Assessments,  \* identifiers the table may give, each once
          Batched,      \* those of audits that the queue runs
          Expired,      \* messages sent before the cutoff
          Digests,      \* files about no single deal
          Stamps,       \* seconds, for a name that is taken
          Commands,     \* runs of datadelete and of retention
          Exporters,    \* goroutines that write a file
          Retained,     \* kinds that are kept for a number of days, not for ever
          Batch,        \* RetentionPolicy.Batch
          MaxExports    \* bound: exports in a behaviour

Kinds == {"messages", "raw_analysis", "assessments", "reports"}
Plain == 0
Names == [subject : Assessments \cup Digests, stamp : Stamps \cup {Plain}]

ASSUME GovernanceAssumption ==
    /\ None \notin Deals \cup Names
    /\ IsFiniteSet(Messages) /\ IsFiniteSet(Assessments)
    /\ Assessments \cap Messages = {} /\ Assessments \cap Digests = {}
    /\ Expired \subseteq Messages
    /\ Assessments \subseteq Nat /\ Batched \subseteq Assessments
    /\ Plain \notin Stamps
    /\ Exporters \cap {"none", "partial", "recent", "old"} = {}
    /\ Batch \in Nat \ {0} /\ MaxExports \in Nat
    /\ Retained \subseteq Kinds

VARIABLES
    stored,     \* stored[m]   : the deal of the message's row
    assessed,   \* assessed[a] : the deal of the assessment's row
    raw,        \* assessments whose analysis keeps the raw response
    referenced, \* assessments that an item of a batch refers to
    aged,       \* assessments created before the cutoff
    issuedTo,   \* issuedTo[a] : the deal a was given for, row or no row
    files,      \* files[n]: absent, being written by an exporter, partial or whole
    pc,         \* pc[c]     : where a command is
    target,     \* target[c] : the deal it deletes, None for retention
    ids,        \* ids[c]    : assessments it has read
    listed,     \* listed[c] : files it is to remove
    kinds,      \* kinds[c]  : what it has yet to retain
    chosen,     \* chosen[c] : rows its statement has selected
    disturbed,  \* disturbed[c]: others deleted or stored expired rows meanwhile
    unseen,     \* unseen[c] : files written since it has read ids[c]
    late,       \* late[c]   : rows of its deal stored since it has deleted them
    job,        \* job[e]    : what an exporter writes about
    path,       \* path[e]   : the file it writes
    exports     \* exports that have begun

rowVars     == <<stored, assessed, raw, referenced, aged, issuedTo>>
deleteVars  == <<target, ids, listed>>
retainVars  == <<kinds, chosen>>
historyVars == <<disturbed, unseen, late>>
exportVars  == <<job, path, exports>>
govVars     == <<rowVars, files, pc, deleteVars, retainVars, historyVars, exportVars>>

Present(table) == {r \in DOMAIN table : table[r] # None}
Whole(n) == files[n] \in {"recent", "old"}

\* Two foreign keys of the tables are part of it.
GovernanceTypeOK ==
    /\ stored \in [Messages -> Deals \cup {None}]
    /\ assessed \in [Assessments -> Deals \cup {None}]
    /\ raw \subseteq Present(assessed)
    /\ referenced \subseteq Present(assessed)
    /\ issuedTo \in [Assessments -> Deals \cup {None}]
    /\ aged \subseteq Assessments
    /\ \A a \in Present(assessed) : issuedTo[a] = assessed[a]
    /\ files \in [Names -> {"none", "partial", "recent", "old"} \cup Exporters]
    /\ pc \in [Commands -> {"idle", "listing", "deleting", "removing",
                            "selecting", "retaining", "done", "failed"}]
    /\ target \in [Commands -> Deals \cup {None}]
    /\ ids \in [Commands -> SUBSET Assessments]
    /\ listed \in [Commands -> SUBSET Names]
    /\ kinds \in [Commands -> SUBSET Retained]
    /\ chosen \in [Commands -> SUBSET (Messages \cup Assessments)]
    /\ disturbed \in [Commands -> BOOLEAN]
    /\ unseen \in [Commands -> SUBSET Names]
    /\ late \in [Commands -> SUBSET (Messages \cup Assessments)]
    /\ job \in [Exporters -> Assessments \cup Digests \cup {None}]
    /\ path \in [Exporters -> Names \cup {None}]
    /\ exports \in Nat

GovernanceInit ==
    /\ stored = [m \in Messages |-> None]
    /\ assessed = [a \in Assessments |-> None]
    /\ raw = {} /\ referenced = {} /\ aged = {}
    /\ issuedTo = [a \in Assessments |-> None]
    /\ files = [n \in Names |-> "none"]
    /\ pc = [c \in Commands |-> "idle"]
    /\ target = [c \in Commands |-> None]
    /\ ids = [c \in Commands |-> {}]
    /\ listed = [c \in Commands |-> {}]
    /\ kinds = [c \in Commands |-> {}]
    /\ chosen = [c \in Commands |-> {}]
    /\ disturbed = [c \in Commands |-> FALSE]
    /\ unseen = [c \in Commands |-> {}]
    /\ late = [c \in Commands |-> {}]
    /\ job = [e \in Exporters |-> None]
    /\ path = [e \in Exporters |-> None]
    /\ exports = 0

-----------------------------------------------------------------------------
(* Audits and time.  An audit stores the row of its deal first, a deal deleted     *)
(* before too; when the deal is deleted after that, the audit fails on the foreign *)
(* key.                                                                            *)

Ended(c) == pc[c] \in {"idle", "done", "failed"}
Retaining(c) == target[c] = None /\ pc[c] \in {"selecting", "retaining", "removing"}
Deleted(c) == target[c] # None /\ pc[c] = "removing"

\* A row of deal d is stored; a deletion of d that is past its commit does not see it.
Late(d, r) ==
    late' = [c \in Commands |-> IF Deleted(c) /\ target[c] = d THEN late[c] \cup {r} ELSE late[c]]

\* UpsertBatch: a message that is new, or that was deleted.
StoreMessage(d, m) ==
    /\ stored[m] = None
    /\ stored' = [stored EXCEPT ![m] = d]
    /\ disturbed' = [c \in Commands |-> disturbed[c] \/ (m \in Expired /\ Retaining(c))]
    /\ Late(d, m)
    /\ UNCHANGED <<assessed, raw, referenced, aged, issuedTo, files, pc, deleteVars,
                   retainVars, unseen, exportVars>>

\* The assessment with its analysis and the raw response.  Identifiers are given in
\* order and never again.
Issue(d, a) ==
    /\ issuedTo[a] = None /\ \A b \in Assessments : b < a => issuedTo[b] # None
    /\ assessed' = [assessed EXCEPT ![a] = d]
    /\ issuedTo' = [issuedTo EXCEPT ![a] = d]
    /\ raw' = raw \cup {a}
    /\ Late(d, a)
    /\ UNCHANGED <<stored, referenced, aged, files, pc, deleteVars, retainVars,
                   disturbed, unseen, exportVars>>

\* Queue.Complete puts the assessment into the item of its batch.
Refer(a) ==
    /\ assessed[a] # None /\ a \in Batched \ referenced
    /\ referenced' = referenced \cup {a}
    /\ UNCHANGED <<stored, assessed, raw, aged, issuedTo, files, pc, deleteVars,
                   retainVars, historyVars, exportVars>>

\* No command lasts as long as a retention period.
TimePasses ==
    /\ \A c \in Commands : Ended(c)
    /\ aged' = Present(assessed)
    /\ files' = [n \in Names |-> IF files[n] \in {"recent", "partial"} THEN "old" ELSE files[n]]
    /\ UNCHANGED <<stored, assessed, raw, referenced, issuedTo, pc, deleteVars,
                   retainVars, historyVars, exportVars>>

-----------------------------------------------------------------------------
(* A command. *)

Goes(c, where) == pc' = [pc EXCEPT ![c] = where]

\* Rows leave the tables: S of the messages, T of the assessments with what hangs
\* on them.  An assessment that an item refers to may not go, and the statement
\* fails.  The wrong one (for mutation) has no such foreign key.
DeleteReferenced(S, T) ==
    /\ stored' = [m \in Messages |-> IF m \in S THEN None ELSE stored[m]]
    /\ assessed' = [a \in Assessments |-> IF a \in T THEN None ELSE assessed[a]]
    /\ raw' = raw \ T
Delete(S, T) ==
    /\ T \cap referenced = {}
    /\ stored' = [m \in Messages |-> IF m \in S THEN None ELSE stored[m]]
    /\ assessed' = [a \in Assessments |-> IF a \in T THEN None ELSE assessed[a]]
    /\ raw' = raw \ T

OthersNotice(c) == disturbed' = [o \in Commands |-> disturbed[o] \/ (o # c /\ Retaining(o))]

\* It ends, and leaves nothing of its own behind but what it did to rows and files.
Ends(c, how) ==
    /\ Goes(c, how)
    /\ target' = [target EXCEPT ![c] = None]
    /\ kinds' = [kinds EXCEPT ![c] = {}]
    /\ ids' = [ids EXCEPT ![c] = {}]
    /\ listed' = [listed EXCEPT ![c] = {}]
    /\ chosen' = [chosen EXCEPT ![c] = {}]
    /\ disturbed' = [disturbed EXCEPT ![c] = FALSE]
    /\ unseen' = [unseen EXCEPT ![c] = {}]
    /\ late' = [late EXCEPT ![c] = {}]
    /\ UNCHANGED <<rowVars, files, exportVars>>

\* An error, a canceled context, the death of the process.
Fail(c) == ~Ended(c) /\ Ends(c, "failed")

\* DeleteDeal: the confirmation agrees, the preview has counted, and the assessments
\* are read once more.
Ask(c, d) ==
    /\ pc[c] = "idle"
    /\ pc' = [pc EXCEPT ![c] = "listing"]
    /\ target' = [target EXCEPT ![c] = d]
    /\ ids' = [ids EXCEPT ![c] = {a \in Assessments : assessed[a] = d}]
    /\ UNCHANGED <<rowVars, files, listed, retainVars, historyVars, exportVars>>

\* safeReportFiles.  The wrong one (for mutation) goes by the pattern alone.
ReportsOfAny(c) == {n \in Names : files[n] # "none" /\ n.subject \in Assessments}
Reports(c) == {n \in Names : files[n] # "none" /\ n.subject \in ids[c]}

ListReports(c) ==
    /\ pc[c] = "listing"
    /\ listed' = [listed EXCEPT ![c] = Reports(c)]
    /\ Goes(c, "deleting")
    /\ UNCHANGED <<rowVars, files, target, ids, retainVars, historyVars, exportVars>>

\* That the commit succeeds and its answer is lost is this step and Fail.
DeleteRows(c) ==
    /\ pc[c] = "deleting"
    /\ Delete({m \in Messages : stored[m] = target[c]},
              {a \in Assessments : assessed[a] = target[c]})
    /\ OthersNotice(c)
    /\ Goes(c, "removing")
    /\ UNCHANGED <<referenced, aged, issuedTo, files, deleteVars, retainVars, unseen, late,
                   exportVars>>

\* os.Remove, one file after the other; one that is gone already is an error.  The
\* wrong one (for mutation) goes on after an error.
RemoveOrSkip(c, n) ==
    /\ files' \in {files, [files EXCEPT ![n] = "none"]}
    /\ listed' = [listed EXCEPT ![c] = @ \ {n}]
Remove(c, n) ==
    /\ files[n] # "none"
    /\ files' = [files EXCEPT ![n] = "none"]
    /\ listed' = [listed EXCEPT ![c] = @ \ {n}]

RemoveReport(c) ==
    /\ pc[c] = "removing"
    /\ \E n \in listed[c] : Remove(c, n)
    /\ UNCHANGED <<rowVars, pc, target, ids, retainVars, historyVars, exportVars>>

Succeed(c) ==
    /\ pc[c] = "removing" /\ listed[c] = {}
    /\ Ends(c, "done")

-----------------------------------------------------------------------------
(* Retention. *)

Retain(c) ==
    /\ pc[c] = "idle"
    /\ Goes(c, "selecting")
    /\ kinds' = [kinds EXCEPT ![c] = Retained]
    /\ UNCHANGED <<rowVars, files, deleteVars, chosen, historyVars, exportVars>>

Due(k) ==
    CASE k = "messages"     -> Expired \cap Present(stored)
      [] k = "raw_analysis" -> raw \cap aged
      [] OTHER              -> aged \cap Present(assessed)

\* The kind in hand: the first of those left.
Current(c) ==
    CASE "messages" \in kinds[c]     -> "messages"
      [] "raw_analysis" \in kinds[c] -> "raw_analysis"
      [] OTHER                       -> "assessments"

\* A statement begins: its inner SELECT takes rows in no particular order.
Select(c) ==
    /\ pc[c] = "selecting" /\ ~ kinds[c] \subseteq {"reports"}
    /\ \E S \in SUBSET Due(Current(c)) :
          /\ Cardinality(S) <= Batch
          /\ Cardinality(S) = Batch \/ S = Due(Current(c))
          /\ chosen' = [chosen EXCEPT ![c] = S]
    /\ Goes(c, "retaining")
    /\ UNCHANGED <<rowVars, files, deleteVars, kinds, historyVars, exportVars>>

\* RowsAffected < Batch ends a kind.  The wrong one (for mutation) is off by one.
LastAtBatch(n) == n <= Batch
Last(n) == n < Batch

\* The rows it has selected are deleted, or their raw response cleared, unless
\* another has deleted them meanwhile.
Apply(c) ==
    LET k == Current(c)
        affected == chosen[c] \cap Due(k)
    IN
    /\ pc[c] = "retaining"
    /\ CASE k = "messages"     -> Delete(affected, {})
         [] k = "assessments"  -> Delete({}, affected)
         [] k = "raw_analysis" -> raw' = raw \ affected /\ UNCHANGED <<stored, assessed>>
    /\ kinds' = [kinds EXCEPT ![c] = IF Last(Cardinality(affected)) THEN @ \ {k} ELSE @]
    /\ chosen' = [chosen EXCEPT ![c] = {}]
    /\ OthersNotice(c)
    /\ Goes(c, "selecting")
    /\ UNCHANGED <<referenced, aged, issuedTo, files, deleteVars, unseen, late,
                   exportVars>>

\* retentionReports, the last thing.
Sweep(c) ==
    /\ pc[c] = "selecting" /\ kinds[c] \subseteq {"reports"}
    /\ listed' = [listed EXCEPT ![c] = {n \in Names : /\ "reports" \in kinds[c]
                                                     /\ n.subject \in Assessments
                                                     /\ files[n] = "old"}]
    /\ kinds' = [kinds EXCEPT ![c] = {}]
    /\ Goes(c, "removing")
    /\ UNCHANGED <<rowVars, files, target, ids, chosen, historyVars, exportVars>>

-----------------------------------------------------------------------------
(* Exports. *)

\* GetReportData, or the dashboard, is read and rendered.
Render(e, s) ==
    /\ job[e] = None /\ exports < MaxExports
    /\ exports' = exports + 1
    /\ s \in Digests \/ s \in Present(assessed)
    /\ job' = [job EXCEPT ![e] = s]
    /\ UNCHANGED <<rowVars, files, pc, deleteVars, retainVars, historyVars, path>>

\* O_CREATE|O_EXCL.
Free(n) == files[n] = "none"

\* The plain name, or the one with the second when it is taken.
Create(e) ==
    /\ job[e] # None /\ path[e] = None
    /\ \E n \in Names :
          /\ n.subject = job[e]
          /\ n.stamp # Plain => files[[subject |-> job[e], stamp |-> Plain]] # "none"
          /\ Free(n)
          /\ files' = [files EXCEPT ![n] = e]
          /\ path' = [path EXCEPT ![e] = n]
          /\ unseen' = [c \in Commands |-> IF n.subject \in ids[c] THEN unseen[c] \cup {n}
                                                                  ELSE unseen[c]]
    /\ UNCHANGED <<rowVars, pc, deleteVars, retainVars, disturbed, late, job, exports>>

ExportEnds(e) ==
    /\ job' = [job EXCEPT ![e] = None]
    /\ path' = [path EXCEPT ![e] = None]
    /\ UNCHANGED <<rowVars, pc, deleteVars, retainVars, historyVars, exports>>

\* Written and closed; a file removed meanwhile stays away.
Close(e) ==
    /\ path[e] # None
    /\ files' = [n \in Names |-> IF files[n] = e THEN "recent" ELSE files[n]]
    /\ ExportEnds(e)

\* Both names taken, an error before the file is there, an error while writing: the
\* PDF exports remove the file by its name.  The CSV export does not, nor does the
\* process when it dies.
GiveUp(e) ==
    /\ job[e] # None
    /\ \/ files' = [n \in Names |-> IF n = path[e] THEN "none" ELSE files[n]]
       \/ files' = [n \in Names |-> IF files[n] = e THEN "partial" ELSE files[n]]
    /\ ExportEnds(e)

-----------------------------------------------------------------------------
Audit ==
    \/ \E d \in Deals : \/ \E m \in Messages : StoreMessage(d, m)
                        \/ \E a \in Assessments : Issue(d, a)
    \/ \E a \in Assessments : Refer(a)

Deletion(c) ==
    \/ \E d \in Deals : Ask(c, d)
    \/ ListReports(c) \/ DeleteRows(c)

Retention(c) ==
    \/ Retain(c) \/ Select(c) \/ Apply(c) \/ Sweep(c)

Export(e) ==
    \/ \E s \in Assessments \cup Digests : Render(e, s)
    \/ Create(e) \/ Close(e) \/ GiveUp(e)

GovernanceNext ==
    \/ Audit \/ TimePasses
    \/ \E c \in Commands : Deletion(c) \/ Retention(c) \/ RemoveReport(c) \/ Succeed(c) \/ Fail(c)
    \/ \E e \in Exporters : Export(e)

GovernanceSpec == GovernanceInit /\ [][GovernanceNext]_govVars
-----------------------------------------------------------------------------
(* Properties. *)

\* A deletion with nothing left to remove, which is all it takes to report success, leaves
\* no row of its deal but those stored since its commit, and of the reports of the
\* assessments it has read only those written since it has read them: neither files that
\* another command removes meanwhile nor errors half way are passed over.  It does not
\* look for the reports of other assessments of the deal: those issued later, and those
\* whose rows a retention had removed before it.
DeletionIsThorough ==
    \A c \in Commands : Deleted(c) /\ listed[c] = {} =>
        /\ \A n \in Names : n.subject \in ids[c] /\ files[n] # "none" => n \in unseen[c]
        /\ \A m \in Messages : stored[m] = target[c] => m \in late[c]
        /\ \A a \in Assessments : assessed[a] = target[c] => a \in late[c]

OldReport(n) == n.subject \in Assessments /\ files[n] = "old"

\* A retention that others do not disturb goes on to the next kind when nothing of the last
\* is due, and is left, when it has listed the reports, with these alone to remove: then
\* nothing is due of the rows, nor of the reports what is not listed.  Deletions
\* by others can make a batch smaller and end a kind early, and what they store
\* comes too late; the reports do not depend on that.
RetentionIsComplete ==
    \A c \in Commands : Retaining(c) =>
        /\ ~disturbed[c] => \A k \in Retained \ (kinds[c] \cup {"reports"}) : Due(k) = {}
        /\ pc[c] = "removing" /\ "reports" \in Retained =>
              \A n \in Names : OldReport(n) => n \in listed[c]

\* Who may take a file away: a command that has listed it, a deletion that of its own deal,
\* or an export that made a file of this name and removes it by the name when it fails
\* (export_report.go:82,86), whosever it has become.
ByCommand(n) == \E c \in Commands :
    n \in listed[c] /\ (target[c] = None \/ target[c] = issuedTo[n.subject])
ByNamesake(n) == \E e \in Exporters : path[e] = n /\ path'[e] = None

\* A whole report changes no more: no export writes over it, and only those take it away.
\* An export is a danger to the report of another only after its own file has been taken
\* away under it in turn.
WholeReportsAreSafe ==
    [][/\ \A n \in Names : Whole(n) =>
             Whole(n)' \/ (files'[n] = "none" /\ (ByCommand(n) \/ ByNamesake(n)))
       /\ \A e \in Exporters : path[e] # None /\ files[path[e]] = e /\ path'[e] = path[e] =>
             \/ files'[path[e]] = e
             \/ files'[path[e]] = "none" /\ (ByCommand(path[e]) \/ ByNamesake(path[e]))]_govVars
=============================================================================
