--------------------------- MODULE Governance_proofs ---------------------------
(***************************************************************************)
(* Proofs about deletion and retention, for any number of commands, deals,  *)
(* rows, files and exports.                                                *)
(***************************************************************************)
EXTENDS Governance, TLAPS

-----------------------------------------------------------------------------
(* Types. *)

\* The flags apart, which are Zenon's.
RowTypes ==
    /\ stored \in [Messages -> Deals \cup {None}]
    /\ assessed \in [Assessments -> Deals \cup {None}]
    /\ raw \subseteq Present(assessed)
    /\ referenced \subseteq Present(assessed)
    /\ issuedTo \in [Assessments -> Deals \cup {None}]
    /\ aged \subseteq Assessments
    /\ \A a \in Present(assessed) : issuedTo[a] = assessed[a]

CommandTypes ==
    /\ pc \in [Commands -> {"idle", "listing", "deleting", "removing",
                            "selecting", "retaining", "done", "failed"}]
    /\ target \in [Commands -> Deals \cup {None}]
    /\ ids \in [Commands -> SUBSET Assessments]
    /\ listed \in [Commands -> SUBSET Names]
    /\ kinds \in [Commands -> SUBSET Retained]
    /\ chosen \in [Commands -> SUBSET (Messages \cup Assessments)]
    /\ unseen \in [Commands -> SUBSET Names]
    /\ late \in [Commands -> SUBSET (Messages \cup Assessments)]

FileTypes ==
    /\ files \in [Names -> {"none", "partial", "recent", "old"} \cup Exporters]
    /\ job \in [Exporters -> Assessments \cup Digests \cup {None}]
    /\ path \in [Exporters -> Names \cup {None}]
    /\ exports \in Nat

FlagTypes == disturbed \in [Commands -> BOOLEAN]

LEMMA Types == GovernanceTypeOK <=> RowTypes /\ CommandTypes /\ FileTypes /\ FlagTypes
  BY DEF GovernanceTypeOK, RowTypes, CommandTypes, FileTypes, FlagTypes

\* What a step does to the rows.
LEMMA RowTypeStep ==
  ASSUME RowTypes, CommandTypes, [GovernanceNext]_govVars
  PROVE  RowTypes'
<1> USE DEF RowTypes, CommandTypes, Present
<1>0. ASSUME UNCHANGED rowVars PROVE RowTypes'
  BY <1>0 DEF rowVars
<1>1. ASSUME NEW d \in Deals, NEW m \in Messages, StoreMessage(d, m) PROVE RowTypes'
  BY <1>1 DEF StoreMessage
<1>2. ASSUME NEW d \in Deals, NEW a \in Assessments, Issue(d, a) PROVE RowTypes'
  BY <1>2, GovernanceAssumption DEF Issue
<1>3. ASSUME NEW a \in Assessments, Refer(a) PROVE RowTypes'
  BY <1>3 DEF Refer
<1>4. CASE TimePasses
  BY <1>4 DEF TimePasses
<1>5. ASSUME NEW S, NEW T, Delete(S, T), UNCHANGED <<referenced, aged, issuedTo>>
      PROVE  RowTypes'
  BY <1>5, GovernanceAssumption DEF Delete
<1>6. ASSUME NEW c \in Commands, Deletion(c) PROVE RowTypes'
  <2>1. CASE DeleteRows(c)
    BY <1>5, <2>1 DEF DeleteRows
  <2>2. CASE UNCHANGED rowVars
    BY <1>0, <2>2
  <2> QED BY <1>6, <2>1, <2>2 DEF Deletion, Ask, ListReports
<1>7. ASSUME NEW c \in Commands, Retention(c) PROVE RowTypes'
  <2>1. CASE Apply(c)
    <3>1. CASE Current(c) = "messages"
      BY <1>5, <2>1, <3>1 DEF Apply
    <3>2. CASE Current(c) = "assessments"
      BY <1>5, <2>1, <3>2 DEF Apply
    <3>3. CASE Current(c) = "raw_analysis"
      BY <2>1, <3>3 DEF Apply
    <3> QED BY <3>1, <3>2, <3>3 DEF Current
  <2>2. CASE UNCHANGED rowVars
    BY <1>0, <2>2
  <2> QED BY <1>7, <2>1, <2>2 DEF Retention, Retain, Select, Sweep
<1>8. ASSUME NEW c \in Commands, RemoveReport(c) \/ Succeed(c) \/ Fail(c) PROVE RowTypes'
  BY <1>0, <1>8 DEF RemoveReport, Succeed, Fail, Ends
<1>9. ASSUME NEW e \in Exporters, Export(e) PROVE RowTypes'
  BY <1>0, <1>9 DEF Export, Render, Create, Close, GiveUp, ExportEnds
<1>10. CASE UNCHANGED govVars
  BY <1>0, <1>10 DEF govVars
<1> QED BY <1>1, <1>2, <1>3, <1>4, <1>6, <1>7, <1>8, <1>9, <1>10 DEF GovernanceNext, Audit

LEMMA CommandTypeStep ==
  ASSUME RowTypes, CommandTypes, FileTypes, [GovernanceNext]_govVars
  PROVE  CommandTypes'
<1> USE DEF CommandTypes
<1>0. ASSUME UNCHANGED <<pc, deleteVars, retainVars, unseen, late>> PROVE CommandTypes'
  BY <1>0 DEF deleteVars, retainVars
<1>1. CASE TimePasses \/ UNCHANGED govVars
  BY <1>0, <1>1 DEF TimePasses, govVars, historyVars
<1>8. CASE Audit
  <2>1. ASSUME NEW d \in Deals, NEW m \in Messages, StoreMessage(d, m) PROVE CommandTypes'
    BY <2>1 DEF StoreMessage, Late, deleteVars, retainVars
  <2>2. ASSUME NEW d \in Deals, NEW a \in Assessments, Issue(d, a) PROVE CommandTypes'
    BY <2>2 DEF Issue, Late, deleteVars, retainVars
  <2>3. ASSUME NEW a \in Assessments, Refer(a) PROVE CommandTypes'
    BY <1>0, <2>3 DEF Refer, historyVars
  <2> QED BY <1>8, <2>1, <2>2, <2>3 DEF Audit
<1>2. ASSUME NEW c \in Commands, Deletion(c) PROVE CommandTypes'
  <2>1. ASSUME NEW d \in Deals, Ask(c, d) PROVE CommandTypes'
    BY <2>1 DEF Ask, retainVars, historyVars
  <2>2. CASE ListReports(c)
    BY <2>2 DEF ListReports, Reports, Goes, retainVars, historyVars
  <2>3. CASE DeleteRows(c)
    BY <2>3 DEF DeleteRows, Goes, deleteVars, retainVars
  <2> QED BY <1>2, <2>1, <2>2, <2>3 DEF Deletion
<1>3. ASSUME NEW c \in Commands, Retention(c) PROVE CommandTypes'
  <2>1. CASE Retain(c)
    BY <2>1 DEF Retain, Goes, deleteVars, historyVars
  <2>2. CASE Select(c)
    <3>1. Due(Current(c)) \subseteq Messages \cup Assessments
      BY DEF Due, Present, RowTypes
    <3> QED BY <2>2, <3>1 DEF Select, Goes, deleteVars, historyVars
  <2>3. CASE Apply(c)
    BY <2>3 DEF Apply, Goes, deleteVars
  <2>4. CASE Sweep(c)
    BY <2>4 DEF Sweep, Goes, historyVars
  <2> QED BY <1>3, <2>1, <2>2, <2>3, <2>4 DEF Retention
<1>4. ASSUME NEW c \in Commands, RemoveReport(c) PROVE CommandTypes'
  BY <1>4 DEF RemoveReport, Remove, retainVars, historyVars
<1>5. ASSUME NEW c \in Commands, Succeed(c) PROVE CommandTypes'
  BY <1>5 DEF Succeed, Ends, Goes
<1>6. ASSUME NEW c \in Commands, Fail(c) PROVE CommandTypes'
  BY <1>6 DEF Fail, Ends, Goes
<1>7. ASSUME NEW e \in Exporters, Export(e) PROVE CommandTypes'
  <2>1. CASE Create(e)
    BY <2>1 DEF Create, deleteVars, retainVars
  <2>2. CASE UNCHANGED <<pc, deleteVars, retainVars, unseen, late>>
    BY <1>0, <2>2
  <2> QED BY <1>7, <2>1, <2>2 DEF Export, Render, Close, GiveUp, ExportEnds, historyVars
<1> QED BY <1>1, <1>2, <1>3, <1>4, <1>5, <1>6, <1>7, <1>8 DEF GovernanceNext

LEMMA FileTypeStep ==
  ASSUME CommandTypes, FileTypes, [GovernanceNext]_govVars
  PROVE  FileTypes'
<1> USE DEF FileTypes
<1>0. ASSUME UNCHANGED <<files, exportVars>> PROVE FileTypes'
  BY <1>0 DEF exportVars
<1>1. CASE Audit \/ UNCHANGED govVars
  BY <1>0, <1>1 DEF Audit, StoreMessage, Issue, Refer, govVars
<1>2. CASE TimePasses
  BY <1>2 DEF TimePasses, exportVars
<1>3. ASSUME NEW c \in Commands, Deletion(c) \/ Retention(c) \/ Succeed(c) \/ Fail(c)
      PROVE  FileTypes'
  BY <1>0, <1>3 DEF Deletion, Ask, ListReports, DeleteRows, Retention, Retain, Select, Apply,
                    Sweep, Succeed, Fail, Ends
<1>4. ASSUME NEW c \in Commands, RemoveReport(c) PROVE FileTypes'
  BY <1>4 DEF RemoveReport, Remove, exportVars, CommandTypes
<1>5. ASSUME NEW e \in Exporters, Export(e) PROVE FileTypes'
  <2>1. ASSUME NEW s \in Assessments \cup Digests, Render(e, s) PROVE FileTypes'
    BY <2>1 DEF Render
  <2>2. CASE Create(e)
    BY <2>2 DEF Create
  <2>3. CASE Close(e)
    BY <2>3 DEF Close, ExportEnds
  <2>4. CASE GiveUp(e)
    BY <2>4 DEF GiveUp, ExportEnds
  <2> QED BY <1>5, <2>1, <2>2, <2>3, <2>4 DEF Export
<1> QED BY <1>1, <1>2, <1>3, <1>4, <1>5 DEF GovernanceNext

LEMMA FlagTypeStep ==
  ASSUME FlagTypes, [GovernanceNext]_govVars
  PROVE  FlagTypes'
<1> USE DEF FlagTypes
<1>0. ASSUME UNCHANGED disturbed PROVE FlagTypes'
  BY <1>0
<1>1. ASSUME NEW d \in Deals, NEW m \in Messages, StoreMessage(d, m) PROVE FlagTypes'
  BY <1>1, Zenon DEF StoreMessage
<1>2. ASSUME NEW c \in Commands, OthersNotice(c) PROVE FlagTypes'
  BY <1>2, Zenon DEF OthersNotice
<1>3. ASSUME NEW c \in Commands, Fail(c) \/ Succeed(c) PROVE FlagTypes'
  <2>1. disturbed' = [disturbed EXCEPT ![c] = FALSE]
    BY <1>3 DEF Fail, Succeed, Ends
  <2> QED BY <2>1
<1>4. ASSUME NEW d \in Deals, NEW a \in Assessments, Issue(d, a) PROVE FlagTypes'
  BY <1>0, <1>4 DEF Issue
<1>5. ASSUME NEW a \in Assessments, Refer(a) PROVE FlagTypes'
  BY <1>0, <1>5 DEF Refer, historyVars
<1>6. CASE TimePasses \/ UNCHANGED govVars
  BY <1>0, <1>6 DEF TimePasses, govVars, historyVars
<1>7. ASSUME NEW c \in Commands, Deletion(c) PROVE FlagTypes'
  BY <1>0, <1>2, <1>7 DEF Deletion, Ask, ListReports, DeleteRows, historyVars
<1>8. ASSUME NEW c \in Commands, Retention(c) PROVE FlagTypes'
  BY <1>0, <1>2, <1>8 DEF Retention, Retain, Select, Apply, Sweep, historyVars
<1>9. ASSUME NEW c \in Commands, RemoveReport(c) PROVE FlagTypes'
  BY <1>0, <1>9 DEF RemoveReport, historyVars
<1>10. ASSUME NEW e \in Exporters, Export(e) PROVE FlagTypes'
  BY <1>0, <1>10 DEF Export, Render, Create, Close, GiveUp, ExportEnds, historyVars
<1> QED BY <1>1, <1>3, <1>4, <1>5, <1>6, <1>7, <1>8, <1>9, <1>10 DEF GovernanceNext, Audit

LEMMA TypeInitial == GovernanceInit => GovernanceTypeOK
  BY DEF GovernanceInit, GovernanceTypeOK, Present

\* Type correctness of the tables, the files, the commands and the exports; the foreign
\* keys of raw responses and of the queue's items are part of it.
THEOREM GovernanceTypeCorrect == GovernanceSpec => []GovernanceTypeOK
<1>1. GovernanceTypeOK /\ [GovernanceNext]_govVars => GovernanceTypeOK'
  <2> SUFFICES ASSUME GovernanceTypeOK, [GovernanceNext]_govVars PROVE GovernanceTypeOK'
    OBVIOUS
  <2>1. RowTypes /\ CommandTypes /\ FileTypes /\ FlagTypes
    BY Types
  <2>2. (RowTypes /\ CommandTypes /\ FileTypes /\ FlagTypes)'
    BY <2>1, RowTypeStep, CommandTypeStep, FileTypeStep, FlagTypeStep
  <2> QED BY <2>2 DEF GovernanceTypeOK, RowTypes, CommandTypes, FileTypes, FlagTypes
<1> QED BY <1>1, TypeInitial, PTL DEF GovernanceSpec
-----------------------------------------------------------------------------
(* Reports. *)

\* A command knows the assessments and the files of its deal only, and none that
\* is about nothing of the sort; a retention has no deal, a deletion has one.
OwnReports(c) ==
    /\ pc[c] \in {"idle", "selecting", "retaining", "done"} => target[c] = None
    /\ pc[c] \in {"listing", "deleting"} => target[c] # None
    /\ pc[c] \in {"idle", "listing", "selecting", "retaining", "done"} => listed[c] = {}
    /\ target[c] # None =>
          /\ \A a \in ids[c] : issuedTo[a] = target[c]
          /\ \A n \in listed[c] : n.subject \in ids[c]

\* From the listing on, every file of the deal is to be removed or was not there.
Accounted(c) ==
    target[c] # None /\ pc[c] \in {"deleting", "removing"} =>
        \A n \in Names : n.subject \in ids[c] /\ files[n] # "none" => n \in unseen[c] \cup listed[c]

\* From the commit on, every row of the deal came after it.
Emptied(c) ==
    Deleted(c) => /\ \A m \in Messages : stored[m] = target[c] => m \in late[c]
                  /\ \A a \in Assessments : assessed[a] = target[c] => a \in late[c]

ReportInv == \A c \in Commands : OwnReports(c) /\ Accounted(c) /\ Emptied(c)

\* What a step does that c does not take: it knows what it knew, identifiers stay with
\* their deals, a file is removed from its list, was there before, or is noticed, and so is
\* a row of its deal when it has deleted those.
Aside(c) ==
    /\ UNCHANGED <<pc[c], target[c], ids[c], listed[c]>>
    /\ unseen[c] \subseteq unseen'[c]
    /\ \A n \in Names : files'[n] # "none" =>
          files[n] # "none" \/ (n.subject \in ids[c] => n \in unseen'[c])

RowsAside(c) ==
    /\ late[c] \subseteq late'[c]
    /\ Deleted(c) =>
          /\ \A m \in Messages : stored'[m] = target[c] => stored[m] = target[c] \/ m \in late'[c]
          /\ \A a \in Assessments : assessed'[a] = target[c] => assessed[a] = target[c] \/ a \in late'[c]

IssuesKept == \A a \in Assessments : issuedTo[a] # None => issuedTo'[a] = issuedTo[a]

LEMMA AsideKeeps ==
  ASSUME NEW c \in Commands, CommandTypes, IssuesKept, OwnReports(c), Accounted(c), Emptied(c),
         Aside(c), RowsAside(c)
  PROVE  OwnReports(c)' /\ Accounted(c)' /\ Emptied(c)'
<1>1. OwnReports(c)'
  BY DEF OwnReports, Aside, IssuesKept, CommandTypes
<1>2. Accounted(c)'
  BY DEF Accounted, Aside, CommandTypes
<1>3. Emptied(c)'
  BY DEF Emptied, Deleted, Aside, RowsAside
<1> QED BY <1>1, <1>2, <1>3

\* Who stands aside of which step.
LEMMA WhoStandsAside ==
  ASSUME RowTypes, CommandTypes, FileTypes, [GovernanceNext]_govVars
  PROVE  /\ IssuesKept
         /\ \/ \A c \in Commands : Aside(c)
            \/ \E c \in Commands :
                  /\ \A o \in Commands \ {c} : Aside(o)
                  /\ Deletion(c) \/ Retention(c) \/ RemoveReport(c) \/ Succeed(c) \/ Fail(c)
<1> USE DEF CommandTypes
<1>1. CASE Audit
  <2>1. IssuesKept
    BY <1>1 DEF Audit, StoreMessage, Issue, Refer, IssuesKept, RowTypes
  <2>2. ASSUME NEW c \in Commands PROVE Aside(c)
    BY <1>1 DEF Audit, StoreMessage, Issue, Refer, Late, Aside, deleteVars, historyVars
  <2> QED BY <2>1, <2>2
<1>2. CASE TimePasses
  <2>1. IssuesKept
    BY <1>2 DEF TimePasses, IssuesKept
  <2>2. ASSUME NEW c \in Commands PROVE Aside(c)
    BY <1>2 DEF TimePasses, Aside, deleteVars, historyVars
  <2> QED BY <2>1, <2>2
<1>3. CASE UNCHANGED govVars
  BY <1>3 DEF govVars, rowVars, deleteVars, historyVars, Aside, IssuesKept
<1>4. ASSUME NEW e \in Exporters, Export(e) PROVE IssuesKept /\ \A c \in Commands : Aside(c)
  <2>1. IssuesKept
    BY <1>4 DEF Export, Render, Create, Close, GiveUp, ExportEnds, rowVars, IssuesKept
  <2>2. ASSUME NEW c \in Commands PROVE Aside(c)
    <3>1. CASE Create(e)
      BY <3>1 DEF Create, Aside, deleteVars
    <3>2. CASE Close(e)
      BY <3>2, GovernanceAssumption DEF Close, ExportEnds, Aside, deleteVars, historyVars
    <3>3. CASE GiveUp(e)
      BY <3>3, GovernanceAssumption DEF GiveUp, ExportEnds, Aside, deleteVars, historyVars
    <3>4. CASE UNCHANGED <<files, pc, deleteVars, historyVars>>
      BY <3>4 DEF Aside, deleteVars, historyVars
    <3> QED BY <1>4, <3>1, <3>2, <3>3, <3>4 DEF Export, Render
  <2> QED BY <2>1, <2>2
<1>5. ASSUME NEW c \in Commands, Deletion(c)
      PROVE  IssuesKept /\ \A o \in Commands \ {c} : Aside(o)
  BY <1>5 DEF Deletion, Ask, ListReports, DeleteRows, Goes, rowVars, deleteVars, historyVars,
              IssuesKept, Aside
<1>6. ASSUME NEW c \in Commands, Retention(c)
      PROVE  IssuesKept /\ \A o \in Commands \ {c} : Aside(o)
  BY <1>6 DEF Retention, Retain, Select, Apply, Sweep, Goes, rowVars, deleteVars, historyVars,
              IssuesKept, Aside
<1>7. ASSUME NEW c \in Commands, RemoveReport(c) \/ Succeed(c) \/ Fail(c)
      PROVE  IssuesKept /\ \A o \in Commands \ {c} : Aside(o)
  <2>1. CASE RemoveReport(c)
    BY <2>1 DEF RemoveReport, Remove, rowVars, historyVars, IssuesKept, Aside, FileTypes
  <2>2. CASE Succeed(c) \/ Fail(c)
    BY <2>2 DEF Succeed, Fail, Ends, Goes, rowVars, deleteVars, IssuesKept, Aside
  <2> QED BY <1>7, <2>1, <2>2
<1> QED BY <1>1, <1>2, <1>3, <1>4, <1>5, <1>6, <1>7 DEF GovernanceNext

\* A command's own step.
LEMMA ReportOwnStep ==
  ASSUME RowTypes, CommandTypes, FileTypes, NEW c \in Commands, OwnReports(c), Accounted(c),
         Deletion(c) \/ Retention(c) \/ RemoveReport(c) \/ Succeed(c) \/ Fail(c)
  PROVE  OwnReports(c)' /\ Accounted(c)'
<1> USE DEF CommandTypes, OwnReports, Accounted, Goes
<1>1. ASSUME NEW d \in Deals, Ask(c, d) PROVE OwnReports(c)' /\ Accounted(c)'
  BY <1>1, GovernanceAssumption DEF Ask, RowTypes, Present, rowVars
<1>2. CASE ListReports(c)
  BY <1>2 DEF ListReports, Reports, rowVars
<1>3. CASE DeleteRows(c)
  BY <1>3 DEF DeleteRows, deleteVars
<1>4. CASE Retain(c)
  BY <1>4 DEF Retain, deleteVars, rowVars
<1>5. CASE Select(c)
  BY <1>5 DEF Select, deleteVars, rowVars
<1>6. CASE Apply(c)
  BY <1>6 DEF Apply, deleteVars
<1>7. CASE Sweep(c)
  BY <1>7 DEF Sweep, rowVars
<1>8. CASE RemoveReport(c)
  BY <1>8 DEF RemoveReport, Remove, rowVars, historyVars, FileTypes
<1>9. CASE Succeed(c) \/ Fail(c)
  BY <1>9 DEF Succeed, Fail, Ends, rowVars
<1> QED BY <1>1, <1>2, <1>3, <1>4, <1>5, <1>6, <1>7, <1>8, <1>9 DEF Deletion, Retention

\* Rows of a deal appear only by an audit, which a deletion past its commit notices.
LEMMA RowsStep ==
  ASSUME RowTypes, CommandTypes, [GovernanceNext]_govVars, NEW c \in Commands
  PROVE  RowsAside(c) \/ Fail(c) \/ Succeed(c)
<1> USE DEF RowTypes, CommandTypes
<1>0. ASSUME UNCHANGED <<stored, assessed>>, UNCHANGED late PROVE RowsAside(c)
  BY <1>0 DEF RowsAside
<1>1. ASSUME NEW d \in Deals, NEW m \in Messages, StoreMessage(d, m) PROVE RowsAside(c)
  BY <1>1 DEF StoreMessage, Late, RowsAside
<1>2. ASSUME NEW d \in Deals, NEW a \in Assessments, Issue(d, a) PROVE RowsAside(c)
  BY <1>2 DEF Issue, Late, RowsAside
<1>3. ASSUME NEW a \in Assessments, Refer(a) PROVE RowsAside(c)
  BY <1>0, <1>3 DEF Refer, historyVars
<1>4. CASE TimePasses \/ UNCHANGED govVars
  BY <1>0, <1>4 DEF TimePasses, govVars, rowVars, historyVars
<1>5. ASSUME NEW S, NEW T, Delete(S, T), UNCHANGED late PROVE RowsAside(c)
  BY <1>5, GovernanceAssumption DEF Delete, RowsAside, Deleted
<1>6. ASSUME NEW o \in Commands, Deletion(o) PROVE RowsAside(c)
  BY <1>0, <1>5, <1>6 DEF Deletion, Ask, ListReports, DeleteRows, rowVars, historyVars
<1>7. ASSUME NEW o \in Commands, Retention(o) PROVE RowsAside(c)
  <2>1. CASE Apply(o)
    <3>1. CASE Current(o) = "messages"
      BY <1>5, <2>1, <3>1 DEF Apply
    <3>2. CASE Current(o) = "assessments"
      BY <1>5, <2>1, <3>2 DEF Apply
    <3>3. CASE Current(o) = "raw_analysis"
      BY <1>0, <2>1, <3>3 DEF Apply
    <3> QED BY <3>1, <3>2, <3>3 DEF Current
  <2>2. CASE UNCHANGED <<stored, assessed, late>>
    BY <1>0, <2>2
  <2> QED BY <1>7, <2>1, <2>2 DEF Retention, Retain, Select, Sweep, rowVars, historyVars
<1>8. ASSUME NEW o \in Commands, RemoveReport(o) PROVE RowsAside(c)
  BY <1>0, <1>8 DEF RemoveReport, rowVars, historyVars
<1>9. ASSUME NEW o \in Commands \ {c}, Succeed(o) \/ Fail(o) PROVE RowsAside(c)
  BY <1>9 DEF Succeed, Fail, Ends, RowsAside, rowVars
<1>10. ASSUME NEW e \in Exporters, Export(e) PROVE RowsAside(c)
  BY <1>0, <1>10 DEF Export, Render, Create, Close, GiveUp, ExportEnds, rowVars, historyVars
<1> QED BY <1>1, <1>2, <1>3, <1>4, <1>6, <1>7, <1>8, <1>9, <1>10 DEF GovernanceNext, Audit

\* And its own commit leaves none.
LEMMA EmptiedOwnStep ==
  ASSUME RowTypes, CommandTypes, NEW c \in Commands, OwnReports(c), Emptied(c),
         RowsAside(c) \/ Fail(c) \/ Succeed(c),
         Deletion(c) \/ Retention(c) \/ RemoveReport(c) \/ Succeed(c) \/ Fail(c)
  PROVE  Emptied(c)'
<1> USE DEF RowTypes, CommandTypes, Goes
<1>1. CASE DeleteRows(c)
  <2>1. /\ stored' = [m \in Messages |-> IF stored[m] = target[c] THEN None ELSE stored[m]]
        /\ assessed' = [a \in Assessments |-> IF assessed[a] = target[c] THEN None ELSE assessed[a]]
        /\ target'[c] = target[c]
    BY <1>1 DEF DeleteRows, Delete, deleteVars
  <2> QED BY <2>1 DEF Emptied, Deleted
<1>2. CASE RemoveReport(c)
  BY <1>2 DEF RemoveReport, rowVars, historyVars, Emptied, Deleted
<1>3. CASE Sweep(c)
  BY <1>3 DEF Sweep, OwnReports, Emptied, Deleted
<1>4. CASE pc'[c] # "removing"
  BY <1>4 DEF Emptied, Deleted
<1> QED
  BY <1>1, <1>2, <1>3, <1>4
  DEF Deletion, Ask, ListReports, Retention, Retain, Select, Apply, Succeed, Fail, Ends

LEMMA ReportStep ==
  ASSUME GovernanceTypeOK, ReportInv, [GovernanceNext]_govVars
  PROVE  ReportInv'
<1>1. RowTypes /\ CommandTypes /\ FileTypes
  BY Types
<1>2. ASSUME NEW c \in Commands, Aside(c), ~(Fail(c) \/ Succeed(c))
      PROVE  OwnReports(c)' /\ Accounted(c)' /\ Emptied(c)'
  BY <1>1, <1>2, WhoStandsAside, RowsStep, AsideKeeps DEF ReportInv
<1>3. ASSUME NEW c \in Commands,
             Deletion(c) \/ Retention(c) \/ RemoveReport(c) \/ Succeed(c) \/ Fail(c)
      PROVE  OwnReports(c)' /\ Accounted(c)' /\ Emptied(c)'
  BY <1>1, <1>3, RowsStep, ReportOwnStep, EmptiedOwnStep DEF ReportInv
<1> QED BY <1>1, <1>2, <1>3, WhoStandsAside DEF ReportInv

LEMMA ReportInitial == GovernanceInit => ReportInv
  BY DEF GovernanceInit, ReportInv, OwnReports, Accounted, Emptied, Deleted

LEMMA ReportInvariant == GovernanceSpec => [](GovernanceTypeOK /\ ReportInv)
<1>1. GovernanceTypeOK /\ ReportInv /\ [GovernanceNext]_govVars => ReportInv'
  BY ReportStep
<1> QED BY <1>1, ReportInitial, GovernanceTypeCorrect, PTL DEF GovernanceSpec

\* A deletion that has all it takes to report success leaves no row of its deal but those
\* stored since its commit, and no report of an assessment it has read but those written
\* since, however many commands and exports run beside it.
THEOREM DeletionsAreThorough == GovernanceSpec => []DeletionIsThorough
<1>1. ReportInv => DeletionIsThorough
  BY DEF ReportInv, OwnReports, Accounted, Emptied, Deleted, DeletionIsThorough
<1> QED BY <1>1, ReportInvariant, PTL

\* What a step takes away, commands and exports take away, and nothing is written over.
SafeStep ==
    /\ \A n \in Names : Whole(n) =>
          Whole(n)' \/ (files'[n] = "none" /\ (ByCommand(n) \/ ByNamesake(n)))
    /\ \A e \in Exporters : path[e] # None /\ files[path[e]] = e /\ path'[e] = path[e] =>
          \/ files'[path[e]] = e
          \/ files'[path[e]] = "none" /\ (ByCommand(path[e]) \/ ByNamesake(path[e]))

LEMMA WholeReportsStep ==
  ASSUME CommandTypes, FileTypes, ReportInv, [GovernanceNext]_govVars
  PROVE  SafeStep
<1> USE GovernanceAssumption DEF SafeStep, Whole
<1>0. ASSUME UNCHANGED files PROVE SafeStep
  BY <1>0
<1>1. CASE Audit \/ UNCHANGED govVars
  BY <1>0, <1>1 DEF Audit, StoreMessage, Issue, Refer, govVars
<1>2. CASE TimePasses
  BY <1>2 DEF TimePasses, FileTypes
<1>3. ASSUME NEW c \in Commands, Deletion(c) \/ Retention(c) \/ Succeed(c) \/ Fail(c)
      PROVE  SafeStep
  BY <1>0, <1>3 DEF Deletion, Ask, ListReports, DeleteRows, Retention, Retain, Select, Apply,
                    Sweep, Succeed, Fail, Ends
<1>4. ASSUME NEW c \in Commands, RemoveReport(c) PROVE SafeStep
  <2>1. PICK n \in listed[c] : files' = [files EXCEPT ![n] = "none"]
    BY <1>4 DEF RemoveReport, Remove
  <2>2. ByCommand(n)
    BY <2>1 DEF ByCommand, ReportInv, OwnReports, CommandTypes
  <2>3. \A o \in Names : o # n => files'[o] = files[o]
    BY <2>1 DEF FileTypes
  <2>4. n \in Names /\ files'[n] = "none"
    BY <2>1 DEF FileTypes, CommandTypes
  <2> QED BY <2>2, <2>3, <2>4 DEF FileTypes
<1>5. ASSUME NEW e \in Exporters, Export(e) PROVE SafeStep
  <2>1. ASSUME NEW s \in Assessments \cup Digests, Render(e, s) PROVE SafeStep
    BY <2>1 DEF Render
  <2>2. CASE Create(e)
    BY <2>2 DEF Create, Free, FileTypes
  <2>3. CASE Close(e)
    BY <2>3 DEF Close, ExportEnds, FileTypes
  <2>4. CASE GiveUp(e)
    <3>1. path'[e] = None /\ \A f \in Exporters : f # e => path'[f] = path[f]
      BY <2>4 DEF GiveUp, ExportEnds, FileTypes
    <3>2. CASE files' = [n \in Names |-> IF n = path[e] THEN "none" ELSE files[n]]
      <4>1. \A n \in Names : n # path[e] => files'[n] = files[n]
        BY <3>2
      <4>2. path[e] \in Names => files'[path[e]] = "none" /\ ByNamesake(path[e])
        BY <3>1, <3>2 DEF ByNamesake
      <4> QED BY <3>1, <4>1, <4>2 DEF FileTypes
    <3>3. CASE files' = [n \in Names |-> IF files[n] = e THEN "partial" ELSE files[n]]
      BY <3>1, <3>3 DEF FileTypes
    <3> QED BY <2>4, <3>2, <3>3 DEF GiveUp
  <2> QED BY <1>5, <2>1, <2>2, <2>3, <2>4 DEF Export
<1> QED BY <1>1, <1>2, <1>3, <1>4, <1>5 DEF GovernanceNext

\* A whole report is never written over, and it is taken away only by a command that has
\* listed it, a deletion those of its own deal, or by a failing export that made a file of
\* this name; and an export loses the file it writes in these ways only.
THEOREM ReportsAreSafe == GovernanceSpec => WholeReportsAreSafe
<1>1. GovernanceTypeOK /\ ReportInv /\ [GovernanceNext]_govVars
      => [/\ \A n \in Names : Whole(n) =>
                Whole(n)' \/ (files'[n] = "none" /\ (ByCommand(n) \/ ByNamesake(n)))
          /\ \A e \in Exporters : path[e] # None /\ files[path[e]] = e /\ path'[e] = path[e] =>
                \/ files'[path[e]] = e
                \/ files'[path[e]] = "none" /\ (ByCommand(path[e]) \/ ByNamesake(path[e]))]_govVars
  BY Types, WholeReportsStep DEF SafeStep
<1> QED BY <1>1, ReportInvariant, PTL DEF GovernanceSpec, WholeReportsAreSafe

\* No command is about to remove a file that an export still writes.
SparesUnfinished == \A c \in Commands : \A n \in listed[c] : files[n] \notin Exporters

\* Then an export's file is its own.
WrittenIsOwn == \A e \in Exporters : path[e] # None => files[path[e]] = e

LEMMA WrittenIsOwnStep ==
  ASSUME CommandTypes, FileTypes, SparesUnfinished, WrittenIsOwn, [GovernanceNext]_govVars
  PROVE  WrittenIsOwn'
<1> USE GovernanceAssumption DEF WrittenIsOwn
<1>0. ASSUME UNCHANGED <<files, exportVars>> PROVE WrittenIsOwn'
  BY <1>0 DEF exportVars
<1>1. CASE Audit \/ UNCHANGED govVars
  BY <1>0, <1>1 DEF Audit, StoreMessage, Issue, Refer, govVars
<1>2. CASE TimePasses
  BY <1>2 DEF TimePasses, exportVars, FileTypes
<1>3. ASSUME NEW c \in Commands, Deletion(c) \/ Retention(c) \/ Succeed(c) \/ Fail(c)
      PROVE  WrittenIsOwn'
  BY <1>0, <1>3 DEF Deletion, Ask, ListReports, DeleteRows, Retention, Retain, Select, Apply,
                    Sweep, Succeed, Fail, Ends
<1>4. ASSUME NEW c \in Commands, RemoveReport(c) PROVE WrittenIsOwn'
  BY <1>4 DEF RemoveReport, Remove, exportVars, CommandTypes, FileTypes, SparesUnfinished
<1>5. ASSUME NEW e \in Exporters, Export(e) PROVE WrittenIsOwn'
  <2>1. ASSUME NEW s \in Assessments \cup Digests, Render(e, s) PROVE WrittenIsOwn'
    BY <2>1 DEF Render
  <2>2. CASE Create(e)
    BY <2>2 DEF Create, Free, FileTypes
  <2>3. CASE Close(e) \/ GiveUp(e)
    BY <2>3 DEF Close, GiveUp, ExportEnds, FileTypes
  <2> QED BY <1>5, <2>1, <2>2, <2>3 DEF Export
<1> QED BY <1>1, <1>2, <1>3, <1>4, <1>5 DEF GovernanceNext

\* A whole report is taken away by commands alone as long as none of them removes a file
\* that is still written: that is what it takes for an export to meet the file of another
\* under the name of its own.
THEOREM CommandsAloneTakeReports ==
  GovernanceSpec /\ []SparesUnfinished
    => [][\A n \in Names : Whole(n) => Whole(n)' \/ (files'[n] = "none" /\ ByCommand(n))]_govVars
<1>1. GovernanceInit => WrittenIsOwn
  BY DEF GovernanceInit, WrittenIsOwn
<1>2. GovernanceTypeOK /\ SparesUnfinished /\ WrittenIsOwn /\ [GovernanceNext]_govVars => WrittenIsOwn'
  BY Types, WrittenIsOwnStep
<1>3. ASSUME GovernanceTypeOK, ReportInv, WrittenIsOwn, [GovernanceNext]_govVars,
             NEW n \in Names, Whole(n)
      PROVE  Whole(n)' \/ (files'[n] = "none" /\ ByCommand(n))
  <2>1. CASE ByNamesake(n)
    BY <1>3, <2>1, GovernanceAssumption DEF ByNamesake, WrittenIsOwn, Whole
  <2>2. CASE ~ByNamesake(n)
    BY <1>3, <2>2, Types, WholeReportsStep DEF SafeStep
  <2> QED BY <2>1, <2>2
<1>4. GovernanceTypeOK /\ ReportInv /\ WrittenIsOwn /\ [GovernanceNext]_govVars
      => [\A n \in Names : Whole(n) => Whole(n)' \/ (files'[n] = "none" /\ ByCommand(n))]_govVars
  BY <1>3
<1> QED BY <1>1, <1>2, <1>4, ReportInvariant, PTL DEF GovernanceSpec

-----------------------------------------------------------------------------
(* Retention. *)

\* What is old was issued.
AgedIssued == \A a \in aged : issuedTo[a] # None

\* The kinds behind a command that nobody disturbs are finished, and what its statement has
\* selected is still due, a full batch or all there is.
Undisturbed(c) ==
    /\ pc[c] = "retaining" => kinds[c] \cap {"messages", "raw_analysis", "assessments"} # {}
    /\ Retaining(c) /\ ~disturbed[c] =>
          \A k \in Retained \ (kinds[c] \cup {"reports"}) : Due(k) = {}
    /\ Retaining(c) /\ pc[c] = "retaining" /\ ~disturbed[c] =>
          /\ chosen[c] \subseteq Due(Current(c))
          /\ Cardinality(chosen[c]) = Batch \/ chosen[c] = Due(Current(c))

\* For a command that goes on undisturbed, a step of others changes nothing.
Unnoticed(c) ==
    Retaining(c)' /\ ~disturbed'[c] =>
        /\ UNCHANGED <<pc[c], target[c], kinds[c], chosen[c]>> /\ ~disturbed[c]
        /\ UNCHANGED <<Due("messages"), Due("raw_analysis"), Due("assessments")>>

LEMMA DueKinds ==
  /\ Due("messages") = Expired \cap Present(stored)
  /\ Due("raw_analysis") = raw \cap aged
  /\ Due("assessments") = aged \cap Present(assessed)
  /\ \A k \in Retained \ {"reports"} : k \in {"messages", "raw_analysis", "assessments"}
  /\ \A c : Current(c) \in {"messages", "raw_analysis", "assessments"}
  BY GovernanceAssumption DEF Due, Current, Kinds

LEMMA DueNext ==
  /\ Due("messages")' = Expired \cap Present(stored')
  /\ Due("raw_analysis")' = raw' \cap aged'
  /\ Due("assessments")' = aged' \cap Present(assessed')
  BY DEF Due, Present

LEMMA UnnoticedKeeps ==
  ASSUME NEW c \in Commands, Undisturbed(c), Unnoticed(c),
         pc'[c] = "retaining" => pc[c] = "retaining" /\ kinds'[c] = kinds[c]
  PROVE  Undisturbed(c)'
<1>1. CASE ~(Retaining(c)' /\ ~disturbed'[c])
  BY <1>1 DEF Undisturbed, Retaining
<1>2. CASE Retaining(c)' /\ ~disturbed'[c]
  <2>1. /\ UNCHANGED <<pc[c], target[c], kinds[c], chosen[c]>> /\ ~disturbed[c] /\ Retaining(c)
        /\ UNCHANGED <<Due("messages"), Due("raw_analysis"), Due("assessments")>>
    BY <1>2 DEF Unnoticed, Retaining
  <2>2. Current(c)' = Current(c) /\ Due(Current(c))' = Due(Current(c))
    BY <2>1, DueKinds DEF Current
  <2>3. \A k \in Retained \ {"reports"} : Due(k)' = Due(k)
    BY <2>1, DueKinds
  <2> QED BY <2>1, <2>2, <2>3 DEF Undisturbed
<1> QED BY <1>1, <1>2

\* Rows that others store or delete are not due, or are noticed.
LEMMA OthersAreNoticed ==
  ASSUME RowTypes, CommandTypes, FlagTypes, AgedIssued, [GovernanceNext]_govVars,
         NEW c \in Commands, ~(Deletion(c) \/ Retention(c) \/ RemoveReport(c) \/ Succeed(c) \/ Fail(c))
  PROVE  Unnoticed(c) /\ (pc'[c] = "retaining" => pc[c] = "retaining" /\ kinds'[c] = kinds[c])
<1> USE DEF CommandTypes
<1> DEFINE Still == UNCHANGED <<pc[c], target[c], kinds[c], chosen[c]>>
           DueStill == UNCHANGED <<Due("messages"), Due("raw_analysis"), Due("assessments")>>
<1>0. ASSUME Still, Retaining(c) /\ ~disturbed'[c] => ~disturbed[c] /\ DueStill
      PROVE  Unnoticed(c) /\ (pc'[c] = "retaining" => pc[c] = "retaining" /\ kinds'[c] = kinds[c])
  BY <1>0 DEF Unnoticed, Retaining
<1>1. ASSUME Still, UNCHANGED <<stored, assessed, raw, aged, disturbed>>
      PROVE  Unnoticed(c) /\ (pc'[c] = "retaining" => pc[c] = "retaining" /\ kinds'[c] = kinds[c])
  BY <1>0, <1>1, DueKinds, DueNext DEF Present
<1>2. ASSUME NEW d \in Deals, NEW m \in Messages, StoreMessage(d, m)
      PROVE  Still /\ (Retaining(c) /\ ~disturbed'[c] => ~disturbed[c] /\ DueStill)
  <2>1. Still
    BY <1>2 DEF StoreMessage, deleteVars, retainVars
  <2>2. disturbed'[c] = (disturbed[c] \/ (m \in Expired /\ Retaining(c)))
    BY <1>2, Zenon DEF StoreMessage
  <2>3. UNCHANGED <<assessed, raw, aged>> /\ Present(stored') = Present(stored) \cup {m}
    BY <1>2, GovernanceAssumption DEF StoreMessage, Present, RowTypes
  <2>4. ASSUME m \notin Expired PROVE DueStill
    <3>1. Expired \cap Present(stored') = Expired \cap Present(stored)
      BY <2>3, <2>4
    <3>2. Due("messages")' = Due("messages")
      BY <3>1, DueKinds, DueNext, Zenon
    <3>3. Due("raw_analysis")' = Due("raw_analysis") /\ Due("assessments")' = Due("assessments")
      BY <2>3, DueKinds, DueNext DEF Present
    <3> QED BY <3>2, <3>3
  <2> QED BY <2>1, <2>2, <2>4
<1>3. ASSUME NEW d \in Deals, NEW a \in Assessments, Issue(d, a)
      PROVE  Still /\ disturbed' = disturbed /\ DueStill
  <2>1. a \notin aged
    BY <1>3 DEF Issue, AgedIssued
  <2>2. /\ UNCHANGED <<stored, aged>> /\ raw' = raw \cup {a}
        /\ Present(assessed') = Present(assessed) \cup {a}
    BY <1>3, GovernanceAssumption DEF Issue, Present, RowTypes
  <2>3. DueStill
    <3>1. Due("messages")' = Due("messages")
      BY <2>2, DueKinds, DueNext DEF Present
    <3>2. raw' \cap aged' = raw \cap aged /\ aged' \cap Present(assessed') = aged \cap Present(assessed)
      BY <2>1, <2>2
    <3>3. Due("raw_analysis")' = Due("raw_analysis") /\ Due("assessments")' = Due("assessments")
      BY <3>2, DueKinds, DueNext, Zenon
    <3> QED BY <3>1, <3>3
  <2> QED BY <1>3, <2>3 DEF Issue, deleteVars, retainVars
<1>4. ASSUME NEW a \in Assessments, Refer(a)
      PROVE  Still /\ UNCHANGED <<stored, assessed, raw, aged, disturbed>>
  BY <1>4 DEF Refer, deleteVars, retainVars, historyVars
<1>5. CASE TimePasses
  <2>1. Still /\ ~Retaining(c)
    BY <1>5 DEF TimePasses, deleteVars, retainVars, Ended, Retaining
  <2> QED BY <1>0, <2>1
<1>6. ASSUME NEW o \in Commands \ {c}, OthersNotice(o)
      PROVE  Retaining(c) => disturbed'[c]
  BY <1>6, Zenon DEF OthersNotice
<1>7. ASSUME NEW o \in Commands \ {c}, Deletion(o)
      PROVE  Unnoticed(c) /\ (pc'[c] = "retaining" => pc[c] = "retaining" /\ kinds'[c] = kinds[c])
  <2>1. Still
    BY <1>7 DEF Deletion, Ask, ListReports, DeleteRows, Goes, deleteVars, retainVars
  <2>2. CASE DeleteRows(o)
    BY <1>0, <1>6, <2>1, <2>2 DEF DeleteRows
  <2>3. CASE UNCHANGED <<stored, assessed, raw, aged, disturbed>>
    BY <1>1, <2>1, <2>3
  <2> QED BY <1>7, <2>2, <2>3 DEF Deletion, Ask, ListReports, rowVars, historyVars
<1>8. ASSUME NEW o \in Commands \ {c}, Retention(o)
      PROVE  Unnoticed(c) /\ (pc'[c] = "retaining" => pc[c] = "retaining" /\ kinds'[c] = kinds[c])
  <2>1. Still
    BY <1>8 DEF Retention, Retain, Select, Apply, Sweep, Goes, deleteVars
  <2>2. CASE Apply(o)
    BY <1>0, <1>6, <2>1, <2>2 DEF Apply
  <2>3. CASE UNCHANGED <<stored, assessed, raw, aged, disturbed>>
    BY <1>1, <2>1, <2>3
  <2> QED BY <1>8, <2>2, <2>3 DEF Retention, Retain, Select, Sweep, rowVars, historyVars
<1>9. ASSUME NEW o \in Commands \ {c}, RemoveReport(o) \/ Succeed(o) \/ Fail(o)
      PROVE  Unnoticed(c) /\ (pc'[c] = "retaining" => pc[c] = "retaining" /\ kinds'[c] = kinds[c])
  <2>1. Still /\ UNCHANGED <<stored, assessed, raw, aged>>
    BY <1>9 DEF RemoveReport, Succeed, Fail, Ends, Goes, retainVars, rowVars
  <2>2. disturbed'[c] = disturbed[c]
    BY <1>9 DEF RemoveReport, Succeed, Fail, Ends, historyVars, FlagTypes
  <2> QED BY <1>0, <2>1, <2>2, DueKinds, DueNext DEF Present
<1>10. ASSUME NEW e \in Exporters, Export(e)
      PROVE  Still /\ UNCHANGED <<stored, assessed, raw, aged, disturbed>>
  BY <1>10 DEF Export, Render, Create, Close, GiveUp, ExportEnds, rowVars, deleteVars, retainVars,
                historyVars
<1>11. CASE UNCHANGED govVars
  BY <1>1, <1>11 DEF govVars, rowVars, deleteVars, retainVars, historyVars
<1>12. CASE Audit
  BY <1>0, <1>1, <1>2, <1>3, <1>4, <1>12 DEF Audit
<1> QED BY <1>1, <1>5, <1>7, <1>8, <1>9, <1>10, <1>11, <1>12 DEF GovernanceNext

\* A command's own step: a statement begins with what is due, and a batch that is not full
\* was all there was.
LEMMA RetainOwnStep ==
  ASSUME RowTypes, CommandTypes, NEW c \in Commands, OwnReports(c), Undisturbed(c),
         Deletion(c) \/ Retention(c) \/ RemoveReport(c) \/ Succeed(c) \/ Fail(c)
  PROVE  Undisturbed(c)'
<1> USE DEF CommandTypes, Goes
<1>1. CASE Deletion(c) \/ Succeed(c) \/ Fail(c)
  <2>1. pc'[c] # "retaining" /\ ~Retaining(c)'
    BY <1>1, GovernanceAssumption
    DEF Deletion, Ask, ListReports, DeleteRows, Succeed, Fail, Ends, deleteVars, OwnReports, Retaining
  <2> QED BY <2>1 DEF Undisturbed
<1>2. CASE Retain(c)
  <2>1. pc'[c] = "selecting" /\ kinds'[c] = Retained
    BY <1>2 DEF Retain
  <2> QED BY <2>1 DEF Undisturbed
<1>3. CASE RemoveReport(c) \/ Sweep(c)
  <2>1. /\ pc'[c] = "removing" /\ target' = target /\ disturbed' = disturbed
        /\ UNCHANGED rowVars
        /\ pc[c] \in {"selecting", "removing"}
    BY <1>3 DEF RemoveReport, Sweep, historyVars
  <2>2. Retained \ (kinds'[c] \cup {"reports"}) = Retained \ (kinds[c] \cup {"reports"})
    BY <1>3 DEF RemoveReport, Sweep, retainVars
  <2>3. \A k : Due(k)' = Due(k)
    BY <2>1 DEF Due, Present, rowVars
  <2>4. Retaining(c)' => Retaining(c)
    BY <2>1 DEF Retaining
  <2> QED BY <2>1, <2>2, <2>3, <2>4 DEF Undisturbed
<1>4. CASE Select(c)
  <2>1. /\ pc[c] = "selecting" /\ pc'[c] = "retaining" /\ kinds'[c] = kinds[c]
        /\ ~ kinds[c] \subseteq {"reports"} /\ disturbed' = disturbed
        /\ UNCHANGED rowVars /\ target' = target
    BY <1>4 DEF Select, deleteVars, historyVars
  <2>2. \A k : Due(k)' = Due(k)
    BY <2>1 DEF Due, Present, rowVars
  <2>3. Current(c)' = Current(c)
    BY <2>1 DEF Current
  <2>4. /\ chosen'[c] \subseteq Due(Current(c))
        /\ Cardinality(chosen'[c]) = Batch \/ chosen'[c] = Due(Current(c))
    BY <1>4 DEF Select
  <2>5. kinds'[c] \cap {"messages", "raw_analysis", "assessments"} # {}
    BY <2>1, GovernanceAssumption DEF Kinds
  <2>6. Retaining(c)
    BY <2>1 DEF Retaining, OwnReports
  <2> QED BY <2>1, <2>2, <2>3, <2>4, <2>5, <2>6 DEF Undisturbed
<1>5. CASE Apply(c)
  <2>1. PICK k \in {"messages", "raw_analysis", "assessments"} : k = Current(c)
    BY DueKinds
  <2> DEFINE affected == chosen[c] \cap Due(k)
  <2>2. /\ pc[c] = "retaining" /\ pc'[c] = "selecting"
        /\ kinds'[c] = IF Last(Cardinality(affected)) THEN kinds[c] \ {k} ELSE kinds[c]
        /\ UNCHANGED aged
    BY <1>5, <2>1 DEF Apply
  <2>3. ~disturbed'[c] => ~disturbed[c]
    BY <1>5, Zenon DEF Apply, OthersNotice
  <2>4. /\ \A j \in Retained \ {"reports"} : Due(j)' \subseteq Due(j)
        /\ Due(k)' = Due(k) \ affected
    <3>1. CASE k = "messages"
      <4>1. Delete(affected, {})
        BY <1>5, <2>1, <3>1 DEF Apply
      <4>2. /\ Present(stored') = Present(stored) \ affected
            /\ assessed' = assessed /\ raw' = raw
        BY <4>1 DEF Delete, Present, RowTypes
      <4> QED BY <2>2, <3>1, <4>2, DueKinds, DueNext
    <3>2. CASE k = "assessments"
      <4>1. Delete({}, affected)
        BY <1>5, <2>1, <3>2 DEF Apply
      <4>2. /\ Present(assessed') = Present(assessed) \ affected
            /\ stored' = stored /\ raw' = raw \ affected
        BY <4>1 DEF Delete, Present, RowTypes
      <4> QED BY <2>2, <3>2, <4>2, DueKinds, DueNext
    <3>3. CASE k = "raw_analysis"
      <4>1. raw' = raw \ affected /\ UNCHANGED <<stored, assessed>>
        BY <1>5, <2>1, <3>3 DEF Apply
      <4> QED BY <2>2, <3>3, <4>1, DueKinds, DueNext
    <3> QED BY <2>1, <3>1, <3>2, <3>3
  <2>5. Retaining(c)
    BY <2>2 DEF Retaining, OwnReports
  <2>6. ASSUME ~disturbed[c], Last(Cardinality(affected)) PROVE Due(k)' = {}
    <3>1. /\ chosen[c] \subseteq Due(k)
          /\ Cardinality(chosen[c]) = Batch \/ chosen[c] = Due(k)
      BY <2>1, <2>2, <2>5, <2>6 DEF Undisturbed
    <3>2. affected = chosen[c]
      BY <3>1
    <3>3. Cardinality(chosen[c]) # Batch
      <4>1. Batch \in Nat /\ ~(Batch < Batch)
        BY GovernanceAssumption
      <4>2. Cardinality(chosen[c]) < Batch
        BY <2>6, <3>2 DEF Last
      <4> QED BY <4>1, <4>2
    <3> QED BY <2>4, <3>1, <3>2, <3>3
  <2>7. ASSUME ~disturbed[c], NEW j \in Retained \ (kinds'[c] \cup {"reports"})
        PROVE  Due(j)' = {}
    <3>1. CASE j = k /\ Last(Cardinality(affected))
      BY <2>6, <2>7, <3>1
    <3>2. CASE j \notin kinds[c]
      BY <2>4, <2>5, <2>7, <3>2 DEF Undisturbed
    <3> QED BY <2>2, <2>7, <3>1, <3>2
  <2> QED BY <2>2, <2>3, <2>7 DEF Undisturbed
<1> QED BY <1>1, <1>2, <1>3, <1>4, <1>5 DEF Retention

\* A retention keeps the reports for the last, and has then listed the old ones.
Swept(c) ==
    "reports" \in Retained =>
        /\ pc[c] \in {"selecting", "retaining"} => "reports" \in kinds[c]
        /\ pc[c] = "removing" /\ target[c] = None =>
              \A n \in Names : OldReport(n) => n \in listed[c]

RetainInv == AgedIssued /\ \A c \in Commands : Undisturbed(c) /\ Swept(c)

\* A file grows old only while no command runs.
LEMMA NoFileGrowsOld ==
  ASSUME CommandTypes, FileTypes, [GovernanceNext]_govVars
  PROVE  TimePasses \/ \A n \in Names : files'[n] = "old" => files[n] = "old"
<1> USE GovernanceAssumption
<1>1. CASE UNCHANGED files
  BY <1>1
<1>2. ASSUME NEW c \in Commands, RemoveReport(c) PROVE \A n \in Names : files'[n] = "old" => files[n] = "old"
  BY <1>2 DEF RemoveReport, Remove, CommandTypes, FileTypes
<1>3. ASSUME NEW e \in Exporters, Export(e) PROVE \A n \in Names : files'[n] = "old" => files[n] = "old"
  <2>1. CASE UNCHANGED files
    BY <2>1
  <2>2. CASE Create(e)
    BY <2>2 DEF Create, FileTypes
  <2>3. CASE Close(e)
    BY <2>3 DEF Close
  <2>4. CASE GiveUp(e)
    BY <2>4 DEF GiveUp
  <2> QED BY <1>3, <2>1, <2>2, <2>3, <2>4 DEF Export, Render
<1> QED
  BY <1>1, <1>2, <1>3
  DEF GovernanceNext, govVars, Audit, StoreMessage, Issue, Refer, Deletion, Ask, ListReports,
      DeleteRows, Retention, Retain, Select, Apply, Sweep, Succeed, Fail, Ends

LEMMA SweptStep ==
  ASSUME RowTypes, CommandTypes, FileTypes, FlagTypes, AgedIssued, [GovernanceNext]_govVars,
         NEW c \in Commands, OwnReports(c), Swept(c)
  PROVE  Swept(c)'
<1> USE DEF CommandTypes, Goes
<1>1. CASE TimePasses
  BY <1>1 DEF TimePasses, Ended, deleteVars, retainVars, Swept
<1>2. CASE ~TimePasses /\ ~(Deletion(c) \/ Retention(c) \/ RemoveReport(c) \/ Succeed(c) \/ Fail(c))
  <2>1. UNCHANGED <<pc[c], target[c], listed[c]>>
    BY <1>2, WhoStandsAside DEF Aside
  <2>2. kinds'[c] = kinds[c]
    <3>1. CASE UNCHANGED kinds
      BY <3>1
    <3>2. ASSUME NEW o \in Commands \ {c}, Retention(o) \/ Succeed(o) \/ Fail(o)
          PROVE  kinds'[c] = kinds[c]
      BY <3>2 DEF Retention, Retain, Select, Apply, Sweep, Succeed, Fail, Ends
    <3>3. ASSUME NEW o \in Commands, Deletion(o) \/ RemoveReport(o) PROVE UNCHANGED kinds
      BY <3>3 DEF Deletion, Ask, ListReports, DeleteRows, RemoveReport, retainVars
    <3>4. ASSUME NEW e \in Exporters, Export(e) PROVE UNCHANGED kinds
      BY <3>4 DEF Export, Render, Create, Close, GiveUp, ExportEnds, retainVars
    <3>5. ASSUME Audit \/ UNCHANGED govVars PROVE UNCHANGED kinds
      BY <3>5 DEF Audit, StoreMessage, Issue, Refer, govVars, retainVars
    <3> QED BY <1>2, <3>1, <3>2, <3>3, <3>4, <3>5 DEF GovernanceNext
  <2>3. \A n \in Names : OldReport(n)' => OldReport(n)
    BY <1>2, NoFileGrowsOld DEF OldReport
  <2> QED BY <2>1, <2>2, <2>3 DEF Swept
<1>3. CASE Deletion(c) \/ Succeed(c) \/ Fail(c)
  <2>1. pc'[c] \notin {"selecting", "retaining"} /\ ~(pc'[c] = "removing" /\ target'[c] = None)
    BY <1>3, GovernanceAssumption
    DEF Deletion, Ask, ListReports, DeleteRows, Succeed, Fail, Ends, deleteVars, OwnReports
  <2> QED BY <2>1 DEF Swept
<1>4. CASE RemoveReport(c)
  BY <1>4 DEF RemoveReport, Remove, FileTypes, retainVars, Swept, OldReport
<1>5. CASE Sweep(c)
  <2>1. pc'[c] = "removing" /\ pc[c] = "selecting" /\ files' = files
    BY <1>5 DEF Sweep
  <2>2. listed'[c] = {n \in Names : "reports" \in kinds[c] /\ n.subject \in Assessments
                                       /\ files[n] = "old"}
    BY <1>5 DEF Sweep
  <2> QED BY <2>1, <2>2 DEF Swept, OldReport
<1>6. CASE Retain(c) \/ Select(c)
  <2>1. pc'[c] \in {"selecting", "retaining"} /\ kinds'[c] \in {Retained, kinds[c]}
        /\ (pc[c] = "idle" => kinds'[c] = Retained) /\ pc[c] \in {"idle", "selecting"}
    BY <1>6 DEF Retain, Select
  <2> QED BY <2>1 DEF Swept
<1>7. CASE Apply(c)
  <2>1. pc'[c] = "selecting" /\ pc[c] = "retaining" /\ kinds[c] \ {Current(c)} \subseteq kinds'[c]
    BY <1>7 DEF Apply
  <2>2. Current(c) # "reports"
    BY DueKinds
  <2> QED BY <2>1, <2>2 DEF Swept
<1> QED BY <1>1, <1>2, <1>3, <1>4, <1>5, <1>6, <1>7 DEF Retention

LEMMA RetainStep ==
  ASSUME GovernanceTypeOK, ReportInv, RetainInv, [GovernanceNext]_govVars
  PROVE  RetainInv'
<1>1. RowTypes /\ CommandTypes /\ FileTypes /\ FlagTypes
  BY Types
<1>2. IssuesKept
  BY <1>1, WhoStandsAside
<1>3. AgedIssued'
  <2>1. CASE TimePasses
    BY <1>1, <2>1, GovernanceAssumption DEF TimePasses, AgedIssued, RowTypes, Present
  <2>2. CASE UNCHANGED aged
    BY <1>1, <1>2, <2>2 DEF AgedIssued, IssuesKept, RetainInv, RowTypes
  <2> QED
    BY <2>1, <2>2
    DEF GovernanceNext, govVars, rowVars, Audit, StoreMessage, Issue, Refer, Deletion, Ask,
        ListReports, DeleteRows, Retention, Retain, Select, Apply, Sweep, RemoveReport, Succeed,
        Fail, Ends, Export, Render, Create, Close, GiveUp, ExportEnds
<1>4. ASSUME NEW c \in Commands PROVE Undisturbed(c)'
  <2>1. CASE Deletion(c) \/ Retention(c) \/ RemoveReport(c) \/ Succeed(c) \/ Fail(c)
    BY <1>1, <2>1, RetainOwnStep DEF RetainInv, ReportInv
  <2>2. CASE ~(Deletion(c) \/ Retention(c) \/ RemoveReport(c) \/ Succeed(c) \/ Fail(c))
    BY <1>1, <2>2, OthersAreNoticed, UnnoticedKeeps DEF RetainInv
  <2> QED BY <2>1, <2>2
<1>5. ASSUME NEW c \in Commands PROVE Swept(c)'
  BY <1>1, SweptStep DEF RetainInv, ReportInv
<1> QED BY <1>3, <1>4, <1>5 DEF RetainInv

LEMMA RetainInitial == GovernanceInit => RetainInv
  BY DEF GovernanceInit, RetainInv, AgedIssued, Undisturbed, Retaining, Swept

\* A retention goes on to the next kind, and in the end to the reports, only when nothing of
\* the last is due, unless others deleted or stored such rows meanwhile; and it lists
\* every old report, whatever others do.
THEOREM RetentionsAreComplete == GovernanceSpec => []RetentionIsComplete
<1>1. GovernanceTypeOK /\ ReportInv /\ RetainInv /\ [GovernanceNext]_govVars => RetainInv'
  BY RetainStep
<1>2. RetainInv => RetentionIsComplete
  BY DEF RetainInv, Undisturbed, Swept, Retaining, RetentionIsComplete
<1> QED BY <1>1, <1>2, RetainInitial, ReportInvariant, PTL DEF GovernanceSpec
=============================================================================
