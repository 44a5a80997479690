------------------------- MODULE TuiRequests_proofs -------------------------
(***************************************************************************)
(* Proofs about the TUI's requests, for any deals and any number of        *)
(* requests: the types; that the flags which keep a background job from    *)
(* starting twice are true; that a screen which is loading is answered     *)
(* once, and an analysis is shown under its deal; that what Esc left       *)
(* behind changes nothing, and that the polling of a batch goes on.        *)
(***************************************************************************)
EXTENDS TuiRequests, FiniteSetTheorems, TLAPS

USE TuiAssumption DEF Requests

\* The types but for the flags.
DataTypeOK ==
    NavigationTypeOK /\ ReadsTypeOK /\ BatchTypeOK /\ pending \subseteq Messages

\* A flag is set while one job is in flight, and there is none otherwise.
JobInv ==
    /\ OfKind({"pdf"}) = IF pdfGenerating THEN {Command("pdf", 0, Nothing)} ELSE {}
    /\ IF crmSyncing THEN \E m \in pending : OfKind({"sync"}) = {m} ELSE OfKind({"sync"}) = {}

-----------------------------------------------------------------------------
(* Types. *)

LEMMA SubjectsTyped ==
    /\ Nothing \in Subjects
    /\ \A d \in Deals : <<d, 0>> \in Subjects
    /\ \A s \in Subjects : <<s[1], 0>> \in Subjects
    /\ \A s \in Subjects, a \in Audits \cup {0} : <<s[1], a>> \in Subjects
  BY SMT DEF Subjects, Nothing

LEMMA CommandsTyped ==
    /\ 0 \in Requests
    /\ \A r \in Requests, s \in Subjects :
          /\ \A k \in ReadKinds : Command(k, r, s) \in Messages
          /\ Command("report", r, s) \in Messages /\ Command("pdf", r, s) \in Messages
          /\ Command("created", r, s) \in Messages /\ Command("canceled", r, s) \in Messages
          /\ Command("sync", r, s) \in Messages
    /\ \A r \in Requests, s \in Screens :
          Command("business", r, s) \in Messages /\ Command("csv", r, s) \in Messages
  BY SMT DEF Messages, Command

LEMMA MessagesTyped ==
    ASSUME NEW m \in Messages
    PROVE  /\ m.request \in Requests
           /\ m.kind \in ReadKinds \cup {"report", "created", "canceled"} => m.about \in Subjects
           /\ m.kind \in {"business", "csv"} => m.about \in Screens
  BY SMT DEF Messages, ReadKinds

LEMMA NoReadTyped ==
    /\ NoRead \in [request : Requests, kind : ReadKinds \cup {"none"}, about : Subjects]
    /\ NoRetry \in [kind : ReadKinds \cup {"none"}, about : Subjects]
    /\ NoRead.request = 0 /\ NoRetry.kind = "none" /\ NoRead.kind = "none"
  BY SubjectsTyped, SMT DEF NoRead, NoRetry

LEMMA TuiTypeInit == TuiInit => TuiTypeOK
  BY SubjectsTyped, NoReadTyped, SMT DEF TuiInit, TuiTypeOK, NavigationTypeOK,
     ReadsTypeOK, BatchTypeOK, FlagsTypeOK, Screens, BusinessScreens

LEMMA KeptTyped ==
    /\ NavigationTypeOK /\ UNCHANGED navigationVars => NavigationTypeOK'
    /\ ReadsTypeOK /\ UNCHANGED readVars => ReadsTypeOK'
    /\ BatchTypeOK /\ UNCHANGED batchVars => BatchTypeOK'
  BY SMT DEF NavigationTypeOK, ReadsTypeOK, BatchTypeOK, navigationVars, readVars, batchVars

LEMMA BeginReadTyped ==
    ASSUME ReadsTypeOK, pending \subseteq Messages,
           NEW k \in ReadKinds, NEW s \in Subjects, BeginRead(k, s)
    PROVE  ReadsTypeOK' /\ pending' \subseteq Messages
<1>1. seq + 1 \in Requests
  BY SMT DEF BeginRead, ReadsTypeOK
<1>2. Command(k, seq + 1, s) \in Messages
  BY <1>1, CommandsTyped
<1> QED
  BY <1>1, <1>2, SMT DEF BeginRead, ReadsTypeOK

LEMMA LoadBusinessTyped ==
    ASSUME ReadsTypeOK, NEW inflight \in SUBSET Messages,
           NEW target \in Screens, LoadBusiness(target, inflight)
    PROVE  ReadsTypeOK' /\ pending' \subseteq Messages
<1>1. seq + 1 \in Requests
  BY SMT DEF LoadBusiness, ReadsTypeOK
<1>2. Command("business", seq + 1, target) \in Messages
  BY <1>1, CommandsTyped
<1> QED
  BY <1>1, <1>2, SMT DEF LoadBusiness, ReadsTypeOK

LEMMA CountsTyped ==
    ASSUME NEW f \in [Requests -> Nat], NEW r \in Requests
    PROVE  /\ [f EXCEPT ![r] = @ + 1] \in [Requests -> Nat]
           /\ f[r] > 0 => [f EXCEPT ![r] = @ - 1] \in [Requests -> Nat]
<1>1. f[r] \in Nat
  OBVIOUS
<1>2. \A n \in Nat : [f EXCEPT ![r] = n] \in [Requests -> Nat]
  OBVIOUS
<1>3. f[r] + 1 \in Nat /\ (f[r] > 0 => f[r] - 1 \in Nat)
  BY <1>1, SMT
<1> QED
  BY <1>2, <1>3

LEMMA BatchTyped ==
    ASSUME BatchTypeOK, NEW r \in Requests, UNCHANGED batchRequest,
           timers' = timers \/ timers' = [timers EXCEPT ![r] = @ + 1],
           \/ polls' = polls
           \/ polls' = [polls EXCEPT ![r] = @ + 1]
           \/ polls[r] > 0 /\ polls' = [polls EXCEPT ![r] = @ - 1]
    PROVE  BatchTypeOK'
<1>0. timers \in [Requests -> Nat]
  BY DEF BatchTypeOK
<1>1. timers' \in [Requests -> Nat]
  <2>1. CASE timers' = timers
    BY <1>0, <2>1
  <2>2. CASE timers' = [timers EXCEPT ![r] = @ + 1]
    BY <1>0, <2>2, CountsTyped
  <2> QED
    BY <2>1, <2>2
<1>2. polls' \in [Requests -> Nat]
  <2>1. polls \in [Requests -> Nat]
    BY DEF BatchTypeOK
  <2> QED
    BY <2>1, CountsTyped
<1> QED
  BY <1>1, <1>2 DEF BatchTypeOK

LEMMA PushedTyped == NavigationTypeOK => Pushed \in Seq(Screens)
  BY SMT DEF NavigationTypeOK, Pushed

LEMMA JobEndsTyped ==
    ASSUME NavigationTypeOK, ReadsTypeOK, NEW ret \in Screens, JobEnds(ret)
    PROVE  NavigationTypeOK' /\ ReadsTypeOK'
  BY NoReadTyped, SMT DEF JobEnds, ShowError, NavigationTypeOK, ReadsTypeOK, Screens

\* Every step keeps the variables in their types; the flags, which the SMT solver
\* takes for data, are left to a lemma of their own.
LEMMA DataTypeStep == DataTypeOK /\ [TuiNext]_tuiVars => DataTypeOK'
<1> SUFFICES ASSUME DataTypeOK, [TuiNext]_tuiVars PROVE DataTypeOK'
  OBVIOUS
<1>0. NavigationTypeOK /\ ReadsTypeOK /\ BatchTypeOK /\ pending \subseteq Messages
  BY DEF DataTypeOK
<1> USE <1>0, KeptTyped DEF DataTypeOK
<1>1. ASSUME Esc PROVE DataTypeOK'
  <2>1. BackTarget \in Screens
    BY SMT DEF BackTarget, NavigationTypeOK, Screens
  <2>2. PopsNavigation => /\ navigation[Len(navigation)] \in Screens
                          /\ SubSeq(navigation, 1, Len(navigation) - 1) \in Seq(Screens)
    BY SMT DEF PopsNavigation, NavigationTypeOK
  <2>3. NavigationTypeOK'
    BY <1>1, <2>1, <2>2, SMT DEF Esc, NavigationTypeOK
  <2>4. seq + 1 \in Requests
    BY <1>1, SMT DEF Esc, Abandon, ReadsTypeOK
  <2>5. ReadsTypeOK'
    BY <1>1, <2>4, NoReadTyped, SMT DEF Esc, Abandon, ForgetRead, ReadsTypeOK
  <2>6. BatchTypeOK'
    BY <1>1, <2>4 DEF Esc, Abandon, BatchTypeOK
  <2> QED
    BY <1>1, <2>3, <2>5, <2>6, SMT DEF Esc
<1>2. ASSUME EscFilter PROVE DataTypeOK'
  BY <1>2, SMT DEF EscFilter, NavigationTypeOK
<1>3. ASSUME OpenHelp PROVE DataTypeOK'
  BY <1>3, SMT DEF OpenHelp, NavigationTypeOK, Screens, BusinessScreens, Key
<1>4. ASSUME OpenBatchImport PROVE DataTypeOK'
  BY <1>4, SMT DEF OpenBatchImport, NavigationTypeOK, Screens, BusinessScreens, Key
<1>5. ASSUME StartSearch PROVE DataTypeOK'
  BY <1>5, SMT DEF StartSearch, NavigationTypeOK, Screens, BusinessScreens, Key
<1>6. ASSUME OpenRaw PROVE DataTypeOK'
  BY <1>6, PushedTyped, SMT DEF OpenRaw, NavigationTypeOK, Screens, BusinessScreens
<1>7. ASSUME OpenFilter PROVE DataTypeOK'
  BY <1>7, SMT DEF OpenFilter, NavigationTypeOK
<1>8. ASSUME OpenDashboard PROVE DataTypeOK'
  <2>1. PICK s \in Screens : LoadBusiness(s, pending)
    BY <1>8, SMT DEF OpenDashboard, Screens, BusinessScreens
  <2> QED
    BY <1>8, <2>1, LoadBusinessTyped, SMT DEF OpenDashboard
<1>9. ASSUME ApplyFilter PROVE DataTypeOK'
  BY <1>9, LoadBusinessTyped, SMT DEF ApplyFilter, NavigationTypeOK
<1>10. ASSUME ReadFindings PROVE DataTypeOK'
  BY <1>10, BeginReadTyped, SubjectsTyped, SMT DEF ReadFindings, ReadKinds
<1>11. ASSUME NEW d \in Deals, OpenFinding(d) PROVE DataTypeOK'
  BY <1>11, BeginReadTyped, SubjectsTyped, SMT DEF OpenFinding, ReadKinds, NavigationTypeOK, Screens
<1>12. ASSUME NEW d \in Deals, OpenPriority(d) PROVE DataTypeOK'
  BY <1>12, BeginReadTyped, SubjectsTyped, PushedTyped, SMT DEF OpenPriority, ReadKinds, NavigationTypeOK
<1>13. ASSUME NEW d \in Deals, SearchDeal(d) PROVE DataTypeOK'
  <2>1. NavigationTypeOK'
    BY <1>13, SMT DEF SearchDeal, NavigationTypeOK, Screens
  <2>2. CASE loading
    BY <1>13, <2>1, <2>2, SMT DEF SearchDeal
  <2>3. CASE ~loading
    BY <1>13, <2>1, <2>3, BeginReadTyped, SubjectsTyped, SMT DEF SearchDeal, ReadKinds
  <2> QED
    BY <2>2, <2>3
<1>14. ASSUME RefreshDeal PROVE DataTypeOK'
  BY <1>14, BeginReadTyped, SubjectsTyped, SMT DEF RefreshDeal, ReadKinds, ReadsTypeOK
<1>15. ASSUME OpenAnalysis PROVE DataTypeOK'
  <2>1. ReadsTypeOK' /\ pending' \subseteq Messages
    BY <1>15, BeginReadTyped, SMT DEF OpenAnalysis, ReadKinds, ReadsTypeOK
  <2> QED
    BY <1>15, <2>1, PushedTyped, SMT DEF OpenAnalysis, NavigationTypeOK
<1>16. ASSUME RefreshAnalysis PROVE DataTypeOK'
  BY <1>16, BeginReadTyped, SMT DEF RefreshAnalysis, ReadKinds, ReadsTypeOK
<1>17. ASSUME Retry PROVE DataTypeOK'
  BY <1>17, BeginReadTyped, SMT DEF Retry, ReadsTypeOK
<1>18. ASSUME ExportCSV PROVE DataTypeOK'
  <2>0. seq + 1 \in Requests
    BY <1>18, SMT DEF ExportCSV, ReadsTypeOK
  <2>1. Command("csv", seq + 1, screen) \in Messages
    BY <2>0, CommandsTyped, SubjectsTyped DEF ReadsTypeOK, BatchTypeOK, NavigationTypeOK
  <2> QED
    BY <1>18, <2>1, SMT DEF ExportCSV, ReadsTypeOK
<1>19. ASSUME ExportExecutivePDF PROVE DataTypeOK'
  <2>1. Command("pdf", 0, Nothing) \in Messages
    BY CommandsTyped, SubjectsTyped DEF ReadsTypeOK, BatchTypeOK, NavigationTypeOK
  <2> QED
    BY <1>19, <2>1, SMT DEF ExportExecutivePDF
<1>20. ASSUME ExportReport PROVE DataTypeOK'
  <2>1. Command("report", seq, detail) \in Messages
    BY CommandsTyped, SubjectsTyped DEF ReadsTypeOK, BatchTypeOK, NavigationTypeOK
  <2> QED
    BY <1>20, <2>1, SMT DEF ExportReport
<1>21. ASSUME StartSync PROVE DataTypeOK'
  <2>0. seq + 1 \in Requests
    BY <1>21, SMT DEF StartSync, ReadsTypeOK
  <2>1. Command("sync", seq + 1, Nothing) \in Messages
    BY <2>0, CommandsTyped, SubjectsTyped DEF ReadsTypeOK, BatchTypeOK, NavigationTypeOK
  <2> QED
    BY <1>21, <2>1, SMT DEF StartSync, ReadsTypeOK
<1>22. ASSUME CreateBatch PROVE DataTypeOK'
  <2>0. seq + 1 \in Requests
    BY <1>22, SMT DEF CreateBatch, ReadsTypeOK
  <2>1. Command("created", seq + 1, Nothing) \in Messages
    BY <2>0, CommandsTyped, SubjectsTyped DEF ReadsTypeOK, BatchTypeOK, NavigationTypeOK
  <2>2. ReadsTypeOK'
    BY <1>22, <2>0, SMT DEF CreateBatch, ReadsTypeOK
  <2>3. BatchTypeOK'
    BY <1>22, <2>0 DEF CreateBatch, BatchTypeOK
  <2> QED
    BY <1>22, <2>1, <2>2, <2>3, SMT DEF CreateBatch
<1>23. ASSUME PollNow PROVE DataTypeOK'
  <2>1. polls' = [polls EXCEPT ![batchRequest] = @ + 1]
    BY <1>23 DEF PollNow
  <2>2. UNCHANGED <<batchRequest, timers>>
    BY <1>23 DEF PollNow
  <2>0. batchRequest \in Requests
    BY DEF BatchTypeOK
  <2>3. BatchTypeOK'
    BY <2>0, <2>1, <2>2, BatchTyped
  <2> QED
    BY <1>23, <2>3, SMT DEF PollNow
<1>24. ASSUME CancelBatch PROVE DataTypeOK'
  <2>1. Command("canceled", batchRequest, Nothing) \in Messages
    BY CommandsTyped, SubjectsTyped DEF ReadsTypeOK, BatchTypeOK, NavigationTypeOK
  <2>2. BatchTypeOK'
    BY <1>24 DEF CancelBatch, BatchTypeOK
  <2> QED
    BY <1>24, <2>1, <2>2, SMT DEF CancelBatch
<1>25. ASSUME NEW m \in pending, ReadAnswered(m) PROVE DataTypeOK'
  <2>1. CASE ~IsCurrent(m)
    BY <1>25, <2>1, SMT DEF ReadAnswered, Ignore, Drop
  <2>2. CASE IsCurrent(m)
    <3>1. m.kind \in ReadKinds /\ m.about \in Subjects
      BY <1>25, MessagesTyped, SMT DEF ReadAnswered, OfKind
    <3>2. NavigationTypeOK'
      BY <1>25, <2>2, SMT DEF ReadAnswered, ShowError, NavigationTypeOK, Screens
    <3>3. \E a \in Audits \cup {0} : detail' \in {detail, m.about, <<m.about[1], a>>}
      BY <1>25, <2>2, SMT DEF ReadAnswered
    <3>4. detail' \in Subjects /\ analysis' \in Subjects
      BY <1>25, <2>2, <3>1, <3>3, SubjectsTyped, SMT DEF ReadAnswered, TakeAnalysis, ReadsTypeOK
    <3>5. ReadsTypeOK'
      BY <1>25, <2>2, <3>1, <3>4, NoReadTyped, SMT DEF ReadAnswered, ShowError, ReadsTypeOK
    <3> QED
      BY <1>25, <2>2, <3>2, <3>5, SMT DEF ReadAnswered, Drop
  <2> QED
    BY <2>1, <2>2
<1>26. ASSUME NEW m \in pending, BusinessAnswered(m) PROVE DataTypeOK'
  <2>1. CASE m.request # seq \/ m.about # businessTarget
    BY <1>26, <2>1, SMT DEF BusinessAnswered, Ignore, Drop
  <2>2. CASE ~(m.request # seq \/ m.about # businessTarget)
    <3>1. m.about \in Screens
      BY <1>26, MessagesTyped DEF BusinessAnswered, OfKind
    <3>2. /\ screen' \in {"Error", m.about} /\ errorReturn' \in {screen, errorReturn}
          /\ UNCHANGED <<navigation, detailOrigin, searchOrigin, focus>>
      BY <1>26, <2>2 DEF BusinessAnswered, ShowError
    <3>3. NavigationTypeOK'
      BY <3>1, <3>2, SMT DEF NavigationTypeOK, Screens
    <3>4. /\ retry' \in {retry, NoRetry}
          /\ UNCHANGED <<seq, active, businessTarget, detail, analysis>>
      BY <1>26, <2>2 DEF BusinessAnswered, ShowError
    <3>5. ReadsTypeOK'
      BY <3>4, NoReadTyped, SMT DEF ReadsTypeOK
    <3> QED
      BY <1>26, <2>2, <3>3, <3>5, SMT DEF BusinessAnswered, Drop
  <2> QED
    BY <2>1, <2>2
<1>27. ASSUME NEW m \in pending, CsvAnswered(m) PROVE DataTypeOK'
  <2>1. CASE m.request # seq \/ m.about # screen
    BY <1>27, <2>1, SMT DEF CsvAnswered, Ignore, Drop
  <2>2. CASE ~(m.request # seq \/ m.about # screen)
    <3>1. NavigationTypeOK' /\ ReadsTypeOK'
      BY <1>27, <2>2, JobEndsTyped, SMT DEF CsvAnswered, NavigationTypeOK, Screens
    <3> QED
      BY <1>27, <2>2, <3>1, SMT DEF CsvAnswered, Drop, JobEnds
  <2> QED
    BY <2>1, <2>2
<1>28. ASSUME NEW m \in pending, ExecutivePDFAnswered(m) PROVE DataTypeOK'
  <2>1. NavigationTypeOK' /\ ReadsTypeOK'
    BY <1>28, JobEndsTyped, SMT DEF ExecutivePDFAnswered, Screens, BusinessScreens
  <2> QED
    BY <1>28, <2>1, SMT DEF ExecutivePDFAnswered, Drop, JobEnds
<1>29. ASSUME NEW m \in pending, ReportAnswered(m) PROVE DataTypeOK'
  <2>1. CASE m.about # detail \/ screen # "DealDetail"
    BY <1>29, <2>1, SMT DEF ReportAnswered, Ignore, Drop
  <2>2. CASE ~(m.about # detail \/ screen # "DealDetail")
    <3>1. NavigationTypeOK' /\ ReadsTypeOK'
      BY <1>29, <2>2, JobEndsTyped, SMT DEF ReportAnswered, NavigationTypeOK, Screens
    <3> QED
      BY <1>29, <2>2, <3>1, SMT DEF ReportAnswered, Drop, JobEnds
  <2> QED
    BY <2>1, <2>2
<1>30. ASSUME NEW m \in pending, SyncAnswered(m) PROVE DataTypeOK'
  <2>2. CASE Drop(m) /\ UNCHANGED readVars
    BY <1>30, <2>2, SMT DEF SyncAnswered, Drop
  <2>3. CASE LoadBusiness("Executive", pending \ {m})
    BY <1>30, <2>3, LoadBusinessTyped, SMT DEF SyncAnswered, Screens, BusinessScreens
  <2> QED
    BY <1>30, <2>2, <2>3 DEF SyncAnswered
<1>31. ASSUME NEW m \in pending, BatchCreated(m) PROVE DataTypeOK'
  <2>1. CASE m.request # batchRequest
    BY <1>31, <2>1, SMT DEF BatchCreated, Ignore, Drop
  <2>0. batchRequest \in Requests
    BY DEF BatchTypeOK
  <2>2. CASE m.request = batchRequest
    <3>1. /\ screen' \in {screen, "BatchProgress"} /\ focus' \in {focus, focus \ {"batch"}}
          /\ UNCHANGED <<navigation, errorReturn, detailOrigin, searchOrigin>>
      BY <1>31, <2>2 DEF BatchCreated
    <3>2. NavigationTypeOK'
      BY <3>1, SMT DEF NavigationTypeOK, Screens
    <3>3. /\ timers' = timers \/ timers' = [timers EXCEPT ![m.request] = @ + 1]
          /\ UNCHANGED <<batchRequest, polls>>
      BY <1>31, <2>2 DEF BatchCreated, PollsAgain
    <3>4. BatchTypeOK'
      BY <2>2, <2>0, <3>3, BatchTyped
    <3> QED
      BY <1>31, <2>2, <3>2, <3>4, SMT DEF BatchCreated, Drop
  <2> QED
    BY <2>1, <2>2
<1>32. ASSUME NEW m \in pending, BatchCanceled(m) PROVE DataTypeOK'
  <2>1. CASE m.request # batchRequest
    BY <1>32, <2>1, SMT DEF BatchCanceled, Ignore, Drop
  <2>0. batchRequest \in Requests
    BY DEF BatchTypeOK
  <2>2. CASE m.request = batchRequest
    <3>1. /\ polls' = polls \/ polls' = [polls EXCEPT ![m.request] = @ + 1]
          /\ UNCHANGED <<batchRequest, timers>>
      BY <1>32, <2>2 DEF BatchCanceled
    <3>2. BatchTypeOK'
      BY <2>2, <2>0, <3>1, BatchTyped
    <3> QED
      BY <1>32, <2>2, <3>2, SMT DEF BatchCanceled, Drop
  <2> QED
    BY <2>1, <2>2
<1>33. ASSUME NEW r \in Requests, TimerFires(r) PROVE DataTypeOK'
  <2>1. polls \in [Requests -> Nat] /\ timers \in [Requests -> Nat] /\ batchRequest \in Requests
    BY DEF BatchTypeOK
  <2>2. timers' \in [Requests -> Nat]
    BY <1>33, <2>1, CountsTyped DEF TimerFires
  <2>3. polls' \in [Requests -> Nat]
    BY <1>33, <2>1, CountsTyped DEF TimerFires
  <2>4. BatchTypeOK'
    BY <1>33, <2>1, <2>2, <2>3 DEF BatchTypeOK, TimerFires
  <2> QED
    BY <1>33, <2>4, SMT DEF TimerFires
<1>34. ASSUME NEW r \in Requests, ProgressAnswered(r) PROVE DataTypeOK'
  <2>1. polls[r] > 0 /\ polls' = [polls EXCEPT ![r] = @ - 1] /\ UNCHANGED batchRequest
    BY <1>34 DEF ProgressAnswered
  <2>2. timers' = timers \/ timers' = [timers EXCEPT ![r] = @ + 1]
    BY <1>34 DEF ProgressAnswered, PollsAgain
  <2>3. BatchTypeOK'
    BY <2>1, <2>2, BatchTyped
  <2> QED
    BY <1>34, <2>3, SMT DEF ProgressAnswered
<1>35. CASE UNCHANGED tuiVars
  BY <1>35, SMT DEF tuiVars
<1> QED
  BY <1>1, <1>2, <1>3, <1>4, <1>5, <1>6, <1>7, <1>8, <1>9, <1>10, <1>11, <1>12, <1>13, <1>14,
     <1>15, <1>16, <1>17, <1>18, <1>19, <1>20, <1>21, <1>22, <1>23, <1>24, <1>25, <1>26, <1>27,
     <1>28, <1>29, <1>30, <1>31, <1>32, <1>33, <1>34, <1>35
  DEF TuiNext, UserStep, AnswerStep

\* Every step keeps the flags Boolean.
LEMMA FlagsStep == FlagsTypeOK /\ [TuiNext]_tuiVars => FlagsTypeOK'
<1> SUFFICES ASSUME FlagsTypeOK, [TuiNext]_tuiVars PROVE FlagsTypeOK'
  OBVIOUS
<1> USE DEF FlagsTypeOK, navigationVars, readVars, jobVars, batchVars
<1>1. ASSUME Esc PROVE FlagsTypeOK'
  BY <1>1, Zenon DEF Esc, Abandon
<1>2. ASSUME EscFilter PROVE FlagsTypeOK'
  BY <1>2, Zenon DEF EscFilter
<1>3. ASSUME OpenHelp PROVE FlagsTypeOK'
  BY <1>3, Zenon DEF OpenHelp
<1>4. ASSUME OpenBatchImport PROVE FlagsTypeOK'
  BY <1>4, Zenon DEF OpenBatchImport
<1>5. ASSUME StartSearch PROVE FlagsTypeOK'
  BY <1>5, Zenon DEF StartSearch
<1>6. ASSUME OpenRaw PROVE FlagsTypeOK'
  BY <1>6, Zenon DEF OpenRaw
<1>7. ASSUME OpenFilter PROVE FlagsTypeOK'
  BY <1>7, Zenon DEF OpenFilter
<1>8. ASSUME OpenDashboard PROVE FlagsTypeOK'
  BY <1>8, Zenon DEF OpenDashboard, LoadBusiness
<1>9. ASSUME ApplyFilter PROVE FlagsTypeOK'
  BY <1>9, Zenon DEF ApplyFilter, LoadBusiness
<1>10. ASSUME ReadFindings PROVE FlagsTypeOK'
  BY <1>10, Zenon DEF ReadFindings, BeginRead
<1>11. ASSUME NEW d \in Deals, OpenFinding(d) PROVE FlagsTypeOK'
  BY <1>11, Zenon DEF OpenFinding, BeginRead
<1>12. ASSUME NEW d \in Deals, OpenPriority(d) PROVE FlagsTypeOK'
  BY <1>12, Zenon DEF OpenPriority, BeginRead
<1>13. ASSUME NEW d \in Deals, SearchDeal(d) PROVE FlagsTypeOK'
  BY <1>13, Zenon DEF SearchDeal, BeginRead
<1>14. ASSUME RefreshDeal PROVE FlagsTypeOK'
  BY <1>14, Zenon DEF RefreshDeal, BeginRead
<1>15. ASSUME OpenAnalysis PROVE FlagsTypeOK'
  BY <1>15, Zenon DEF OpenAnalysis, BeginRead
<1>16. ASSUME RefreshAnalysis PROVE FlagsTypeOK'
  BY <1>16, Zenon DEF RefreshAnalysis, BeginRead
<1>17. ASSUME Retry PROVE FlagsTypeOK'
  BY <1>17, Zenon DEF Retry, BeginRead
<1>18. ASSUME ExportCSV PROVE FlagsTypeOK'
  BY <1>18, Zenon DEF ExportCSV
<1>19. ASSUME ExportExecutivePDF PROVE FlagsTypeOK'
  BY <1>19, Zenon DEF ExportExecutivePDF
<1>20. ASSUME ExportReport PROVE FlagsTypeOK'
  BY <1>20, Zenon DEF ExportReport
<1>21. ASSUME StartSync PROVE FlagsTypeOK'
  BY <1>21, Zenon DEF StartSync
<1>22. ASSUME CreateBatch PROVE FlagsTypeOK'
  BY <1>22, Zenon DEF CreateBatch
<1>23. ASSUME PollNow PROVE FlagsTypeOK'
  BY <1>23, Zenon DEF PollNow
<1>24. ASSUME CancelBatch PROVE FlagsTypeOK'
  BY <1>24, Zenon DEF CancelBatch
<1>25. ASSUME NEW m \in pending, ReadAnswered(m) PROVE FlagsTypeOK'
  BY <1>25, Zenon DEF ReadAnswered, Ignore, ShowError
<1>26. ASSUME NEW m \in pending, BusinessAnswered(m) PROVE FlagsTypeOK'
  BY <1>26, Zenon DEF BusinessAnswered, Ignore, ShowError
<1>27. ASSUME NEW m \in pending, CsvAnswered(m) PROVE FlagsTypeOK'
  BY <1>27, Zenon DEF CsvAnswered, Ignore, JobEnds, ShowError
<1>28. ASSUME NEW m \in pending, ExecutivePDFAnswered(m) PROVE FlagsTypeOK'
  BY <1>28, Zenon DEF ExecutivePDFAnswered, JobEnds, ShowError
<1>29. ASSUME NEW m \in pending, ReportAnswered(m) PROVE FlagsTypeOK'
  BY <1>29, Zenon DEF ReportAnswered, Ignore, JobEnds, ShowError
<1>30. ASSUME NEW m \in pending, SyncAnswered(m) PROVE FlagsTypeOK'
  BY <1>30, Zenon DEF SyncAnswered, LoadBusiness
<1>31. ASSUME NEW m \in pending, BatchCreated(m) PROVE FlagsTypeOK'
  BY <1>31, Zenon DEF BatchCreated, Ignore
<1>32. ASSUME NEW m \in pending, BatchCanceled(m) PROVE FlagsTypeOK'
  BY <1>32, Zenon DEF BatchCanceled, Ignore
<1>33. ASSUME NEW r \in Requests, TimerFires(r) PROVE FlagsTypeOK'
  BY <1>33, Zenon DEF TimerFires
<1>34. ASSUME NEW r \in Requests, ProgressAnswered(r) PROVE FlagsTypeOK'
  BY <1>34, Zenon DEF ProgressAnswered
<1>35. CASE UNCHANGED tuiVars
  BY <1>35, Zenon DEF tuiVars
<1> QED
  BY <1>1, <1>2, <1>3, <1>4, <1>5, <1>6, <1>7, <1>8, <1>9, <1>10, <1>11, <1>12, <1>13, <1>14,
     <1>15, <1>16, <1>17, <1>18, <1>19, <1>20, <1>21, <1>22, <1>23, <1>24, <1>25, <1>26, <1>27,
     <1>28, <1>29, <1>30, <1>31, <1>32, <1>33, <1>34, <1>35
  DEF TuiNext, UserStep, AnswerStep

\* Type correctness.
THEOREM TuiTypeCorrect == TuiSpec => []TuiTypeOK
<1>1. TuiTypeOK /\ [TuiNext]_tuiVars => TuiTypeOK'
  BY DataTypeStep, FlagsStep DEF TuiTypeOK, DataTypeOK
<1> QED
  BY TuiTypeInit, <1>1, PTL DEF TuiSpec

-----------------------------------------------------------------------------
(* Background jobs. *)

\* A step that neither starts nor ends a job: it leaves what is in flight alone,
\* answers another command or issues one.
LEMMA JobsKept ==
    ASSUME JobInv, UNCHANGED <<pdfGenerating, crmSyncing, pending>>
    PROVE  JobInv'
  BY DEF JobInv, OfKind

LEMMA Answered ==
    ASSUME JobInv, UNCHANGED <<pdfGenerating, crmSyncing>>,
           NEW m, m.kind \notin {"pdf", "sync"}, pending' = pending \ {m}
    PROVE  JobInv'
<1>1. /\ OfKind({"pdf"})' = OfKind({"pdf"})
      /\ OfKind({"sync"})' = OfKind({"sync"})
  BY DEF OfKind
<1> QED
  BY <1>1 DEF JobInv, OfKind

LEMMA Issued ==
    ASSUME JobInv, UNCHANGED <<pdfGenerating, crmSyncing>>,
           NEW k, k \notin {"pdf", "sync"}, NEW r, NEW s,
           pending' = pending \cup {Command(k, r, s)}
    PROVE  JobInv'
<1>1. /\ OfKind({"pdf"})' = OfKind({"pdf"})
      /\ OfKind({"sync"})' = OfKind({"sync"})
  BY DEF OfKind, Command
<1> QED
  BY <1>1 DEF JobInv

LEMMA ReadBegun ==
    ASSUME JobInv, UNCHANGED <<pdfGenerating, crmSyncing>>,
           NEW k \in ReadKinds, NEW s, BeginRead(k, s)
    PROVE  JobInv'
  BY Issued, SMT DEF BeginRead, ReadKinds

LEMMA BusinessLoaded ==
    ASSUME JobInv, UNCHANGED <<pdfGenerating, crmSyncing>>,
           NEW s, LoadBusiness(s, pending)
    PROVE  JobInv'
  BY Issued, SMT DEF LoadBusiness

LEMMA JobStep == TuiTypeOK /\ JobInv /\ [TuiNext]_tuiVars => JobInv'
<1> SUFFICES ASSUME TuiTypeOK, JobInv, [TuiNext]_tuiVars PROVE JobInv'
  OBVIOUS
<1>0. ReadsTypeOK
  BY DEF TuiTypeOK
<1>1. ASSUME Esc PROVE JobInv'
  BY <1>1, JobsKept DEF Esc, Abandon, jobVars
<1>2. ASSUME EscFilter PROVE JobInv'
  BY <1>2, JobsKept DEF EscFilter, jobVars
<1>3. ASSUME OpenHelp PROVE JobInv'
  BY <1>3, JobsKept DEF OpenHelp, jobVars
<1>4. ASSUME OpenBatchImport PROVE JobInv'
  BY <1>4, JobsKept DEF OpenBatchImport, jobVars
<1>5. ASSUME StartSearch PROVE JobInv'
  BY <1>5, JobsKept DEF StartSearch, jobVars
<1>6. ASSUME OpenRaw PROVE JobInv'
  BY <1>6, JobsKept DEF OpenRaw, jobVars
<1>7. ASSUME OpenFilter PROVE JobInv'
  BY <1>7, JobsKept DEF OpenFilter, jobVars
<1>8. ASSUME OpenDashboard PROVE JobInv'
  BY <1>8, BusinessLoaded DEF OpenDashboard, jobVars
<1>9. ASSUME ApplyFilter PROVE JobInv'
  BY <1>9, BusinessLoaded DEF ApplyFilter, jobVars
<1>10. ASSUME ReadFindings PROVE JobInv'
  BY <1>10, ReadBegun, SMT DEF ReadFindings, jobVars, ReadKinds
<1>11. ASSUME NEW d \in Deals, OpenFinding(d) PROVE JobInv'
  BY <1>11, ReadBegun, SMT DEF OpenFinding, jobVars, ReadKinds
<1>12. ASSUME NEW d \in Deals, OpenPriority(d) PROVE JobInv'
  BY <1>12, ReadBegun, SMT DEF OpenPriority, jobVars, ReadKinds
<1>13. ASSUME NEW d \in Deals, SearchDeal(d) PROVE JobInv'
  <2>1. CASE loading
    BY <1>13, <2>1, JobsKept DEF SearchDeal, jobVars
  <2>2. CASE ~loading
    BY <1>13, <2>2, ReadBegun, SMT DEF SearchDeal, jobVars, ReadKinds
  <2> QED
    BY <2>1, <2>2
<1>14. ASSUME RefreshDeal PROVE JobInv'
  BY <1>14, ReadBegun, SMT DEF RefreshDeal, jobVars, ReadKinds
<1>15. ASSUME OpenAnalysis PROVE JobInv'
  BY <1>15, ReadBegun, SMT DEF OpenAnalysis, jobVars, ReadKinds
<1>16. ASSUME RefreshAnalysis PROVE JobInv'
  BY <1>16, ReadBegun, SMT DEF RefreshAnalysis, jobVars, ReadKinds
<1>17. ASSUME Retry PROVE JobInv'
  BY <1>17, <1>0, ReadBegun, SMT DEF Retry, jobVars, ReadsTypeOK
<1>18. ASSUME ExportCSV PROVE JobInv'
  BY <1>18, Issued DEF ExportCSV, jobVars
<1>19. ASSUME ExportExecutivePDF PROVE JobInv'
  <2>1. pending' = pending \cup {Command("pdf", 0, Nothing)} /\ ~pdfGenerating /\ pdfGenerating'
    BY <1>19, Zenon DEF ExportExecutivePDF
  <2>2. OfKind({"pdf"})' = {Command("pdf", 0, Nothing)} /\ OfKind({"sync"})' = OfKind({"sync"})
    BY <2>1, SMT DEF JobInv, OfKind, Command
  <2>3. UNCHANGED crmSyncing
    BY <1>19 DEF ExportExecutivePDF
  <2> QED
    BY <2>1, <2>2, <2>3 DEF JobInv, OfKind
<1>20. ASSUME ExportReport PROVE JobInv'
  BY <1>20, Issued DEF ExportReport, jobVars
<1>21. ASSUME StartSync PROVE JobInv'
  <2>1. PICK r : pending' = pending \cup {Command("sync", r, Nothing)}
    BY <1>21 DEF StartSync
  <2>2. ~crmSyncing /\ crmSyncing' /\ UNCHANGED pdfGenerating
    BY <1>21, Zenon DEF StartSync, MaySync
  <2>3. /\ OfKind({"sync"})' = {Command("sync", r, Nothing)}
        /\ OfKind({"pdf"})' = OfKind({"pdf"})
    BY <2>1, <2>2, SMT DEF JobInv, OfKind, Command
  <2> QED
    BY <2>1, <2>2, <2>3 DEF JobInv
<1>22. ASSUME CreateBatch PROVE JobInv'
  BY <1>22, Issued DEF CreateBatch, jobVars
<1>23. ASSUME PollNow PROVE JobInv'
  BY <1>23, JobsKept DEF PollNow, jobVars
<1>24. ASSUME CancelBatch PROVE JobInv'
  BY <1>24, Issued DEF CancelBatch, jobVars
<1>25. ASSUME NEW m \in pending, ReadAnswered(m) PROVE JobInv'
  <2>1. m.kind \notin {"pdf", "sync"}
    BY <1>25, SMT DEF ReadAnswered, OfKind, ReadKinds
  <2>2. pending' = pending \ {m} /\ UNCHANGED <<pdfGenerating, crmSyncing>>
    BY <1>25 DEF ReadAnswered, Ignore, Drop, jobVars
  <2> QED
    BY <2>1, <2>2, Answered
<1>26. ASSUME NEW m \in pending, BusinessAnswered(m) PROVE JobInv'
  <2>1. m.kind \notin {"pdf", "sync"}
    BY <1>26, SMT DEF BusinessAnswered, OfKind, ReadKinds
  <2>2. pending' = pending \ {m} /\ UNCHANGED <<pdfGenerating, crmSyncing>>
    BY <1>26 DEF BusinessAnswered, Ignore, Drop, jobVars
  <2> QED
    BY <2>1, <2>2, Answered
<1>27. ASSUME NEW m \in pending, CsvAnswered(m) PROVE JobInv'
  <2>1. m.kind \notin {"pdf", "sync"}
    BY <1>27, SMT DEF CsvAnswered, OfKind, ReadKinds
  <2>2. pending' = pending \ {m} /\ UNCHANGED <<pdfGenerating, crmSyncing>>
    BY <1>27 DEF CsvAnswered, Ignore, Drop, JobEnds, jobVars
  <2> QED
    BY <2>1, <2>2, Answered
<1>28. ASSUME NEW m \in pending, ExecutivePDFAnswered(m) PROVE JobInv'
  <2>1. m \in OfKind({"pdf"}) /\ pending' = pending \ {m} /\ ~pdfGenerating'
    BY <1>28, Zenon DEF ExecutivePDFAnswered, Drop
  <2>2. OfKind({"pdf"})' = {} /\ OfKind({"sync"})' = OfKind({"sync"})
    BY <2>1, SMT DEF JobInv, OfKind, Command
  <2>3. UNCHANGED crmSyncing
    BY <1>28 DEF ExecutivePDFAnswered, JobEnds
  <2> QED
    BY <2>1, <2>2, <2>3 DEF JobInv, OfKind
<1>29. ASSUME NEW m \in pending, ReportAnswered(m) PROVE JobInv'
  <2>1. m.kind \notin {"pdf", "sync"}
    BY <1>29, SMT DEF ReportAnswered, OfKind, ReadKinds
  <2>2. pending' = pending \ {m} /\ UNCHANGED <<pdfGenerating, crmSyncing>>
    BY <1>29 DEF ReportAnswered, Ignore, Drop, JobEnds, jobVars
  <2> QED
    BY <2>1, <2>2, Answered
<1>30. ASSUME NEW m \in pending, SyncAnswered(m) PROVE JobInv'
  <2>1. m \in OfKind({"sync"}) /\ ~crmSyncing' /\ UNCHANGED pdfGenerating
    BY <1>30, Zenon DEF SyncAnswered
  <2>2. \/ pending' = pending \ {m}
        \/ \E r : pending' = (pending \ {m}) \cup {Command("business", r, "Executive")}
    BY <1>30 DEF SyncAnswered, Drop, LoadBusiness
  <2>3. OfKind({"sync"})' = {} /\ OfKind({"pdf"})' = OfKind({"pdf"})
    BY <2>1, <2>2, SMT DEF JobInv, OfKind, Command
  <2> QED
    BY <2>1, <2>3 DEF JobInv
<1>31. ASSUME NEW m \in pending, BatchCreated(m) PROVE JobInv'
  <2>1. m.kind \notin {"pdf", "sync"}
    BY <1>31, SMT DEF BatchCreated, OfKind, ReadKinds
  <2>2. pending' = pending \ {m} /\ UNCHANGED <<pdfGenerating, crmSyncing>>
    BY <1>31 DEF BatchCreated, Ignore, Drop, jobVars
  <2> QED
    BY <2>1, <2>2, Answered
<1>32. ASSUME NEW m \in pending, BatchCanceled(m) PROVE JobInv'
  <2>1. m.kind \notin {"pdf", "sync"}
    BY <1>32, SMT DEF BatchCanceled, OfKind, ReadKinds
  <2>2. pending' = pending \ {m} /\ UNCHANGED <<pdfGenerating, crmSyncing>>
    BY <1>32 DEF BatchCanceled, Ignore, Drop, jobVars
  <2> QED
    BY <2>1, <2>2, Answered
<1>33. ASSUME NEW r \in Requests, TimerFires(r) PROVE JobInv'
  BY <1>33, JobsKept DEF TimerFires, jobVars
<1>34. ASSUME NEW r \in Requests, ProgressAnswered(r) PROVE JobInv'
  BY <1>34, JobsKept DEF ProgressAnswered, jobVars
<1>35. CASE UNCHANGED tuiVars
  BY <1>35, JobsKept DEF tuiVars, jobVars
<1> QED
  BY <1>1, <1>2, <1>3, <1>4, <1>5, <1>6, <1>7, <1>8, <1>9, <1>10, <1>11, <1>12, <1>13, <1>14,
     <1>15, <1>16, <1>17, <1>18, <1>19, <1>20, <1>21, <1>22, <1>23, <1>24, <1>25, <1>26, <1>27,
     <1>28, <1>29, <1>30, <1>31, <1>32, <1>33, <1>34, <1>35
  DEF TuiNext, UserStep, AnswerStep

\* One synchronization and one executive report at a time, and a flag set while
\* one is running and not longer.
THEOREM FlagsAlwaysTellTheTruth == TuiSpec => []FlagsTellTheTruth
<1>1. TuiInit => JobInv
  BY Zenon DEF TuiInit, JobInv, OfKind
<1>2. JobInv => FlagsTellTheTruth
  <2> SUFFICES ASSUME JobInv PROVE FlagsTellTheTruth
    OBVIOUS
  <2>1. Cardinality(OfKind({"pdf"})) = IF pdfGenerating THEN 1 ELSE 0
    BY FS_Singleton, FS_EmptySet DEF JobInv
  <2>2. Cardinality(OfKind({"sync"})) = IF crmSyncing THEN 1 ELSE 0
    BY FS_Singleton, FS_EmptySet DEF JobInv
  <2> QED
    BY <2>1, <2>2 DEF FlagsTellTheTruth
<1> QED
  BY TuiTypeCorrect, JobStep, <1>1, <1>2, PTL DEF TuiSpec

-----------------------------------------------------------------------------
(* What is awaited. *)

Loads    == ReadKinds \cup {"business"}
Numbered == Loads \cup {"created"}

ReadAwaited == \E m \in pending : m.kind \in ReadKinds /\ IsCurrent(m)
DashAwaited == \E m \in pending : m.kind = "business" /\ m.request = seq /\ m.about = businessTarget
Created     == \E m \in pending : m.kind = "created" /\ m.request = batchRequest

\* Requests are told by their numbers.
RequestsOnce ==
    /\ active.request <= seq /\ batchRequest <= seq
    /\ \A m \in pending : m.kind \in Numbered => m.request \in 1..seq
    /\ \A m, n \in pending :
          m.kind \in Numbered /\ n.kind \in Numbered /\ m.request = n.request => m = n

LEMMA Numbers ==
    ASSUME TuiTypeOK
    PROVE  seq \in Nat /\ active.request \in Nat /\ batchRequest \in Nat
BY DEF TuiTypeOK, ReadsTypeOK, BatchTypeOK

LEMMA OnceFewer ==
    ASSUME TuiTypeOK, RequestsOnce, pending' \subseteq pending,
           active' \in {active, NoRead}, seq' \in {seq, seq + 1}, batchRequest' \in {batchRequest, seq'}
    PROVE  RequestsOnce'
<1>1. active'.request <= seq' /\ batchRequest' <= seq'
  BY Numbers, SMT DEF RequestsOnce, NoRead
<1>2. \A m \in pending' : m.kind \in Numbered => m.request \in 1..seq'
  BY Numbers, SMT DEF RequestsOnce
<1>3. QED
  BY <1>1, <1>2, SMT DEF RequestsOnce

LEMMA OnceMore ==
    ASSUME TuiTypeOK, RequestsOnce, NEW k, NEW s, seq' = seq + 1,
           NEW inflight \in SUBSET pending, pending' = inflight \cup {Command(k, seq + 1, s)},
           active'.request \in {active.request, seq'}, batchRequest' \in {batchRequest, seq'}
    PROVE  RequestsOnce'
<1>1. active'.request <= seq' /\ batchRequest' <= seq'
  BY Numbers, SMT DEF RequestsOnce
<1>2. \A m \in pending' : m.kind \in Numbered => m.request \in 1..seq'
  BY Numbers, SMT DEF RequestsOnce, Command
<1>3. \A m \in inflight : m.kind \in Numbered => m.request # seq + 1
  BY Numbers, SMT DEF RequestsOnce
<1>4. Command(k, seq + 1, s).request = seq + 1
  BY DEF Command
<1>5. QED
  BY <1>1, <1>2, <1>3, <1>4, SMT DEF RequestsOnce

LEMMA OnceOther ==
    ASSUME RequestsOnce, NEW k, NEW r, NEW s, k \notin Numbered,
           UNCHANGED <<seq, active, batchRequest>>, pending' = pending \cup {Command(k, r, s)}
    PROVE  RequestsOnce'
<1>1. Command(k, r, s).kind = k
  BY DEF Command
<1>2. \A m \in pending' : m.kind \in Numbered => m \in pending
  BY <1>1, SMT
<1>3. QED
  BY <1>2, SMT DEF RequestsOnce

\* What changes what is awaited.
LEMMA LoadsKept ==
    ASSUME UNCHANGED <<seq, active, businessTarget>>, pending' \subseteq pending,
           \A m \in pending \ pending' : m.kind \in Loads => ~Awaited(m)
    PROVE  (ReadAwaited' <=> ReadAwaited) /\ (DashAwaited' <=> DashAwaited)
BY SMT DEF ReadAwaited, DashAwaited, IsCurrent, Awaited, Loads, ReadKinds

LEMMA LoadsBeside ==
    ASSUME UNCHANGED <<seq, active, businessTarget>>, NEW k, NEW r, NEW s, k \notin Loads,
           pending' = pending \cup {Command(k, r, s)}
    PROVE  (ReadAwaited' <=> ReadAwaited) /\ (DashAwaited' <=> DashAwaited)
BY SMT DEF ReadAwaited, DashAwaited, IsCurrent, Loads, Command

LEMMA LoadsPassed ==
    ASSUME TuiTypeOK, RequestsOnce, UNCHANGED active, seq' = seq + 1, NEW k, NEW s, k \notin Loads,
           pending' = pending \cup {Command(k, seq + 1, s)}
    PROVE  (ReadAwaited' <=> ReadAwaited) /\ ~DashAwaited'
<1>1. ReadAwaited' <=> ReadAwaited
  BY SMT DEF ReadAwaited, IsCurrent, Loads, Command
<1>2. ~DashAwaited'
  BY Numbers, SMT DEF DashAwaited, Loads, Command, RequestsOnce, Numbered
<1>3. QED
  BY <1>1, <1>2

LEMMA LoadsAbandoned ==
    ASSUME TuiTypeOK, RequestsOnce, active' = NoRead, seq' = seq + 1, pending' = pending
    PROVE  ~ReadAwaited' /\ ~DashAwaited'
BY Numbers, SMT DEF ReadAwaited, DashAwaited, IsCurrent, NoRead, ReadKinds, RequestsOnce, Numbered, Loads

LEMMA ReadBegins ==
    ASSUME TuiTypeOK, RequestsOnce, NEW k \in ReadKinds, NEW s, BeginRead(k, s)
    PROVE  ReadAwaited' /\ ~DashAwaited'
<1>1. Command(k, seq + 1, s) \in pending' /\ seq' = seq + 1 /\ active' = [request |-> seq + 1, kind |-> k, about |-> s]
  BY DEF BeginRead
<1>2. ReadAwaited'
  BY <1>1, SMT DEF ReadAwaited, IsCurrent, Command
<1>3. ~DashAwaited'
  BY Numbers, SMT DEF DashAwaited, Command, RequestsOnce, Numbered, BeginRead, Loads, ReadKinds
<1>4. QED
  BY <1>2, <1>3

LEMMA DashBegins ==
    ASSUME NEW s, NEW inflight \in SUBSET pending, LoadBusiness(s, inflight)
    PROVE  DashAwaited' /\ (ReadAwaited' => ReadAwaited)
<1>1. DashAwaited'
  <2>1. Command("business", seq + 1, s) \in pending' /\ seq' = seq + 1 /\ businessTarget' = s
    BY DEF LoadBusiness
  <2>2. QED
    BY <2>1, SMT DEF DashAwaited, Command
<1>2. ReadAwaited' => ReadAwaited
  BY SMT DEF ReadAwaited, IsCurrent, LoadBusiness, Command, ReadKinds
<1>3. QED
  BY <1>1, <1>2

LEMMA ReadTaken ==
    ASSUME active' = NoRead, UNCHANGED <<seq, businessTarget>>, pending' \subseteq pending
    PROVE  ~ReadAwaited' /\ (DashAwaited' => DashAwaited)
BY SMT DEF ReadAwaited, DashAwaited, IsCurrent, NoRead, ReadKinds

LEMMA DashTaken ==
    ASSUME RequestsOnce, UNCHANGED <<seq, active, businessTarget>>,
           NEW m \in pending, m.kind = "business", m.request = seq, pending' = pending \ {m}
    PROVE  ~DashAwaited' /\ (ReadAwaited' => ReadAwaited)
BY SMT DEF ReadAwaited, DashAwaited, IsCurrent, ReadKinds, RequestsOnce, Numbered, Loads

\* What changes what the batch's screen waits for.
LEMMA CreatedKept ==
    ASSUME UNCHANGED batchRequest, pending' \subseteq pending
    PROVE  Created' => Created
BY SMT DEF Created

LEMMA CreatedBeside ==
    ASSUME UNCHANGED batchRequest, NEW k, NEW r, NEW s, k # "created",
           NEW inflight \in SUBSET pending, pending' = inflight \cup {Command(k, r, s)}
    PROVE  Created' => Created
BY SMT DEF Created, Command

LEMMA CreatedAbandoned ==
    ASSUME TuiTypeOK, RequestsOnce, batchRequest' = seq + 1, pending' = pending
    PROVE  ~Created'
BY Numbers, SMT DEF Created, RequestsOnce, Numbered

LEMMA CreatedTaken ==
    ASSUME RequestsOnce, UNCHANGED batchRequest, NEW m \in pending, m.kind = "created",
           m.request = batchRequest, pending' = pending \ {m}
    PROVE  ~Created'
BY SMT DEF Created, RequestsOnce, Numbered
-----------------------------------------------------------------------------
(* Loading, focus and screens. *)

\* A load is awaited once; what is awaited though nothing is loading is behind the
\* error of a job.
LoadInv ==
    /\ loading => ReadAwaited \/ DashAwaited
    /\ ~(ReadAwaited /\ DashAwaited)
    /\ (ReadAwaited \/ DashAwaited) /\ ~loading => screen = "Error" /\ retry.kind = "none"
    /\ ReadAwaited => active.request >= batchRequest

\* Only lists are on the stack: no deal or analysis is left to go back to.
ListsOnly == \A k \in 1..Len(navigation) : navigation[k] = "Priorities"

\* Where the focus of a text field can leak to, and where it cannot.
FocusInv ==
    /\ ReadAwaited \/ DashAwaited => focus = {}
    /\ "batch" \in focus => /\ focus = {"batch"} /\ ListsOnly
                            /\ screen \in {"BatchImport", "Priorities", "Menu", "Error"}
                            /\ screen = "Error" => errorReturn \in {"BatchImport", "Priorities"}
    /\ filterOpen => focus = {} /\ screen \in BusinessScreens \cup {"Error"} /\ ~ReadAwaited
    /\ screen = "Executive" => focus = {}
    /\ screen = "Error" /\ errorReturn = "Executive" => focus = {}
    /\ Created => "batch" \in focus
    /\ pdfGenerating /\ "search" \in focus => screen = "DealSearch"
    /\ pdfGenerating /\ "batch" \in focus => screen = "BatchImport"

\* Where the screens that lead elsewhere lead.
LeadInv ==
    /\ searchOrigin \in {"Menu", "Findings"}
    /\ DashAwaited /\ businessTarget = "Error" => screen = "Error"
    /\ \A m \in pending : m.kind = "business" => m.about \in BusinessScreens \cup {"Error"}
    /\ \A m \in pending : m.kind = "csv" => m.about \in {"Priorities", "Funnel"}

\* The stack: lists below a deal below its analysis.
StackInv ==
    \A k \in 1..Len(navigation) :
        /\ navigation[k] \in {"Priorities", "DealDetail", "Analysis"}
        /\ k < Len(navigation) => navigation[k] # "Analysis"
        /\ navigation[k] = "Priorities" => \A j \in 1..k : navigation[j] = "Priorities"

\* A deal is left on the stack only where it can be gone back to.
DetailInv ==
    /\ screen \notin {"DealDetail", "Analysis", "Raw", "Error"} => ListsOnly
    /\ DashAwaited \/ filterOpen => ListsOnly
    /\ ReadAwaited /\ active.kind = "findings" => ListsOnly
    /\ screen = "Error" /\ retry.kind = "findings" => ListsOnly

AnalysisOnTop == navigation # <<>> /\ navigation[Len(navigation)] = "Analysis"

\* An analysis that can be gone back to is of the deal still.
AnalysisInv ==
    /\ AnalysisIsOfDeal
    /\ screen = "Error" /\ errorReturn \in {"Analysis", "Raw"} => analysis = detail
    /\ AnalysisOnTop => /\ screen \in {"Raw", "Error"} /\ analysis = detail
                        /\ focus = {} /\ ~filterOpen /\ ~ReadAwaited /\ ~DashAwaited
                        /\ screen = "Error" => retry.kind = "none"
    /\ screen = "Raw" \/ (screen = "Error" /\ errorReturn = "Raw") => AnalysisOnTop

TuiInv == RequestsOnce /\ LoadInv /\ FocusInv /\ LeadInv /\ StackInv /\ DetailInv /\ AnalysisInv

LEMMA Pushes ==
    ASSUME NavigationTypeOK, StackInv, ~AnalysisOnTop, navigation' = Pushed,
           screen \in {"Priorities", "DealDetail", "Analysis"}, screen = "Priorities" => ListsOnly
    PROVE  /\ StackInv' /\ (AnalysisOnTop' <=> screen = "Analysis")
           /\ screen = "Priorities" => ListsOnly'
<1>1. CASE Pushed = navigation
  <2>1. screen # "Analysis" \/ navigation' = Append(navigation, screen)
    BY <1>1, SMT DEF Pushed, AnalysisOnTop, NavigationTypeOK
  <2>2. Append(navigation, screen) # navigation
    BY SMT DEF NavigationTypeOK
  <2>3. QED
    BY <1>1, <2>1, <2>2 DEF StackInv, AnalysisOnTop, ListsOnly
<1>2. CASE Pushed = Append(navigation, screen)
  <2>1. /\ Len(navigation') = Len(navigation) + 1 /\ Len(navigation) \in Nat
        /\ navigation'[Len(navigation) + 1] = screen
        /\ \A k \in 1..Len(navigation) : navigation'[k] = navigation[k]
    BY <1>2, SMT DEF NavigationTypeOK
  <2>2. \A k \in 1..Len(navigation) : navigation[k] # "Analysis"
    BY <2>1, SMT DEF StackInv, AnalysisOnTop, NavigationTypeOK
  <2>3. screen = "Priorities" => ListsOnly'
    BY <2>1, SMT DEF ListsOnly
  <2>4. ASSUME NEW k \in 1..Len(navigation')
        PROVE  /\ navigation'[k] \in {"Priorities", "DealDetail", "Analysis"}
               /\ k < Len(navigation') => navigation'[k] # "Analysis"
               /\ navigation'[k] = "Priorities" => \A j \in 1..k : navigation'[j] = "Priorities"
    <3>1. CASE k = Len(navigation) + 1
      BY <2>1, <2>3, <3>1, SMT DEF ListsOnly
    <3>2. CASE k # Len(navigation) + 1
      <4>1. k \in 1..Len(navigation) /\ \A j \in 1..k : j \in 1..Len(navigation)
        BY <2>1, <3>2, SMT
      <4>2. QED
        BY <2>1, <2>2, <4>1 DEF StackInv
    <3>3. QED
      BY <3>1, <3>2
  <2>5. AnalysisOnTop' <=> screen = "Analysis"
    BY <2>1, <1>2, SMT DEF AnalysisOnTop, NavigationTypeOK
  <2>6. QED
    BY <2>3, <2>4, <2>5 DEF StackInv
<1>3. QED
  BY <1>1, <1>2 DEF Pushed

LEMMA Front ==
    ASSUME NEW S, NEW s \in Seq(S), s # <<>>
    PROVE  /\ Len(s) \in Nat /\ Len(s) > 0
           /\ Len(SubSeq(s, 1, Len(s) - 1)) = Len(s) - 1
           /\ \A k \in 1..Len(s) - 1 : SubSeq(s, 1, Len(s) - 1)[k] = s[k]
<1>1. Len(s) \in Nat /\ Len(s) > 0
  BY SMT
<1>2. PICK n \in Nat : n = Len(s) - 1
  BY <1>1, SMT
<1>3. Len(SubSeq(s, 1, n)) = n
  BY <1>1, <1>2, SMT
<1>4. \A k \in 1..n : SubSeq(s, 1, n)[k] = s[k]
  BY <1>1, <1>2, SMT
<1>5. QED
  BY <1>1, <1>2, <1>3, <1>4

LEMMA Pops ==
    ASSUME NavigationTypeOK, StackInv, navigation # <<>>,
           navigation' = SubSeq(navigation, 1, Len(navigation) - 1)
    PROVE  /\ StackInv' /\ ~AnalysisOnTop'
           /\ navigation[Len(navigation)] \in {"Priorities", "DealDetail", "Analysis"}
           /\ navigation[Len(navigation)] = "Priorities" => ListsOnly'
           /\ ListsOnly => navigation[Len(navigation)] = "Priorities"
<1>1. Len(navigation) \in Nat /\ Len(navigation) > 0
  BY Front DEF NavigationTypeOK
<1>2. Len(navigation') = Len(navigation) - 1 /\ \A k \in 1..Len(navigation) - 1 : navigation'[k] = navigation[k]
  BY Front DEF NavigationTypeOK
<1>3. StackInv'
  <2>1. \A k \in 1..Len(navigation') : k \in 1..Len(navigation) /\ \A j \in 1..k : j \in 1..Len(navigation')
    BY <1>1, <1>2, SMT
  <2>2. \A k \in 1..Len(navigation') : navigation'[k] = navigation[k]
    BY <1>2
  <2>3. \A k \in 1..Len(navigation') : k < Len(navigation') => k < Len(navigation)
    BY <1>1, <1>2, SMT
  <2>4. QED
    BY <2>1, <2>2, <2>3 DEF StackInv
<1>4. ~AnalysisOnTop'
  <2>1. SUFFICES ASSUME AnalysisOnTop' PROVE FALSE
    OBVIOUS
  <2>2. navigation' \in Seq(Screens) /\ navigation' # <<>>
    BY <2>1, SMT DEF NavigationTypeOK, AnalysisOnTop
  <2>3. PICK n \in Nat : n = Len(navigation') /\ n > 0
    BY <2>2, Front
  <2>4. n \in 1..Len(navigation) - 1 /\ n \in 1..Len(navigation) /\ n < Len(navigation)
    BY <1>1, <1>2, <2>3, SMT
  <2>5. navigation'[n] = navigation[n]
    BY <1>2, <2>4
  <2>6. navigation[n] # "Analysis"
    BY <2>4 DEF StackInv
  <2>7. QED
    BY <2>1, <2>3, <2>5, <2>6 DEF AnalysisOnTop
<1>5. navigation[Len(navigation)] = "Priorities" => ListsOnly'
  <2>1. Len(navigation) \in 1..Len(navigation) /\ \A k \in 1..Len(navigation') : k \in 1..Len(navigation)
    BY <1>1, <1>2, SMT
  <2>2. QED
    BY <1>2, <2>1 DEF StackInv, ListsOnly
<1>6. QED
  BY <1>1, <1>3, <1>4, <1>5, SMT DEF StackInv, ListsOnly

\* A step that leaves the stack alone.
LEMMA StackKept ==
    ASSUME StackInv, UNCHANGED navigation
    PROVE  StackInv' /\ (AnalysisOnTop' <=> AnalysisOnTop) /\ (ListsOnly' <=> ListsOnly)
BY DEF StackInv, AnalysisOnTop, ListsOnly

LEMMA Still ==
    ASSUME TuiTypeOK, RequestsOnce, UNCHANGED <<seq, active, businessTarget, batchRequest, pending>>
    PROVE  /\ RequestsOnce' /\ (ReadAwaited' <=> ReadAwaited) /\ (DashAwaited' <=> DashAwaited)
           /\ (Created' => Created)
<1>1. RequestsOnce'
  BY OnceFewer, SMT
<1>2. (ReadAwaited' <=> ReadAwaited) /\ (DashAwaited' <=> DashAwaited)
  BY LoadsKept, SMT
<1>3. QED
  BY <1>1, <1>2, CreatedKept

\* A key that is acted upon where nothing is awaited.
LEMMA KeyMeans ==
    ASSUME LoadInv, NEW s, Key(s), s # "Error"
    PROVE  screen = s /\ focus = {} /\ ~loading /\ ~filterOpen /\ ~ReadAwaited /\ ~DashAwaited
BY DEF Key, LoadInv

-----------------------------------------------------------------------------
(* Keys that lead from screen to screen. *)

LEMMA ScreenKeys ==
    ASSUME TuiTypeOK, TuiInv,
           EscFilter \/ OpenHelp \/ OpenBatchImport \/ StartSearch \/ OpenRaw \/ OpenFilter
    PROVE  TuiInv'
<1> USE DEF TuiInv, LoadInv, FocusInv, LeadInv, DetailInv, AnalysisInv, AnalysisIsOfDeal
<1>1. /\ RequestsOnce' /\ (ReadAwaited' <=> ReadAwaited) /\ (DashAwaited' <=> DashAwaited)
      /\ (Created' => Created)
  BY Still DEF EscFilter, OpenHelp, OpenBatchImport, StartSearch, OpenRaw, OpenFilter, readVars,
     batchVars
<1>2. CASE EscFilter
  BY <1>1, <1>2, StackKept DEF EscFilter, readVars, jobVars
<1>3. CASE OpenHelp
  BY <1>1, <1>3, StackKept, KeyMeans DEF OpenHelp, readVars, jobVars
<1>4. CASE OpenBatchImport
  BY <1>1, <1>4, StackKept, KeyMeans DEF OpenBatchImport, readVars, jobVars
<1>5. CASE StartSearch
  BY <1>1, <1>5, StackKept, KeyMeans DEF StartSearch, readVars, jobVars
<1>6. CASE OpenRaw
  BY <1>1, <1>6, Pushes, KeyMeans DEF OpenRaw, readVars, jobVars, TuiTypeOK
<1>7. CASE OpenFilter
  BY <1>1, <1>7, StackKept, KeyMeans DEF OpenFilter, readVars, jobVars, BusinessScreens
<1>8. QED
  BY <1>2, <1>3, <1>4, <1>5, <1>6, <1>7

LEMMA EscKeeps ==
    ASSUME TuiTypeOK, TuiInv, Esc PROVE TuiInv'
<1> USE DEF TuiInv, LoadInv, FocusInv, LeadInv, DetailInv, AnalysisInv, AnalysisIsOfDeal
<1>1. /\ active' = NoRead /\ seq' = seq + 1 /\ batchRequest' = seq + 1 /\ pending' = pending
      /\ ~loading' /\ UNCHANGED <<filterOpen, searchOrigin, errorReturn, businessTarget, pdfGenerating, detail, analysis>>
      /\ ~filterOpen
  BY DEF Esc, Abandon, ForgetRead
<1>2. RequestsOnce' /\ ~ReadAwaited' /\ ~DashAwaited' /\ ~Created'
  BY <1>1, OnceFewer, LoadsAbandoned, CreatedAbandoned
<1>3. CASE PopsNavigation
  <2>1. /\ screen' = navigation[Len(navigation)] /\ UNCHANGED focus /\ navigation # <<>>
        /\ navigation' = SubSeq(navigation, 1, Len(navigation) - 1)
    BY <1>3 DEF Esc, PopsNavigation
  <2>2. /\ StackInv' /\ ~AnalysisOnTop' /\ screen' \in {"Priorities", "DealDetail", "Analysis"}
        /\ screen' = "Priorities" => ListsOnly'
        /\ ListsOnly => screen' = "Priorities"
    BY <2>1, Pops DEF TuiTypeOK
  <2>3. screen' = "Analysis" => AnalysisOnTop
    BY <2>1 DEF AnalysisOnTop
  <2>4. FocusInv'
    BY <1>1, <1>2, <1>3, <2>1, <2>2 DEF PopsNavigation
  <2>5. QED
    BY <1>1, <1>2, <2>2, <2>3, <2>4
<1>4. CASE ~PopsNavigation
  <2>1. /\ screen' = BackTarget /\ UNCHANGED navigation
        /\ focus' = CASE screen = "BatchImport" -> focus \ {"batch"}
                      [] screen = "DealSearch" -> focus \ {"search"}
                      [] screen = "DealDetail" /\ BackTarget = "DealSearch" -> focus \cup {"search"}
                      [] OTHER -> focus
    BY <1>4 DEF Esc
  <2>2. StackInv' /\ (AnalysisOnTop' <=> AnalysisOnTop) /\ (ListsOnly' <=> ListsOnly)
    BY <2>1, StackKept
  <2>3. ~AnalysisOnTop /\ ListsOnly
    <3>1. navigation # <<>> => ListsOnly
      BY <1>4 DEF PopsNavigation
    <3>2. navigation = <<>> => ListsOnly
      BY SMT DEF ListsOnly
    <3>3. QED
      BY <1>4, <3>1, <3>2 DEF PopsNavigation, AnalysisOnTop
  <2>4. CASE screen = "Error"
    BY <1>1, <1>2, <2>1, <2>2, <2>3, <2>4 DEF BackTarget
  <2>5. CASE screen # "Error"
    BY <1>1, <1>2, <2>1, <2>2, <2>3, <2>5 DEF BackTarget
  <2>6. QED
    BY <2>4, <2>5
<1>5. QED
  BY <1>3, <1>4

-----------------------------------------------------------------------------
(* Keys that read. *)

\* A table, a deal or an analysis is read where nothing was awaited.
LEMMA ReadKeeps ==
    ASSUME TuiTypeOK, TuiInv, NEW k \in ReadKinds, NEW s, BeginRead(k, s), ~ReadAwaited, ~DashAwaited,
           UNCHANGED <<screen, errorReturn, searchOrigin, filterOpen, jobVars, batchVars>>,
           ~filterOpen, focus' = {}, "batch" \notin focus, StackInv', ~AnalysisOnTop', ~AnalysisOnTop,
           screen \notin {"DealDetail", "Analysis", "Raw", "Error"} => ListsOnly',
           k = "findings" => ListsOnly'
    PROVE  TuiInv'
<1> USE DEF TuiInv, LoadInv, FocusInv, LeadInv, DetailInv, AnalysisInv, AnalysisIsOfDeal
<1>1. /\ seq' = seq + 1 /\ pending' = pending \cup {Command(k, seq + 1, s)} /\ active'.request = seq'
      /\ active'.kind = k /\ retry'.kind = k
      /\ loading' /\ UNCHANGED <<detail, analysis, batchRequest, businessTarget, pdfGenerating>>
  BY DEF BeginRead, batchVars, jobVars
<1>2. RequestsOnce'
  BY <1>1, OnceMore
<1>3. ReadAwaited' /\ ~DashAwaited'
  BY ReadBegins
<1>4. Created' => Created
  BY <1>1, CreatedBeside, SMT DEF ReadKinds
<1>5. LeadInv'
  BY <1>1, <1>3, SMT DEF Command, ReadKinds
<1>6. FocusInv'
  BY <1>1, <1>3, <1>4
<1>7. LoadInv'
  BY <1>1, <1>2, <1>3, SMT DEF RequestsOnce
<1>8. DetailInv'
  BY <1>1, <1>3
<1>9. QED
  BY <1>1, <1>2, <1>3, <1>5, <1>6, <1>7, <1>8

LEMMA ReadKeys ==
    ASSUME TuiTypeOK, TuiInv,
           \/ ReadFindings \/ RefreshDeal \/ RefreshAnalysis \/ Retry
           \/ OpenAnalysis \/ \E d \in Deals : OpenFinding(d) \/ OpenPriority(d) \/ SearchDeal(d)
    PROVE  TuiInv'
<1> USE DEF ReadKinds
<1>0. TuiInv => /\ LoadInv /\ StackInv /\ NavigationTypeOK
                /\ AnalysisOnTop => screen \in {"Raw", "Error"} /\ focus = {}
                                    /\ (screen = "Error" => retry.kind = "none")
                /\ ~loading /\ (ReadAwaited \/ DashAwaited) => screen = "Error" /\ retry.kind = "none"
                /\ ReadAwaited \/ DashAwaited => focus = {}
                /\ "batch" \in focus => focus = {"batch"}
                /\ screen \notin {"DealDetail", "Analysis", "Raw", "Error"} => ListsOnly
                /\ screen = "Error" /\ retry.kind = "findings" => ListsOnly
                /\ filterOpen => focus = {}
  BY DEF TuiInv, LoadInv, FocusInv, DetailInv, AnalysisInv, TuiTypeOK
<1>1. CASE ReadFindings
  BY <1>0, <1>1, ReadKeeps, StackKept, KeyMeans DEF ReadFindings, navigationVars
<1>2. CASE RefreshDeal
  BY <1>0, <1>2, ReadKeeps, StackKept, KeyMeans DEF RefreshDeal, navigationVars
<1>3. CASE RefreshAnalysis
  BY <1>0, <1>3, ReadKeeps, StackKept, KeyMeans DEF RefreshAnalysis, navigationVars
<1>4. CASE Retry
  <2>1. retry.kind \in ReadKinds
    BY <1>4, SMT DEF Retry, TuiTypeOK, ReadsTypeOK
  <2>2. ~loading /\ focus = {} /\ ~filterOpen /\ ~ReadAwaited /\ ~DashAwaited /\ ~AnalysisOnTop
    BY <1>0, <1>4 DEF Retry, Key
  <2>3. UNCHANGED <<navigationVars, jobVars, batchVars>> /\ BeginRead(retry.kind, retry.about)
    BY <1>4 DEF Retry
  <2>4. StackInv' /\ ~AnalysisOnTop' /\ (retry.kind = "findings" => ListsOnly')
    BY <1>0, <1>4, <2>2, <2>3, StackKept DEF Retry, Key, navigationVars
  <2>5. screen = "Error"
    BY <1>4 DEF Retry, Key
  <2>6. QED
    BY <2>1, <2>2, <2>3, <2>4, <2>5, ReadKeeps DEF navigationVars
<1>5. CASE OpenAnalysis
  <2>1. screen = "DealDetail" /\ focus = {} /\ ~filterOpen /\ ~ReadAwaited /\ ~DashAwaited /\ ~AnalysisOnTop
    BY <1>0, <1>5, KeyMeans DEF OpenAnalysis
  <2>2. StackInv' /\ ~AnalysisOnTop'
    BY <1>0, <1>5, <2>1, Pushes DEF OpenAnalysis
  <2>3. QED
    BY <1>5, <2>1, <2>2, ReadKeeps DEF OpenAnalysis
<1>6. ASSUME NEW d \in Deals, OpenFinding(d) PROVE TuiInv'
  BY <1>0, <1>6, ReadKeeps, StackKept, KeyMeans DEF OpenFinding
<1>7. ASSUME NEW d \in Deals, OpenPriority(d) PROVE TuiInv'
  <2>1. screen = "Priorities" /\ focus = {} /\ ~filterOpen /\ ~ReadAwaited /\ ~DashAwaited /\ ~AnalysisOnTop
    BY <1>0, <1>7, KeyMeans DEF OpenPriority
  <2>2. StackInv' /\ ~AnalysisOnTop' /\ ListsOnly'
    BY <1>0, <1>7, <2>1, Pushes DEF OpenPriority
  <2>3. QED
    BY <1>7, <2>1, <2>2, ReadKeeps DEF OpenPriority
<1>8. ASSUME NEW d \in Deals, SearchDeal(d) PROVE TuiInv'
  <2>1. /\ "search" \in focus /\ focus' = focus \ {"search"} /\ ~filterOpen
        /\ ~ReadAwaited /\ ~DashAwaited /\ ~AnalysisOnTop /\ ~loading
    BY <1>0, <1>8 DEF SearchDeal, LoadInv
  <2>2. focus' = {} /\ "batch" \notin focus
    <3>1. focus \subseteq {"search", "batch"}
      BY DEF TuiTypeOK, NavigationTypeOK
    <3>2. QED
      BY <1>0, <2>1, <3>1
  <2>3. QED
    BY <1>0, <1>8, <2>1, <2>2, ReadKeeps, StackKept DEF SearchDeal
<1>9. QED
  BY <1>1, <1>2, <1>3, <1>4, <1>5, <1>6, <1>7, <1>8

\* A dashboard is read where no deal, table or analysis is.
LEMMA DashKeeps ==
    ASSUME TuiTypeOK, TuiInv, NEW s \in BusinessScreens \cup {"Error"},
           NEW inflight \in SUBSET pending, LoadBusiness(s, inflight),
           UNCHANGED <<screen, errorReturn, searchOrigin, focus, navigation, pdfGenerating, batchVars>>,
           ~ReadAwaited, ~loading, focus = {}, s = "Error" => screen = "Error",
           screen \in BusinessScreens \cup {"Menu", "Error"}, ~AnalysisOnTop, ListsOnly,
           filterOpen' => filterOpen
    PROVE  TuiInv'
<1> USE DEF TuiInv, LoadInv, FocusInv, LeadInv, DetailInv, AnalysisInv, AnalysisIsOfDeal
<1>1. /\ seq' = seq + 1 /\ pending' = inflight \cup {Command("business", seq + 1, s)}
      /\ businessTarget' = s /\ loading' /\ UNCHANGED <<active, retry, detail, analysis, batchRequest>>
  BY DEF LoadBusiness, batchVars
<1>2. RequestsOnce'
  BY <1>1, OnceMore
<1>3. DashAwaited' /\ ~ReadAwaited'
  BY DashBegins
<1>4. ~Created' /\ StackInv' /\ ~AnalysisOnTop' /\ ListsOnly'
  BY <1>1, CreatedBeside, StackKept, SMT
<1>5. LeadInv'
  BY <1>1, <1>3, SMT DEF Command
<1>6. FocusInv'
  BY <1>1, <1>3, <1>4
<1>7. QED
  BY <1>1, <1>2, <1>3, <1>4, <1>5, <1>6

LEMMA DashKeys ==
    ASSUME TuiTypeOK, TuiInv, OpenDashboard \/ ApplyFilter PROVE TuiInv'
<1> USE DEF BusinessScreens
<1>0. /\ LoadInv
      /\ AnalysisOnTop => screen \in {"Raw", "Error"} /\ ~filterOpen
      /\ screen \notin {"DealDetail", "Analysis", "Raw", "Error"} \/ filterOpen => ListsOnly
      /\ filterOpen => focus = {} /\ ~ReadAwaited /\ screen \in BusinessScreens \cup {"Error"}
  BY DEF TuiInv, FocusInv, DetailInv, AnalysisInv
<1>1. CASE OpenDashboard
  <2>1. PICK s \in BusinessScreens : LoadBusiness(s, pending)
    BY <1>1 DEF OpenDashboard
  <2>2. screen \in BusinessScreens \cup {"Menu"} /\ Key(screen)
    BY <1>1 DEF OpenDashboard, Key
  <2>3. ~ReadAwaited /\ ~loading /\ focus = {} /\ ~filterOpen /\ ~AnalysisOnTop /\ ListsOnly
    BY <1>0, <2>2, KeyMeans
  <2>4. UNCHANGED <<navigationVars, jobVars, batchVars>>
    BY <1>1 DEF OpenDashboard
  <2>5. QED
    BY <2>1, <2>2, <2>3, <2>4, DashKeeps DEF navigationVars, jobVars
<1>2. CASE ApplyFilter
  BY <1>0, <1>2, DashKeeps DEF ApplyFilter, jobVars
<1>3. QED
  BY <1>1, <1>2

-----------------------------------------------------------------------------
(* Keys that start a job. *)

LEMMA JobKeys ==
    ASSUME TuiTypeOK, TuiInv,
           ExportCSV \/ ExportExecutivePDF \/ ExportReport \/ StartSync \/ PollNow \/ CancelBatch
    PROVE  TuiInv'
<1> USE DEF TuiInv, LoadInv, FocusInv, LeadInv, DetailInv, AnalysisInv, AnalysisIsOfDeal, jobVars, readVars,
            navigationVars, batchVars
<1>1. /\ screen \in {"Priorities", "Funnel", "Executive", "DealDetail", "BatchProgress"}
      /\ ~loading /\ ~filterOpen /\ focus = {} /\ ~ReadAwaited /\ ~DashAwaited
  BY KeyMeans DEF ExportCSV, ExportExecutivePDF, ExportReport, StartSync, PollNow, CancelBatch
<1>2. /\ UNCHANGED <<navigationVars, loading, retry, detail, analysis, active, batchRequest, businessTarget>>
      /\ StackInv' /\ (AnalysisOnTop' <=> AnalysisOnTop) /\ (ListsOnly' <=> ListsOnly)
  BY StackKept DEF ExportCSV, ExportExecutivePDF, ExportReport, StartSync, PollNow, CancelBatch
<1>3. CASE PollNow
  <2>1. UNCHANGED <<seq, active, businessTarget, batchRequest, pending, pdfGenerating>>
    BY <1>3 DEF PollNow
  <2>2. QED
    BY <1>1, <1>2, <2>1, Still
<1>4. ASSUME NEW k \in {"csv", "sync"}, NEW s, k = "csv" => s \in {"Priorities", "Funnel"},
             pending' = pending \cup {Command(k, seq + 1, s)}, seq' = seq + 1, UNCHANGED pdfGenerating
      PROVE  TuiInv'
  <2>1. k \notin Loads /\ k # "created"
    BY SMT DEF Loads, ReadKinds
  <2>2. RequestsOnce'
    BY <1>2, <1>4, OnceMore
  <2>3. ~ReadAwaited' /\ ~DashAwaited'
    BY <1>1, <1>2, <1>4, <2>1, LoadsPassed
  <2>4. Created' => Created
    BY <1>2, <1>4, <2>1, CreatedBeside
  <2>5. LeadInv'
    BY <1>2, <1>4, <2>3, SMT DEF Command
  <2>6. QED
    BY <1>1, <1>2, <1>4, <2>2, <2>3, <2>4, <2>5
<1>5. ASSUME NEW k \in {"pdf", "report", "canceled"}, NEW r, NEW s,
             pending' = pending \cup {Command(k, r, s)}, seq' = seq
      PROVE  TuiInv'
  <2>1. k \notin Numbered /\ k \notin Loads /\ k # "created" /\ k # "business" /\ k # "csv"
    BY SMT DEF Numbered, Loads, ReadKinds
  <2>2. RequestsOnce'
    BY <1>2, <1>5, <2>1, OnceOther
  <2>3. ~ReadAwaited' /\ ~DashAwaited'
    BY <1>1, <1>2, <1>5, <2>1, LoadsBeside
  <2>4. Created' => Created
    BY <1>2, <1>5, <2>1, CreatedBeside
  <2>5. LeadInv'
    BY <1>2, <1>5, <2>1, <2>3, SMT DEF Command
  <2>6. QED
    BY <1>1, <1>2, <2>2, <2>3, <2>4, <2>5
<1>6. CASE ExportCSV
  <2>1. screen \in {"Priorities", "Funnel"}
    BY <1>6 DEF ExportCSV, Key
  <2>2. QED
    BY <1>4, <1>6, <2>1 DEF ExportCSV
<1>7. CASE StartSync
  BY <1>4, <1>7 DEF StartSync
<1>8. CASE ExportExecutivePDF
  BY <1>5, <1>8 DEF ExportExecutivePDF
<1>9. CASE ExportReport
  BY <1>5, <1>9 DEF ExportReport
<1>10. CASE CancelBatch
  BY <1>5, <1>10 DEF CancelBatch
<1>11. QED
  BY <1>3, <1>6, <1>7, <1>8, <1>9, <1>10

LEMMA CreateKeeps ==
    ASSUME TuiTypeOK, TuiInv, CreateBatch PROVE TuiInv'
<1> USE DEF TuiInv, LoadInv, FocusInv, LeadInv, DetailInv, AnalysisInv, AnalysisIsOfDeal, jobVars,
            navigationVars
<1>1. /\ focus = {"batch"} /\ seq' = seq + 1 /\ batchRequest' = seq + 1
      /\ pending' = pending \cup {Command("created", seq + 1, Nothing)}
      /\ UNCHANGED <<navigationVars, loading, active, retry, businessTarget, detail, analysis, pdfGenerating>>
      /\ StackInv' /\ (AnalysisOnTop' <=> AnalysisOnTop) /\ (ListsOnly' <=> ListsOnly)
  BY StackKept DEF CreateBatch
<1>2. RequestsOnce'
  BY <1>1, OnceMore
<1>3. (ReadAwaited' <=> ReadAwaited) /\ ~DashAwaited' /\ ~DashAwaited /\ ~ReadAwaited
  BY <1>1, LoadsPassed, SMT DEF Loads, ReadKinds
<1>4. LeadInv'
  BY <1>1, <1>3, SMT DEF Command
<1>5. QED
  BY <1>1, <1>2, <1>3, <1>4

-----------------------------------------------------------------------------
(* Answers. *)

\* An answer that no load waits for is taken out of flight.
LEMMA Unawaited ==
    ASSUME TuiTypeOK, RequestsOnce, NEW m \in pending, pending' = pending \ {m},
           m.kind \in Loads => ~Awaited(m), UNCHANGED <<seq, active, businessTarget, batchRequest>>
    PROVE  /\ RequestsOnce' /\ (ReadAwaited' <=> ReadAwaited) /\ (DashAwaited' <=> DashAwaited)
           /\ (Created' => Created)
<1>1. pending' \subseteq pending /\ \A n \in pending \ pending' : n = m
  OBVIOUS
<1>2. RequestsOnce'
  BY <1>1, OnceFewer, SMT
<1>3. (ReadAwaited' <=> ReadAwaited) /\ (DashAwaited' <=> DashAwaited)
  BY <1>1, LoadsKept, SMT
<1>4. QED
  BY <1>1, <1>2, <1>3, CreatedKept

LEMMA IgnoreKeeps ==
    ASSUME TuiTypeOK, TuiInv, NEW m \in pending, Ignore(m), m.kind \in Loads => ~Awaited(m)
    PROVE  TuiInv'
<1> USE DEF TuiInv, LoadInv, FocusInv, LeadInv, DetailInv, AnalysisInv, AnalysisIsOfDeal
<1>1. /\ UNCHANGED <<navigationVars, readVars, jobVars, batchVars>> /\ pending' = pending \ {m}
  BY DEF Ignore, Drop
<1>2. /\ RequestsOnce' /\ (ReadAwaited' <=> ReadAwaited) /\ (DashAwaited' <=> DashAwaited)
      /\ (Created' => Created)
  BY <1>1, Unawaited DEF readVars, batchVars
<1>3. StackInv' /\ (AnalysisOnTop' <=> AnalysisOnTop) /\ (ListsOnly' <=> ListsOnly)
  BY <1>1, StackKept DEF navigationVars
<1>4. QED
  BY <1>1, <1>2, <1>3 DEF navigationVars, readVars, jobVars, batchVars

LEMMA ReadAnswers ==
    ASSUME TuiTypeOK, TuiInv, NEW m \in pending, ReadAnswered(m) PROVE TuiInv'
<1> USE DEF TuiInv, LoadInv, FocusInv, LeadInv, DetailInv, AnalysisInv, AnalysisIsOfDeal
<1>1. m.kind \in ReadKinds
  BY SMT DEF ReadAnswered, OfKind
<1>2. CASE ~IsCurrent(m)
  <2>1. ~Awaited(m) /\ Ignore(m)
    BY <1>1, <1>2, SMT DEF Awaited, ReadAnswered, ReadKinds
  <2>2. QED
    BY <2>1, IgnoreKeeps
<1>3. CASE IsCurrent(m)
  <2>1. /\ active' = NoRead /\ pending' = pending \ {m}
        /\ UNCHANGED <<navigation, searchOrigin, focus, filterOpen, seq, businessTarget, jobVars, batchVars>>
    BY <1>3 DEF ReadAnswered, Drop
  <2>2. /\ ReadAwaited /\ ~DashAwaited /\ focus = {} /\ ~filterOpen /\ ~AnalysisOnTop
        /\ m.kind = "findings" => ListsOnly
    BY <1>1, <1>3 DEF ReadAwaited, IsCurrent
  <2>3. ~ReadAwaited' /\ ~DashAwaited'
    BY <2>1, <2>2, ReadTaken
  <2>4. RequestsOnce' /\ (Created' => Created)
    BY <2>1, OnceFewer, CreatedKept, SMT DEF batchVars
  <2>5. StackInv' /\ ~AnalysisOnTop' /\ (m.kind = "findings" => ListsOnly')
    BY <2>1, <2>2, StackKept
  <2>6. UNCHANGED pdfGenerating
    BY <2>1 DEF jobVars
  <2>7. CASE ShowError(errorReturn, [kind |-> m.kind, about |-> m.about]) /\ UNCHANGED <<detail, analysis>>
    BY <2>1, <2>2, <2>3, <2>4, <2>5, <2>6, <2>7 DEF ShowError
  <2>8. CASE /\ ~loading' /\ UNCHANGED errorReturn /\ screen' \in {"Findings", "DealDetail", "Analysis"}
             /\ screen' = "Analysis" => analysis' = detail'
             /\ screen' = "Findings" => m.kind = "findings"
    BY <2>1, <2>2, <2>3, <2>4, <2>5, <2>6, <2>8
  <2>9. QED
    BY <1>3, <2>7, <2>8 DEF ReadAnswered, TakeAnalysis
<1>4. QED
  BY <1>2, <1>3

LEMMA BusinessAnswers ==
    ASSUME TuiTypeOK, TuiInv, NEW m \in pending, BusinessAnswered(m) PROVE TuiInv'
<1> USE DEF TuiInv, LoadInv, FocusInv, LeadInv, DetailInv, AnalysisInv, AnalysisIsOfDeal
<1>1. m.kind = "business"
  BY SMT DEF BusinessAnswered, OfKind
<1>2. CASE m.request # seq \/ m.about # businessTarget
  <2>1. ~Awaited(m) /\ Ignore(m)
    BY <1>1, <1>2, SMT DEF Awaited, BusinessAnswered, ReadKinds
  <2>2. QED
    BY <2>1, IgnoreKeeps
<1>3. CASE m.request = seq /\ m.about = businessTarget
  <2>1. /\ pending' = pending \ {m}
        /\ UNCHANGED <<navigation, searchOrigin, focus, filterOpen, seq, active, businessTarget,
                       detail, analysis, jobVars, batchVars>>
    BY <1>3 DEF BusinessAnswered, Drop
  <2>2. DashAwaited /\ ~ReadAwaited /\ focus = {} /\ ~AnalysisOnTop /\ ListsOnly
    BY <1>1, <1>3 DEF DashAwaited
  <2>3. ~ReadAwaited' /\ ~DashAwaited'
    BY <1>1, <1>3, <2>1, <2>2, DashTaken
  <2>4. RequestsOnce' /\ ~Created'
    BY <2>1, <2>2, OnceFewer, CreatedKept, SMT DEF batchVars
  <2>5. StackInv' /\ ~AnalysisOnTop' /\ ListsOnly'
    BY <2>1, <2>2, StackKept
  <2>6. UNCHANGED pdfGenerating
    BY <2>1 DEF jobVars
  <2>7. CASE ShowError(errorReturn, NoRetry)
    BY <2>1, <2>2, <2>3, <2>4, <2>5, <2>6, <2>7 DEF ShowError
  <2>8. CASE screen' = m.about /\ ~loading' /\ UNCHANGED errorReturn
    <3>1. screen' \in BusinessScreens \cup {"Error"} /\ (screen' = "Error" => screen = "Error")
      BY <1>1, <1>3, <2>2, <2>8
    <3>2. screen' \notin {"Analysis", "Raw"}
      BY <3>1 DEF BusinessScreens
    <3>3. QED
      BY <2>1, <2>2, <2>3, <2>4, <2>5, <2>6, <2>8, <3>1, <3>2
  <2>9. QED
    BY <1>3, <2>7, <2>8 DEF BusinessAnswered
<1>4. QED
  BY <1>2, <1>3

\* The end of a job that came up on screen leaves a load as it is, or behind an error.
LEMMA JobEndKeeps ==
    ASSUME TuiTypeOK, TuiInv, NEW m \in pending, m.kind \notin Loads, pending' = pending \ {m},
           NEW ret, JobEnds(ret),
           \/ screen \in {"Priorities", "Funnel", "DealDetail"} /\ (pdfGenerating' <=> pdfGenerating)
           \/ pdfGenerating /\ ~pdfGenerating' /\ ret = "Executive"
    PROVE  TuiInv'
<1> USE DEF TuiInv, LoadInv, FocusInv, LeadInv, DetailInv, AnalysisInv, AnalysisIsOfDeal
<1>1. UNCHANGED <<navigation, searchOrigin, focus, filterOpen, seq, active, businessTarget, detail,
                  analysis, batchRequest>>
  BY DEF JobEnds, batchVars
<1>2. /\ RequestsOnce' /\ (ReadAwaited' <=> ReadAwaited) /\ (DashAwaited' <=> DashAwaited)
      /\ (Created' => Created)
  BY <1>1, Unawaited
<1>3. StackInv' /\ (AnalysisOnTop' <=> AnalysisOnTop) /\ (ListsOnly' <=> ListsOnly)
  BY <1>1, StackKept
<1>4. pdfGenerating /\ screen # "BatchImport" /\ screen # "DealSearch" => focus = {}
  <2>1. focus \subseteq {"search", "batch"}
    BY DEF TuiTypeOK, NavigationTypeOK
  <2>2. QED
    BY <2>1
<1>5. CASE UNCHANGED <<screen, errorReturn, loading, retry>>
  BY <1>1, <1>2, <1>3, <1>5
<1>6. CASE ShowError(ret, NoRetry)
  <2>1. /\ screen' = "Error" /\ ~loading' /\ retry'.kind = "none"
        /\ errorReturn' = screen \/ (screen = "Error" /\ errorReturn' = ret)
    BY <1>6, NoReadTyped DEF ShowError
  <2>2. LoadInv' /\ LeadInv'
    BY <1>1, <1>2, <2>1
  <2>3. FocusInv'
    <3>1. "batch" \in focus' => /\ focus' = {"batch"} /\ ListsOnly'
                                /\ errorReturn' \in {"BatchImport", "Priorities"}
      BY <1>1, <1>3, <2>1
    <3>2. errorReturn' = "Executive" => focus' = {}
      BY <1>1, <1>4, <2>1
    <3>3. QED
      BY <1>1, <1>2, <1>4, <2>1, <3>1, <3>2
  <2>4. AnalysisInv'
    BY <1>1, <1>2, <1>3, <2>1
  <2>5. DetailInv'
    BY <1>1, <1>2, <1>3, <2>1
  <2>6. QED
    BY <1>2, <1>3, <2>2, <2>3, <2>4, <2>5
<1>7. QED
  BY <1>5, <1>6 DEF JobEnds

LEMMA JobAnswers ==
    ASSUME TuiTypeOK, JobInv, TuiInv, NEW m \in pending,
           CsvAnswered(m) \/ ExecutivePDFAnswered(m) \/ ReportAnswered(m)
    PROVE  TuiInv'
<1>1. m.kind \in {"csv", "pdf", "report"} /\ m.kind \notin Loads
  BY SMT DEF CsvAnswered, ExecutivePDFAnswered, ReportAnswered, OfKind, Loads, ReadKinds
<1>2. CASE Ignore(m)
  BY <1>1, <1>2, IgnoreKeeps
<1>3. CASE CsvAnswered(m) /\ ~Ignore(m)
  <2>1. m.kind = "csv" /\ m.about = screen /\ pending' = pending \ {m} /\ JobEnds(errorReturn)
    BY <1>3, SMT DEF CsvAnswered, Drop, OfKind
  <2>2. UNCHANGED pdfGenerating
    BY <1>3 DEF CsvAnswered
  <2>3. screen \in {"Priorities", "Funnel"}
    BY <2>1 DEF TuiInv, LeadInv
  <2>4. QED
    BY <1>1, <2>1, <2>2, <2>3, JobEndKeeps
<1>4. CASE ReportAnswered(m) /\ ~Ignore(m)
  <2>1. screen = "DealDetail" /\ pending' = pending \ {m} /\ JobEnds(errorReturn)
    BY <1>4 DEF ReportAnswered, Drop
  <2>2. UNCHANGED pdfGenerating
    BY <1>4 DEF ReportAnswered
  <2>3. QED
    BY <1>1, <2>1, <2>2, JobEndKeeps
<1>5. CASE ExecutivePDFAnswered(m)
  <2>1. m \in OfKind({"pdf"}) /\ pending' = pending \ {m} /\ JobEnds("Executive") /\ ~pdfGenerating'
    BY <1>5, Zenon DEF ExecutivePDFAnswered, Drop
  <2>2. pdfGenerating
    BY <2>1 DEF JobInv
  <2>3. QED
    BY <1>1, <2>1, <2>2, JobEndKeeps
<1>6. QED
  BY <1>2, <1>3, <1>4, <1>5

LEMMA SyncAnswers ==
    ASSUME TuiTypeOK, TuiInv, NEW m \in pending, SyncAnswered(m) PROVE TuiInv'
<1>1. m.kind = "sync" /\ m.kind \notin Loads
  BY SMT DEF SyncAnswered, OfKind, Loads, ReadKinds
<1>2. UNCHANGED <<navigationVars, exporting, reportGenerating, pdfGenerating, batchVars>>
  BY DEF SyncAnswered
<1>3. CASE Drop(m) /\ UNCHANGED readVars
  <2> USE DEF TuiInv, LoadInv, FocusInv, LeadInv, DetailInv, AnalysisInv, AnalysisIsOfDeal
  <2>1. pending' = pending \ {m} /\ UNCHANGED <<seq, active, businessTarget, batchRequest>>
    BY <1>2, <1>3 DEF Drop, readVars, batchVars
  <2>2. /\ RequestsOnce' /\ (ReadAwaited' <=> ReadAwaited) /\ (DashAwaited' <=> DashAwaited)
        /\ (Created' => Created)
    BY <1>1, <2>1, Unawaited
  <2>3. StackInv' /\ (AnalysisOnTop' <=> AnalysisOnTop) /\ (ListsOnly' <=> ListsOnly)
    BY <1>2, StackKept DEF navigationVars
  <2>4. QED
    BY <1>2, <1>3, <2>1, <2>2, <2>3 DEF navigationVars, readVars
<1>4. CASE screen = "Executive" /\ ~loading /\ LoadBusiness("Executive", pending \ {m})
  <2>1. ~ReadAwaited /\ focus = {} /\ ~AnalysisOnTop /\ ListsOnly
    BY <1>4 DEF TuiInv, LoadInv, FocusInv, DetailInv, AnalysisInv
  <2>2. "Executive" \in BusinessScreens
    BY DEF BusinessScreens
  <2>3. QED
    BY <1>2, <1>4, <2>1, <2>2, DashKeeps DEF navigationVars
<1>5. QED
  BY <1>3, <1>4 DEF SyncAnswered

LEMMA BatchAnswers ==
    ASSUME TuiTypeOK, TuiInv,
           \/ \E m \in pending : BatchCreated(m) \/ BatchCanceled(m)
           \/ \E r \in Requests : TimerFires(r) \/ ProgressAnswered(r)
    PROVE  TuiInv'
<1> USE DEF LoadInv, FocusInv, LeadInv, DetailInv, AnalysisInv, AnalysisIsOfDeal, readVars, jobVars, navigationVars
<1>1. ASSUME NEW m \in pending, BatchCreated(m) PROVE TuiInv'
  <2>1. m.kind = "created" /\ m.kind \notin Loads
    BY <1>1, SMT DEF BatchCreated, OfKind, Loads, ReadKinds
  <2>2. CASE m.request # batchRequest
    BY <1>1, <2>1, <2>2, IgnoreKeeps DEF BatchCreated
  <2>3. CASE m.request = batchRequest
    <3>1. /\ pending' = pending \ {m}
          /\ UNCHANGED <<navigation, errorReturn, searchOrigin, filterOpen, readVars, pdfGenerating, batchRequest>>
          /\ \/ UNCHANGED <<screen, focus>>
             \/ screen' = "BatchProgress" /\ focus' = focus \ {"batch"}
      BY <1>1, <2>3 DEF BatchCreated, Drop
    <3>2. /\ RequestsOnce' /\ (ReadAwaited' <=> ReadAwaited) /\ (DashAwaited' <=> DashAwaited)
      BY <2>1, <3>1, Unawaited DEF TuiInv
    <3>3. StackInv' /\ (AnalysisOnTop' <=> AnalysisOnTop) /\ (ListsOnly' <=> ListsOnly)
      BY <3>1, StackKept DEF TuiInv
    <3>4. ~Created' /\ Created
      BY <2>1, <2>3, <3>1, CreatedTaken DEF Created, TuiInv
    <3>5. "batch" \in focus /\ ~AnalysisOnTop /\ ~DashAwaited /\ ~filterOpen
      BY <3>4 DEF TuiInv
    <3>6. QED
      BY <3>1, <3>2, <3>3, <3>4, <3>5 DEF TuiInv, BusinessScreens
  <2>4. QED
    BY <2>2, <2>3
<1>2. ASSUME NEW m \in pending, BatchCanceled(m) PROVE TuiInv'
  <2>1. m.kind \notin Loads
    BY <1>2, SMT DEF BatchCanceled, OfKind, Loads, ReadKinds
  <2>2. CASE m.request # batchRequest
    BY <1>2, <2>1, <2>2, IgnoreKeeps DEF BatchCanceled
  <2>3. CASE m.request = batchRequest
    <3>1. pending' = pending \ {m} /\ UNCHANGED <<navigationVars, readVars, pdfGenerating, batchRequest>>
      BY <1>2, <2>3 DEF BatchCanceled, Drop
    <3>2. /\ RequestsOnce' /\ (ReadAwaited' <=> ReadAwaited) /\ (DashAwaited' <=> DashAwaited)
          /\ (Created' => Created)
      BY <2>1, <3>1, Unawaited DEF TuiInv
    <3>3. StackInv' /\ (AnalysisOnTop' <=> AnalysisOnTop) /\ (ListsOnly' <=> ListsOnly)
      BY <3>1, StackKept DEF TuiInv
    <3>4. QED
      BY <3>1, <3>2, <3>3 DEF TuiInv
  <2>4. QED
    BY <2>2, <2>3
<1>3. ASSUME UNCHANGED <<navigationVars, readVars, pdfGenerating, batchRequest, pending>> PROVE TuiInv'
  <2>1. /\ RequestsOnce' /\ (ReadAwaited' <=> ReadAwaited) /\ (DashAwaited' <=> DashAwaited)
        /\ (Created' => Created)
    BY <1>3, Still DEF TuiInv
  <2>2. StackInv' /\ (AnalysisOnTop' <=> AnalysisOnTop) /\ (ListsOnly' <=> ListsOnly)
    BY <1>3, StackKept DEF TuiInv
  <2>3. QED
    BY <1>3, <2>1, <2>2 DEF TuiInv
<1>4. ASSUME NEW r \in Requests, TimerFires(r) \/ ProgressAnswered(r) PROVE TuiInv'
  BY <1>3, <1>4 DEF TimerFires, ProgressAnswered
<1>5. QED
  BY <1>1, <1>2, <1>4

LEMMA TuiInvStep == TuiTypeOK /\ JobInv /\ TuiInv /\ [TuiNext]_tuiVars => TuiInv'
<1> SUFFICES ASSUME TuiTypeOK, JobInv, TuiInv, [TuiNext]_tuiVars PROVE TuiInv'
  OBVIOUS
<1>1. CASE UserStep
  BY <1>1, EscKeeps, ScreenKeys, DashKeys, ReadKeys, JobKeys, CreateKeeps DEF UserStep
<1>2. CASE AnswerStep
  BY <1>2, ReadAnswers, BusinessAnswers, JobAnswers, SyncAnswers, BatchAnswers DEF AnswerStep
<1>3. CASE UNCHANGED tuiVars
  <2>1. UNCHANGED <<navigationVars, readVars, jobVars, batchVars, pending>>
    BY <1>3 DEF tuiVars
  <2>2. /\ RequestsOnce' /\ (ReadAwaited' <=> ReadAwaited) /\ (DashAwaited' <=> DashAwaited)
        /\ (Created' => Created) /\ StackInv' /\ (AnalysisOnTop' <=> AnalysisOnTop) /\ (ListsOnly' <=> ListsOnly)
    BY <2>1, Still, StackKept DEF TuiInv, navigationVars, readVars, batchVars
  <2>3. QED
    BY <2>1, <2>2 DEF TuiInv, LoadInv, FocusInv, LeadInv, DetailInv, AnalysisInv, AnalysisIsOfDeal,
       navigationVars, readVars, jobVars, batchVars
<1>4. QED
  BY <1>1, <1>2, <1>3 DEF TuiNext

LEMMA TuiInvInit == TuiInit => TuiInv
<1> SUFFICES ASSUME TuiInit PROVE TuiInv
  OBVIOUS
<1>1. ~ReadAwaited /\ ~DashAwaited /\ ~Created /\ ~AnalysisOnTop
  BY DEF TuiInit, ReadAwaited, DashAwaited, Created, AnalysisOnTop
<1>2. RequestsOnce
  BY SMT DEF TuiInit, RequestsOnce, NoRead
<1>3. StackInv /\ ListsOnly
  BY SMT DEF TuiInit, StackInv, ListsOnly
<1>4. QED
  BY <1>1, <1>2, <1>3 DEF TuiInit, TuiInv, LoadInv, FocusInv, LeadInv, DetailInv, AnalysisInv, AnalysisIsOfDeal

LEMMA TuiInvariant == TuiSpec => [](TuiTypeOK /\ TuiInv)
<1>1. TuiInit => JobInv
  BY Zenon DEF TuiInit, JobInv, OfKind
<1>2. QED
  BY <1>1, TuiInvInit, TuiInvStep, JobStep, TuiTypeCorrect, PTL DEF TuiSpec

\* While the screen says it is loading, exactly one answer in flight is taken for it, and
\* otherwise none, but behind the error of a job.
THEOREM LoadsAreAnswered == TuiSpec => []LoadingIsAnswered
<1>1. TuiTypeOK /\ TuiInv => LoadingIsAnswered
  <2> SUFFICES ASSUME TuiTypeOK, TuiInv PROVE LoadingIsAnswered
    OBVIOUS
  <2>1. \A m \in Expected : m \in pending /\ m.kind \in Numbered
    BY SMT DEF Expected, Awaited, Numbered, Loads
  <2>2. Expected # {} <=> ReadAwaited \/ DashAwaited
    BY SMT DEF Expected, Awaited, ReadAwaited, DashAwaited
  <2>3. \A m, n \in Expected : m.request = n.request
    <3>1. \A m \in Expected : m.kind \in ReadKinds => ReadAwaited /\ m.request = active.request
      BY SMT DEF Expected, Awaited, ReadAwaited, IsCurrent, ReadKinds
    <3>2. \A m \in Expected : m.kind \notin ReadKinds => DashAwaited /\ m.request = seq
      BY SMT DEF Expected, Awaited, DashAwaited
    <3>3. QED
      BY <3>1, <3>2 DEF TuiInv, LoadInv
  <2>4. \A m, n \in Expected : m = n
    BY <2>1, <2>3 DEF TuiInv, RequestsOnce
  <2>5. Expected # {} => \E m \in pending : Expected = {m}
    BY <2>1, <2>4
  <2>6. QED
    BY <2>2, <2>5 DEF LoadingIsAnswered, TuiInv, LoadInv
<1>2. QED
  BY <1>1, TuiInvariant, PTL

\* An analysis and its raw response are shown under the deal they are of.
THEOREM AnalysesAreOfDeal == TuiSpec => []AnalysisIsOfDeal
<1>1. TuiInv => AnalysisIsOfDeal
  BY DEF TuiInv, AnalysisInv
<1>2. QED
  BY <1>1, TuiInvariant, PTL

\* What is taken out of flight for more than to be ignored was asked for since the last Esc.
LEMMA TakenIsCurrent ==
    ASSUME TuiTypeOK, TuiInv, TuiNext, NEW m \in pending \ pending',
           m.kind \in ReadKinds \cup {"business", "csv", "created", "canceled"},
           m.request < batchRequest
    PROVE  UNCHANGED <<navigationVars, readVars, jobVars, batchVars>>
<1>1. ASSUME NEW n \in pending, pending' = pending \ {n} PROVE m = n
  BY <1>1
<1>2. CASE UserStep
  <2>1. pending \subseteq pending'
    BY <1>2 DEF UserStep, Esc, EscFilter, OpenHelp, OpenBatchImport, StartSearch, OpenRaw, OpenFilter,
       OpenDashboard, ApplyFilter, ReadFindings, OpenFinding, OpenPriority, SearchDeal, RefreshDeal,
       OpenAnalysis, RefreshAnalysis, Retry, ExportCSV, ExportExecutivePDF, ExportReport, StartSync,
       CreateBatch, PollNow, CancelBatch, BeginRead, LoadBusiness
  <2>2. QED
    BY <2>1
<1>3. ASSUME NEW n \in pending, Ignore(n) PROVE UNCHANGED <<navigationVars, readVars, jobVars, batchVars>>
  BY <1>3 DEF Ignore
<1>4. ASSUME NEW n \in pending, ReadAnswered(n) PROVE UNCHANGED <<navigationVars, readVars, jobVars, batchVars>>
  <2>1. n.kind \in ReadKinds
    BY <1>4, SMT DEF ReadAnswered, OfKind
  <2>2. CASE ~IsCurrent(n)
    BY <1>3, <1>4, <2>2 DEF ReadAnswered
  <2>3. CASE IsCurrent(n)
    <3>1. m = n
      BY <1>1, <1>4, <2>3 DEF ReadAnswered, Drop
    <3>2. active.request = n.request /\ active.request >= batchRequest
      BY <2>1, <2>3 DEF IsCurrent, ReadAwaited, TuiInv, LoadInv
    <3>3. QED
      BY <3>1, <3>2, Numbers, SMT
  <2>4. QED
    BY <2>2, <2>3
<1>5. ASSUME NEW n \in pending, BusinessAnswered(n) \/ CsvAnswered(n)
      PROVE  UNCHANGED <<navigationVars, readVars, jobVars, batchVars>>
  <2>1. CASE n.request = seq /\ ~Ignore(n)
    <3>1. m = n
      BY <1>1, <1>5, <2>1 DEF BusinessAnswered, CsvAnswered, Drop
    <3>2. QED
      BY <2>1, <3>1, Numbers, SMT DEF TuiInv, RequestsOnce
  <2>2. QED
    BY <1>3, <1>5, <2>1 DEF BusinessAnswered, CsvAnswered
<1>6. ASSUME NEW n \in pending, ExecutivePDFAnswered(n) \/ ReportAnswered(n) \/ SyncAnswered(n)
      PROVE  UNCHANGED <<navigationVars, readVars, jobVars, batchVars>>
  <2>1. n.kind \in {"pdf", "report", "sync"}
    BY <1>6, SMT DEF ExecutivePDFAnswered, ReportAnswered, SyncAnswered, OfKind
  <2>2. pending \ {n} \subseteq pending'
    BY <1>6 DEF ExecutivePDFAnswered, ReportAnswered, SyncAnswered, Ignore, Drop, LoadBusiness
  <2>3. m = n
    BY <2>2
  <2>4. QED
    BY <2>1, <2>3, SMT DEF ReadKinds
<1>7. ASSUME NEW n \in pending, BatchCreated(n) \/ BatchCanceled(n)
      PROVE  UNCHANGED <<navigationVars, readVars, jobVars, batchVars>>
  <2>1. CASE n.request = batchRequest
    <3>1. m = n
      BY <1>1, <1>7, <2>1 DEF BatchCreated, BatchCanceled, Drop
    <3>2. QED
      BY <2>1, <3>1, Numbers, SMT
  <2>2. CASE n.request # batchRequest
    BY <1>3, <1>7, <2>2 DEF BatchCreated, BatchCanceled
  <2>3. QED
    BY <2>1, <2>2
<1>8. ASSUME NEW r \in Requests, TimerFires(r) \/ ProgressAnswered(r) PROVE pending' = pending
  BY <1>8 DEF TimerFires, ProgressAnswered
<1>9. QED
  BY <1>2, <1>4, <1>5, <1>6, <1>7, <1>8 DEF TuiNext, AnswerStep

\* A job's answer leaves what is beneath the error screen alone, a report's everything but
\* its own deal's screen.
LEMMA JobsLeaveBeneath ==
    ASSUME TuiNext, NEW m \in pending \ pending', m.kind \in {"report", "pdf", "sync"}
    PROVE  /\ UNCHANGED Beneath /\ screen' \in {screen, "Error"}
           /\ m.kind = "report" /\ m.about # detail =>
                 UNCHANGED <<navigationVars, readVars, jobVars, batchVars>>
<1> DEFINE Goal == /\ UNCHANGED Beneath /\ screen' \in {screen, "Error"}
                   /\ m.kind = "report" /\ m.about # detail =>
                         UNCHANGED <<navigationVars, readVars, jobVars, batchVars>>
<1>1. ASSUME NEW n \in pending, pending \ {n} \subseteq pending' PROVE m = n
  BY <1>1
<1>2. CASE UserStep
  <2>1. pending \subseteq pending'
    BY <1>2 DEF UserStep, Esc, EscFilter, OpenHelp, OpenBatchImport, StartSearch, OpenRaw, OpenFilter,
       OpenDashboard, ApplyFilter, ReadFindings, OpenFinding, OpenPriority, SearchDeal, RefreshDeal,
       OpenAnalysis, RefreshAnalysis, Retry, ExportCSV, ExportExecutivePDF, ExportReport, StartSync,
       CreateBatch, PollNow, CancelBatch, BeginRead, LoadBusiness
  <2>2. QED
    BY <2>1
<1>3. ASSUME NEW n \in pending, Ignore(n) PROVE Goal
  BY <1>3 DEF Ignore, Beneath, navigationVars, readVars
<1>4. ASSUME NEW n \in pending,
             \/ ReadAnswered(n) \/ BusinessAnswered(n) \/ CsvAnswered(n)
             \/ BatchCreated(n) \/ BatchCanceled(n)
      PROVE  FALSE
  <2>1. n.kind \in ReadKinds \cup {"business", "csv", "created", "canceled"}
    BY <1>4, SMT DEF ReadAnswered, BusinessAnswered, CsvAnswered, BatchCreated, BatchCanceled, OfKind
  <2>2. pending \ {n} \subseteq pending'
    BY <1>4 DEF ReadAnswered, BusinessAnswered, CsvAnswered, BatchCreated, BatchCanceled, Ignore, Drop
  <2>3. m = n
    BY <1>1, <2>2
  <2>4. QED
    BY <2>1, <2>3, SMT DEF ReadKinds
<1>5. ASSUME NEW n \in pending, ExecutivePDFAnswered(n) PROVE Goal
  <2>1. m = n /\ n.kind = "pdf"
    BY <1>1, <1>5, SMT DEF ExecutivePDFAnswered, Drop, OfKind
  <2>2. UNCHANGED Beneath /\ screen' \in {screen, "Error"}
    BY <1>5 DEF ExecutivePDFAnswered, JobEnds, ShowError, Beneath
  <2>3. QED
    BY <2>1, <2>2
<1>6. ASSUME NEW n \in pending, ReportAnswered(n), ~Ignore(n) PROVE Goal
  <2>1. n.about = detail /\ Drop(n) /\ JobEnds(errorReturn)
    BY <1>6 DEF ReportAnswered
  <2>2. m = n
    BY <1>1, <2>1 DEF Drop
  <2>3. UNCHANGED Beneath /\ screen' \in {screen, "Error"}
    BY <2>1 DEF JobEnds, ShowError, Beneath
  <2>4. QED
    BY <2>1, <2>2, <2>3
<1>7. ASSUME NEW n \in pending, SyncAnswered(n) PROVE Goal
  <2>1. n.kind = "sync" /\ pending \ {n} \subseteq pending'
    BY <1>7, SMT DEF SyncAnswered, Drop, LoadBusiness, OfKind
  <2>2. m = n
    BY <1>1, <2>1
  <2>3. UNCHANGED Beneath /\ screen' = screen
    BY <1>7 DEF SyncAnswered, Beneath, navigationVars, readVars, LoadBusiness
  <2>4. QED
    BY <2>1, <2>2, <2>3
<1>8. ASSUME NEW r \in Requests, TimerFires(r) \/ ProgressAnswered(r) PROVE pending' = pending
  BY <1>8 DEF TimerFires, ProgressAnswered
<1>9. QED
  BY <1>2, <1>3, <1>4, <1>5, <1>6, <1>7, <1>8 DEF TuiNext, AnswerStep

\* What can be abandoned and was asked for before Esc changes nothing when it is answered
\* afterwards; the jobs that outlive Esc touch nothing beneath the error screen.
THEOREM StaleAnswersAreDropped == TuiSpec => LateAnswersAreDropped
<1>1. TuiTypeOK /\ TuiInv /\ [TuiNext]_tuiVars
      => [\A m \in pending \ pending' :
             /\ /\ m.kind \in ReadKinds \cup {"business", "csv", "created", "canceled"}
                /\ m.request < batchRequest
                => UNCHANGED <<navigationVars, readVars, jobVars, batchVars>>
             /\ m.kind \in {"report", "pdf", "sync"} =>
                   UNCHANGED Beneath /\ screen' \in {screen, "Error"}
             /\ m.kind = "report" /\ m.about # detail =>
                   UNCHANGED <<navigationVars, readVars, jobVars, batchVars>>]_tuiVars
  <2> SUFFICES ASSUME TuiTypeOK, TuiInv, TuiNext, NEW m \in pending \ pending'
               PROVE  /\ m.kind \in ReadKinds \cup {"business", "csv", "created", "canceled"}
                            /\ m.request < batchRequest
                         => UNCHANGED <<navigationVars, readVars, jobVars, batchVars>>
                      /\ m.kind \in {"report", "pdf", "sync"} =>
                            UNCHANGED Beneath /\ screen' \in {screen, "Error"}
                      /\ m.kind = "report" /\ m.about # detail =>
                            UNCHANGED <<navigationVars, readVars, jobVars, batchVars>>
    OBVIOUS
  <2>1. QED
    BY TakenIsCurrent, JobsLeaveBeneath
<1>2. QED
  BY <1>1, TuiInvariant, PTL DEF TuiSpec, LateAnswersAreDropped

-----------------------------------------------------------------------------
(* The polling of a batch. *)

LEMMA LoopsStep ==
    ASSUME BatchTypeOK, TuiNext, NEW r \in Requests
    PROVE  /\ (OnBatch(r) /\ batchOpen /\ OnBatch(r)' /\ batchOpen') => Loops(r)' >= Loops(r)
           /\ r # batchRequest' => Loops(r)' <= Loops(r)
<1>1. timers[r] \in Nat /\ polls[r] \in Nat /\ \A q \in Requests : timers[q] \in Nat /\ polls[q] \in Nat
  BY DEF BatchTypeOK
<1>2. CASE UNCHANGED <<timers, polls>>
  BY <1>1, <1>2, SMT DEF Loops
<1>3. ASSUME UNCHANGED batchRequest,
             \/ UNCHANGED timers /\ polls' = [polls EXCEPT ![batchRequest] = @ + 1]
             \/ UNCHANGED polls /\ timers' = [timers EXCEPT ![batchRequest] = @ + 1]
      PROVE  /\ (OnBatch(r) /\ batchOpen /\ OnBatch(r)' /\ batchOpen') => Loops(r)' >= Loops(r)
             /\ r # batchRequest' => Loops(r)' <= Loops(r)
  <2>1. CASE UNCHANGED timers /\ polls' = [polls EXCEPT ![batchRequest] = @ + 1]
    <3>1. timers'[r] = timers[r] /\ polls'[r] = IF r = batchRequest THEN polls[r] + 1 ELSE polls[r]
      BY <2>1 DEF BatchTypeOK
    <3>2. QED
      BY <1>1, <1>3, <3>1, SMT DEF Loops
  <2>2. CASE UNCHANGED polls /\ timers' = [timers EXCEPT ![batchRequest] = @ + 1]
    <3>1. polls'[r] = polls[r] /\ timers'[r] = IF r = batchRequest THEN timers[r] + 1 ELSE timers[r]
      BY <2>2 DEF BatchTypeOK
    <3>2. QED
      BY <1>1, <1>3, <3>1, SMT DEF Loops
  <2>3. QED
    BY <1>3, <2>1, <2>2
<1>4. CASE UserStep
  <2>1. UNCHANGED <<timers, polls>> \/ PollNow
    BY <1>4 DEF UserStep, Esc, EscFilter, OpenHelp, OpenBatchImport, StartSearch, OpenRaw, OpenFilter,
       OpenDashboard, ApplyFilter, ReadFindings, OpenFinding, OpenPriority, SearchDeal, RefreshDeal,
       OpenAnalysis, RefreshAnalysis, Retry, ExportCSV, ExportExecutivePDF, ExportReport, StartSync,
       CreateBatch, CancelBatch, batchVars
  <2>2. QED
    BY <1>2, <1>3, <2>1 DEF PollNow
<1>5. ASSUME NEW m \in pending,
             \/ ReadAnswered(m) \/ BusinessAnswered(m) \/ CsvAnswered(m) \/ ExecutivePDFAnswered(m)
             \/ ReportAnswered(m) \/ SyncAnswered(m)
      PROVE  UNCHANGED <<timers, polls>>
  BY <1>5 DEF ReadAnswered, BusinessAnswered, CsvAnswered, ExecutivePDFAnswered, ReportAnswered,
     SyncAnswered, Ignore, JobEnds, batchVars
<1>6. ASSUME NEW m \in pending, BatchCreated(m) \/ BatchCanceled(m)
      PROVE  \/ UNCHANGED <<timers, polls>>
             \/ /\ UNCHANGED batchRequest
                /\ \/ UNCHANGED timers /\ polls' = [polls EXCEPT ![batchRequest] = @ + 1]
                   \/ UNCHANGED polls /\ timers' = [timers EXCEPT ![batchRequest] = @ + 1]
  BY <1>6 DEF BatchCreated, BatchCanceled, PollsAgain, Ignore, batchVars
<1>7. ASSUME NEW q \in Requests, TimerFires(q)
      PROVE  /\ (OnBatch(r) /\ batchOpen /\ OnBatch(r)' /\ batchOpen') => Loops(r)' >= Loops(r)
             /\ r # batchRequest' => Loops(r)' <= Loops(r)
  <2>1. /\ timers[q] > 0 /\ timers' = [timers EXCEPT ![q] = @ - 1] /\ UNCHANGED batchRequest
        /\ polls' = IF OnBatch(q) /\ batchOpen THEN [polls EXCEPT ![q] = @ + 1] ELSE polls
    BY <1>7 DEF TimerFires
  <2>2. /\ timers'[r] = IF r = q THEN timers[r] - 1 ELSE timers[r]
        /\ polls'[r] = IF r = q /\ OnBatch(r) /\ batchOpen THEN polls[r] + 1 ELSE polls[r]
    BY <2>1 DEF BatchTypeOK
  <2>3. QED
    BY <1>1, <2>1, <2>2, SMT DEF Loops
<1>8. ASSUME NEW q \in Requests, ProgressAnswered(q)
      PROVE  /\ (OnBatch(r) /\ batchOpen /\ OnBatch(r)' /\ batchOpen') => Loops(r)' >= Loops(r)
             /\ r # batchRequest' => Loops(r)' <= Loops(r)
  <2>1. /\ polls[q] > 0 /\ polls' = [polls EXCEPT ![q] = @ - 1] /\ UNCHANGED batchRequest
        /\ IF OnBatch(q) THEN timers' = [timers EXCEPT ![q] = @ + 1] ELSE UNCHANGED timers
    BY <1>8 DEF ProgressAnswered, PollsAgain
  <2>2. /\ polls'[r] = IF r = q THEN polls[r] - 1 ELSE polls[r]
        /\ timers'[r] = IF r = q /\ OnBatch(r) THEN timers[r] + 1 ELSE timers[r]
    BY <2>1 DEF BatchTypeOK
  <2>3. QED
    BY <1>1, <2>1, <2>2, SMT DEF Loops
<1>9. QED
  BY <1>2, <1>3, <1>4, <1>5, <1>6, <1>7, <1>8 DEF TuiNext, AnswerStep

\* Nothing leads to the batch's screen but its creation and the way back from an error.
LEMMA WayToBatch ==
    ASSUME TuiTypeOK, TuiInv, TuiNext, screen # "Error",
           screen # "BatchProgress", screen' = "BatchProgress"
    PROVE  \E m \in pending : BatchCreated(m) /\ m.request = batchRequest
<1>1. CASE Esc
  <2>1. CASE PopsNavigation
    <3>1. /\ Len(navigation) \in 1..Len(navigation)
          /\ screen' = navigation[Len(navigation)]
      BY <1>1, <2>1, SMT DEF Esc, PopsNavigation, TuiTypeOK, NavigationTypeOK
    <3>2. screen' \in {"Priorities", "DealDetail", "Analysis"}
      BY <3>1 DEF TuiInv, StackInv
    <3>3. QED
      BY <3>2
  <2>2. CASE ~PopsNavigation
    <3>1. screen' = BackTarget
      BY <1>1, <2>2 DEF Esc
    <3>2. BackTarget \in {"Menu", "Findings", "DealSearch", "DealDetail", "Analysis"}
      BY SMT DEF BackTarget, TuiInv, LeadInv
    <3>3. QED
      BY <3>1, <3>2
  <2>3. QED
    BY <2>1, <2>2
<1>2. CASE UserStep /\ ~Esc
  BY <1>2 DEF UserStep, EscFilter, OpenHelp, OpenBatchImport, StartSearch, OpenRaw, OpenFilter,
     OpenDashboard, ApplyFilter, ReadFindings, OpenFinding, OpenPriority, SearchDeal, RefreshDeal,
     OpenAnalysis, RefreshAnalysis, Retry, ExportCSV, ExportExecutivePDF, ExportReport, StartSync,
     CreateBatch, PollNow, CancelBatch, navigationVars
<1>3. ASSUME NEW m \in pending, BusinessAnswered(m) PROVE FALSE
  <2>1. m.about \in BusinessScreens \cup {"Error"}
    BY <1>3, SMT DEF BusinessAnswered, OfKind, TuiInv, LeadInv
  <2>2. screen' \in {screen, "Error", m.about}
    BY <1>3 DEF BusinessAnswered, Ignore, ShowError, navigationVars
  <2>3. QED
    BY <2>1, <2>2, SMT DEF BusinessScreens
<1>4. ASSUME NEW m \in pending, ReadAnswered(m) PROVE FALSE
  <2>1. screen' \in {screen, "Error", "Findings", "DealDetail", "Analysis"}
    BY <1>4 DEF ReadAnswered, Ignore, ShowError, navigationVars
  <2>2. QED
    BY <2>1
<1>5. ASSUME NEW m \in pending,
             \/ CsvAnswered(m) \/ ExecutivePDFAnswered(m) \/ ReportAnswered(m) \/ SyncAnswered(m)
             \/ BatchCanceled(m)
      PROVE  FALSE
  <2>1. screen' \in {screen, "Error"}
    BY <1>5 DEF CsvAnswered, ExecutivePDFAnswered, ReportAnswered, SyncAnswered, BatchCanceled, Ignore,
       JobEnds, ShowError, navigationVars
  <2>2. QED
    BY <2>1
<1>6. ASSUME NEW m \in pending, BatchCreated(m) PROVE m.request = batchRequest
  BY <1>6 DEF BatchCreated, Ignore, navigationVars
<1>7. ASSUME NEW r \in Requests, TimerFires(r) \/ ProgressAnswered(r) PROVE FALSE
  BY <1>7 DEF TimerFires, ProgressAnswered, navigationVars
<1>8. QED
  BY <1>1, <1>2, <1>3, <1>4, <1>5, <1>6, <1>7 DEF TuiNext, AnswerStep

\* A batch that is created, or shown open again by a late answer, has a timer.
LEMMA TimerSet ==
    ASSUME BatchTypeOK, timers' = [timers EXCEPT ![batchRequest] = @ + 1],
           UNCHANGED batchRequest, BatchTypeOK'
    PROVE  OpenBatchIsPolled'
<1>1. timers'[batchRequest'] = timers[batchRequest] + 1
  BY DEF BatchTypeOK
<1>2. timers[batchRequest] \in Nat /\ polls'[batchRequest'] \in Nat
  BY DEF BatchTypeOK
<1>3. QED
  BY <1>1, <1>2, SMT DEF OpenBatchIsPolled, Loops

\* What keeps the batch's screen keeps its request, and shows a batch open that was not
\* only with the answer of a poll.
LEMMA StayOnBatch ==
    ASSUME TuiTypeOK, TuiInv, TuiNext, screen = "BatchProgress", screen' = "BatchProgress"
    PROVE  /\ UNCHANGED batchRequest
           /\ batchOpen' => batchOpen \/ timers' = [timers EXCEPT ![batchRequest] = @ + 1]
<1>1. ~Esc
  BY DEF Esc, PopsNavigation, BackTarget
<1>2. ~CreateBatch
  BY SMT DEF CreateBatch, TuiInv, FocusInv
<1>3. ASSUME UserStep PROVE UNCHANGED <<batchRequest, batchOpen>>
  BY <1>1, <1>2, <1>3 DEF UserStep, EscFilter, OpenHelp, OpenBatchImport, StartSearch, OpenRaw, OpenFilter,
     OpenDashboard, ApplyFilter, ReadFindings, OpenFinding, OpenPriority, SearchDeal, RefreshDeal,
     OpenAnalysis, RefreshAnalysis, Retry, ExportCSV, ExportExecutivePDF, ExportReport, StartSync,
     PollNow, CancelBatch, batchVars
<1>4. ASSUME NEW m \in pending,
             \/ ReadAnswered(m) \/ BusinessAnswered(m) \/ CsvAnswered(m) \/ ExecutivePDFAnswered(m)
             \/ ReportAnswered(m) \/ SyncAnswered(m) \/ BatchCanceled(m)
      PROVE  UNCHANGED <<batchRequest, batchOpen>>
  BY <1>4 DEF ReadAnswered, BusinessAnswered, CsvAnswered, ExecutivePDFAnswered, ReportAnswered,
     SyncAnswered, BatchCanceled, Ignore, JobEnds, batchVars
<1>5. ASSUME NEW m \in pending, BatchCreated(m)
      PROVE  /\ UNCHANGED batchRequest
             /\ UNCHANGED batchOpen \/ timers' = [timers EXCEPT ![batchRequest] = @ + 1]
  BY <1>5 DEF BatchCreated, PollsAgain, Ignore, batchVars
<1>6. ASSUME NEW r \in Requests, TimerFires(r) PROVE UNCHANGED <<batchRequest, batchOpen>>
  BY <1>6 DEF TimerFires
<1>7. ASSUME NEW r \in Requests, ProgressAnswered(r)
      PROVE  /\ UNCHANGED batchRequest
             /\ UNCHANGED batchOpen \/ timers' = [timers EXCEPT ![batchRequest] = @ + 1]
  BY <1>7 DEF ProgressAnswered, PollsAgain, OnBatch
<1>8. QED
  BY <1>3, <1>4, <1>5, <1>6, <1>7 DEF TuiNext, AnswerStep

LEMMA PolledStep ==
    ASSUME TuiTypeOK, TuiTypeOK', TuiInv, TuiNext, OpenBatchIsPolled, screen # "Error"
    PROVE  OpenBatchIsPolled'
<1> SUFFICES ASSUME screen' = "BatchProgress", batchOpen' PROVE OpenBatchIsPolled'
  BY DEF OpenBatchIsPolled
<1>1. CASE screen # "BatchProgress"
  <2>1. PICK m \in pending : BatchCreated(m) /\ m.request = batchRequest
    BY <1>1, WayToBatch
  <2>2. timers' = [timers EXCEPT ![batchRequest] = @ + 1] /\ UNCHANGED batchRequest
    BY <1>1, <2>1 DEF BatchCreated, PollsAgain
  <2>3. QED
    BY <2>2, TimerSet DEF TuiTypeOK
<1>2. CASE screen = "BatchProgress"
  <2>1. UNCHANGED batchRequest
    BY <1>2, StayOnBatch
  <2>2. CASE batchOpen
    <3>1. PICK r \in Requests : r = batchRequest
      BY DEF TuiTypeOK, BatchTypeOK
    <3>2. OnBatch(r) /\ OnBatch(r)'
      BY <1>2, <2>1, <3>1 DEF OnBatch
    <3>3. Loops(r)' >= Loops(r)
      BY <2>2, <3>2, LoopsStep DEF TuiTypeOK
    <3>4. Loops(r) > 0
      BY <1>2, <2>2, <3>1 DEF OpenBatchIsPolled
    <3>5. Loops(r) \in Nat /\ Loops(r)' \in Nat
      <4>1. timers[r] \in Nat /\ polls[r] \in Nat
        BY DEF TuiTypeOK, BatchTypeOK
      <4>2. timers'[r] \in Nat /\ polls'[r] \in Nat
        BY DEF TuiTypeOK, BatchTypeOK
      <4>3. QED
        BY <4>1, <4>2, SMT DEF Loops
    <3>6. Loops(r)' > 0
      BY <3>3, <3>4, <3>5, SMT
    <3>7. QED
      BY <2>1, <3>1, <3>6 DEF OpenBatchIsPolled, Loops
  <2>3. CASE ~batchOpen
    BY <1>2, <2>1, <2>3, StayOnBatch, TimerSet DEF TuiTypeOK
  <2>4. QED
    BY <2>2, <2>3
<1>3. QED
  BY <1>1, <1>2

\* No loop of the batch on the screen ends, those left behind never multiply, and only from
\* the error screen does one come to a batch that is shown open and not polled.
THEOREM PollingGoesOn == TuiSpec => PollingLoops
<1>1. TuiTypeOK /\ TuiTypeOK' /\ TuiInv /\ [TuiNext]_tuiVars
      => [/\ \A r \in Requests :
                /\ (OnBatch(r) /\ batchOpen /\ OnBatch(r)' /\ batchOpen') => Loops(r)' >= Loops(r)
                /\ r # batchRequest' => Loops(r)' <= Loops(r)
          /\ OpenBatchIsPolled /\ ~OpenBatchIsPolled' => screen = "Error"]_tuiVars
  BY LoopsStep, PolledStep DEF TuiTypeOK
<1>2. QED
  BY <1>1, TuiTypeCorrect, TuiInvariant, PTL DEF TuiSpec, PollingLoops
=============================================================================
