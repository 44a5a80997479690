---------------------------- MODULE CrmSync_proofs ----------------------------
(***************************************************************************)
(* Proofs about the CRM synchronization, for any number of processes,      *)
(* deals and runs.  SyncInv says who owns a run and how the stamps of      *)
(* publications are ordered; with it a publication always shows its whole  *)
(* snapshot.                                                               *)
(***************************************************************************)
EXTENDS CrmSync, TLAPS

\* A run in the hands of a synchronization is its alone, and exists.
RunsOwned ==
    \A s \in Syncers : mine[s] # NoRun =>
        /\ run[mine[s]] # "NONE"
        /\ \A t \in Syncers : mine[t] = mine[s] => t = s

\* Publications are stamped with a time that has come, and a transaction that
\* may still publish began after every one of them.
StampsOrdered ==
    /\ \A r \in Runs : run[r] \in Published => finished[r] <= clock
    /\ \A s \in Syncers : step[s] = "publishing" =>
          /\ opened[s] <= clock
          /\ Active(s) => \A r \in Runs : run[r] \in Published => finished[r] < opened[s]

\* A deal is tagged by a publication that collected it.
TagsPublished ==
    \A d \in Deals : tag[d] # NoRun =>
        run[tag[d]] \in Published /\ d \in collected[tag[d]]

SyncInv == OneRunning /\ RunsOwned /\ StampsOrdered /\ TagsPublished /\ ShownIsWhole

\* The reader's run is published, and once it has read the marker's total, the
\* rows it read are still there but for erased deals.
ReaderInv ==
    /\ chosen # NoRun => run[chosen] \in Published
    /\ reads > DealReads =>
          markers[chosen] \subseteq markedTotal /\ markedTotal \ markers[chosen] \subseteq erased
    /\ MarkedAddUp

-----------------------------------------------------------------------------
LEMMA NoRunIsNone == NoRun \notin Runs
  BY SMT DEF NoRun, Runs

\* A read gives rows that are there, and all of them unless it was cut short.
LEMMA ReceivedRows ==
  ASSUME NEW D, NEW got \in Received(D)
  PROVE  /\ got.rows \subseteq D
         /\ got.cut = cut \/ (reads \in Unchecked /\ got.cut = cut \cup {reads})
         /\ reads \in got.cut \/ got.rows = D
  BY SMT DEF Received

LEMMA CrmTypeInit == CrmInit => CrmTypeOK
  BY SMT DEF CrmInit, CrmTypeOK, Runs, NoRun, DealReads, Steps

\* Every step keeps the variables in their types.
LEMMA CrmTypeStep == CrmTypeOK /\ [CrmNext]_crmVars => CrmTypeOK'
<1> SUFFICES ASSUME CrmTypeOK, [CrmNext]_crmVars PROVE CrmTypeOK'
  OBVIOUS
<1> USE DEF CrmTypeOK, runVars, tableVars, readerVars, GoTo, Leave, Steps, Ended, Published
<1>1. ASSUME NEW s \in Syncers, CancelStale(s) PROVE CrmTypeOK'
  BY <1>1, SMT DEF CancelStale, Stale
<1>2. ASSUME NEW s \in Syncers, CheckRunning(s) PROVE CrmTypeOK'
  BY <1>2, SMT DEF CheckRunning
<1>3. ASSUME NEW s \in Syncers, NEW r \in Runs, Insert(s, r) PROVE CrmTypeOK'
  <2>1. CASE GoTo(s, "collecting") /\ mine' = [mine EXCEPT ![s] = r]
    BY <1>3, <2>1, NoRunIsNone, SMT DEF Insert
  <2>2. CASE GoTo(s, "idle") /\ UNCHANGED mine
    BY <1>3, <2>2, SMT DEF Insert
  <2> QED
    BY <1>3, <2>1, <2>2 DEF Insert
<1>4. ASSUME NEW s \in Syncers, InsertRefused(s) PROVE CrmTypeOK'
  BY <1>4, SMT DEF InsertRefused
<1>5. ASSUME NEW s \in Syncers, CollectDeals(s) PROVE CrmTypeOK'
  BY <1>5, SMT DEF CollectDeals
<1>6. ASSUME NEW s \in Syncers, CollectMarkers(s) PROVE CrmTypeOK'
  BY <1>6, SMT DEF CollectMarkers
<1>7. ASSUME NEW s \in Syncers, PublishBegins(s) PROVE CrmTypeOK'
  BY <1>7, SMT DEF PublishBegins
<1>8. ASSUME NEW s \in Syncers, PublishCommits(s) PROVE CrmTypeOK'
  <2>1. mine[s] \in Runs /\ clock' = clock /\ opened[s] \in Nat
    BY <1>8, SMT DEF PublishCommits
  <2>2. CASE Leave(s)
    BY <1>8, <2>1, <2>2, SMT DEF PublishCommits, Retagged
  <2>3. CASE GoTo(s, "failing") /\ UNCHANGED <<mine, deals, marked, denied, opened>>
    BY <1>8, <2>1, <2>3, SMT DEF PublishCommits, Retagged
  <2> QED
    BY <1>8, <2>2, <2>3 DEF PublishCommits
<1>9. ASSUME NEW s \in Syncers, PublishFails(s) PROVE CrmTypeOK'
  BY <1>9, SMT DEF PublishFails
<1>10. ASSUME NEW s \in Syncers, FinishFailed(s) PROVE CrmTypeOK'
  BY <1>10, SMT DEF FinishFailed
<1>11. ASSUME NEW s \in Syncers, Crash(s) PROVE CrmTypeOK'
  BY <1>11, SMT DEF Crash
<1>12. CASE ReaderStep
  <2> USE DEF syncVars, DealReads, Unchecked
  <2>1. ASSUME NEW r \in Runs, ChooseRun(r) PROVE CrmTypeOK'
    BY <2>1, SMT DEF ChooseRun
  <2>2. CASE CountDeals
    <3>1. counts' \subseteq SUBSET Deals /\ cut' \subseteq Unchecked
      <4>1. PICK got \in Received(Tagged(chosen)) :
               counts' = counts \cup {got.rows} /\ cut' = got.cut
        BY <2>2 DEF CountDeals
      <4>2. Tagged(chosen) \subseteq Deals
        BY DEF Tagged
      <4>3. got.rows \subseteq Tagged(chosen) /\ (got.cut = cut \/ got.cut \subseteq cut \cup Unchecked)
        BY ONLY ReceivedRows, SMT
      <4>4. cut \subseteq Unchecked /\ counts \subseteq SUBSET Deals
        OBVIOUS
      <4>5. cut' \subseteq Unchecked
        BY <4>1, <4>3, <4>4 DEF Unchecked
      <4>6. counts' \subseteq SUBSET Deals
        BY ONLY <4>1, <4>2, <4>3, <4>4, SMT
      <4> QED
        BY <4>5, <4>6
    <3> QED
      BY <2>2, <3>1, SMT DEF CountDeals
  <2>3. CASE CountMarked
    BY <2>3, SMT DEF CountMarked
  <2>4. CASE CountMarkedBy
    <3>1. chosen \in Runs
      BY <2>4, SMT DEF CountMarkedBy
    <3>2. markedBy' \subseteq Deals /\ cut' \subseteq Unchecked
      <4>1. PICK got \in Received(MarkedDeals(chosen)) : markedBy' = got.rows /\ cut' = got.cut
        BY <2>4 DEF CountMarkedBy
      <4>2. MarkedDeals(chosen) \subseteq Deals
        BY <3>1, SMT DEF MarkedDeals
      <4>3. got.rows \subseteq MarkedDeals(chosen) /\ (got.cut = cut \/ got.cut \subseteq cut \cup Unchecked)
        BY ONLY ReceivedRows, SMT
      <4>4. cut \subseteq Unchecked
        OBVIOUS
      <4>5. cut' \subseteq Unchecked
        BY <4>1, <4>3, <4>4
      <4>6. markedBy' \subseteq Deals
        BY ONLY <4>1, <4>2, <4>3, <4>4, SMT
      <4> QED
        BY <4>5, <4>6
    <3> QED
      BY <2>4, <3>2, SMT DEF CountMarkedBy
  <2>5. CASE Answer
    BY <2>5, SMT DEF Answer
  <2> QED
    BY <1>12, <2>1, <2>2, <2>3, <2>4, <2>5 DEF ReaderStep
<1>13. ASSUME NEW r \in Runs, Ages(r) PROVE CrmTypeOK'
  BY <1>13, SMT DEF Ages, syncVars
<1>14. ASSUME NEW d \in Deals, Erase(d) PROVE CrmTypeOK'
  BY <1>14, SMT DEF Erase, syncVars
<1>15. CASE UNCHANGED crmVars
  BY <1>15, SMT DEF crmVars, syncVars
<1> QED
  BY <1>1, <1>2, <1>3, <1>4, <1>5, <1>6, <1>7, <1>8, <1>9, <1>10, <1>11, <1>12, <1>13,
     <1>14, <1>15 DEF CrmNext, SyncStep

\* Type correctness of the synchronization's state.
THEOREM CrmTypeCorrect == CrmSpec => []CrmTypeOK
  BY CrmTypeInit, CrmTypeStep, PTL DEF CrmSpec

-----------------------------------------------------------------------------
LEMMA SyncInvInit == CrmInit => SyncInv
  BY NoRunIsNone, SMT DEF CrmInit, SyncInv, OneRunning, RunsOwned, StampsOrdered, TagsPublished,
     ShownIsWhole, IsShown, Published

\* A step that writes no table preserves the invariant when no synchronization
\* comes by a run and none begins its publication.
LEMMA QuietStep ==
  ASSUME CrmTypeOK, SyncInv, UNCHANGED tableVars, UNCHANGED clock,
         \A s \in Syncers : mine'[s] \in {mine[s], NoRun},
         \A s \in Syncers : step'[s] = "publishing" =>
             step[s] = "publishing" /\ mine'[s] = mine[s] /\ opened'[s] = opened[s]
  PROVE  SyncInv'
<1> USE DEF SyncInv, tableVars, runVars
<1>1. OneRunning'
  BY SMT DEF OneRunning
<1>2. RunsOwned'
  BY SMT DEF RunsOwned
<1>3. StampsOrdered'
  BY SMT DEF StampsOrdered, Active
<1>4. TagsPublished' /\ ShownIsWhole'
  BY SMT DEF TagsPublished, ShownIsWhole, IsShown, Tagged
<1> QED
  BY <1>1, <1>2, <1>3, <1>4

\* Runs that end unpublished or age change no snapshot and let nobody publish.
LEMMA EndingStep ==
  ASSUME CrmTypeOK, SyncInv,
         UNCHANGED <<finished, collected, tag, erased, clock>>,
         run' \in [Runs -> {"NONE", "RUNNING"} \cup Ended],
         \A r \in Runs : run'[r] = run[r] \/ (run[r] = "RUNNING" /\ run'[r] \in {"FAILED", "CANCELED"}),
         \A s \in Syncers : mine'[s] \in {mine[s], NoRun},
         \A s \in Syncers : step'[s] = "publishing" =>
             step[s] = "publishing" /\ mine'[s] = mine[s] /\ opened'[s] = opened[s]
  PROVE  SyncInv'
<1> USE DEF SyncInv
<1>0. \A r \in Runs : (run'[r] \in Published <=> run[r] \in Published)
                   /\ (run'[r] = "RUNNING" => run[r] = "RUNNING")
                   /\ (run[r] # "NONE" => run'[r] # "NONE")
  BY SMT DEF Published
<1>1. OneRunning'
  BY <1>0, SMT DEF OneRunning
<1>2. RunsOwned'
  BY <1>0, SMT DEF RunsOwned, CrmTypeOK
<1>3. StampsOrdered'
  <2>1. \A r \in Runs : run'[r] \in Published => finished'[r] <= clock'
    BY <1>0, SMT DEF StampsOrdered
  <2>2. ASSUME NEW s \in Syncers, step'[s] = "publishing"
        PROVE  /\ opened'[s] <= clock'
               /\ Active(s)' => \A r \in Runs : run'[r] \in Published => finished'[r] < opened'[s]
    <3>1. mine[s] \in Runs
      BY <2>2, SMT DEF CrmTypeOK
    <3> QED
      BY <1>0, <2>2, <3>1, SMT DEF StampsOrdered, Active
  <2> QED
    BY <2>1, <2>2 DEF StampsOrdered
<1>4. TagsPublished'
  BY <1>0, SMT DEF TagsPublished, CrmTypeOK
<1>5. ShownIsWhole'
  <2>1. \A r \in Runs : IsShown(r)' <=> IsShown(r)
    BY <1>0, SMT DEF IsShown
  <2> QED
    BY <2>1, SMT DEF ShownIsWhole, Tagged
<1> QED
  BY <1>1, <1>2, <1>3, <1>4, <1>5

\* A run is inserted: its row is new, so nobody owns it and nothing bears its tag.
LEMMA InsertStep ==
  ASSUME CrmTypeOK, SyncInv, NEW s \in Syncers, NEW r \in Runs, Insert(s, r)
  PROVE  SyncInv'
<1> USE DEF SyncInv, Insert, IndexAdmits, GoTo
<1>1. \A t \in Syncers : step'[t] = "publishing" => step[t] = "publishing" /\ t # s
  BY SMT DEF CrmTypeOK
<1>2. \A t \in Syncers : mine'[t] = IF t = s THEN mine'[s] ELSE mine[t]
  BY SMT DEF CrmTypeOK
<1>3. mine'[s] \in {r, NoRun}
  BY SMT DEF CrmTypeOK
<1>4. \A t \in Syncers : mine[t] # r
  BY NoRunIsNone, SMT DEF RunsOwned
<1>5. \A q \in Runs : run'[q] = IF q = r THEN "RUNNING" ELSE run[q]
  BY SMT DEF CrmTypeOK
<1>6. OneRunning'
  BY <1>5, SMT DEF OneRunning
<1>7. RunsOwned'
  BY <1>2, <1>3, <1>4, <1>5, NoRunIsNone, SMT DEF RunsOwned, CrmTypeOK
<1>8. StampsOrdered'
  <2>1. \A q \in Runs : run'[q] \in Published => finished'[q] <= clock'
    BY <1>5, SMT DEF StampsOrdered, Published
  <2>2. ASSUME NEW t \in Syncers, step'[t] = "publishing"
        PROVE  opened'[t] <= clock' /\ ~Active(t)'
    <3>1. mine[t] \in Runs /\ mine'[t] = mine[t] /\ mine[t] # r
      BY <1>1, <1>2, <1>4, <2>2, SMT DEF CrmTypeOK
    <3> QED
      BY <1>1, <1>5, <2>2, <3>1, SMT DEF StampsOrdered, Active
  <2> QED
    BY <2>1, <2>2 DEF StampsOrdered
<1>9. TagsPublished'
  BY <1>5, SMT DEF TagsPublished, Published, CrmTypeOK
<1>10. ShownIsWhole'
  <2>1. \A q \in Runs : IsShown(q)' <=> IsShown(q)
    BY <1>5, SMT DEF IsShown, Published
  <2> QED
    BY <2>1, SMT DEF ShownIsWhole, Tagged
<1> QED
  BY <1>6, <1>7, <1>8, <1>9, <1>10

\* A transaction begins: no publication is stamped later than now.
LEMMA BeginStep ==
  ASSUME CrmTypeOK, SyncInv, NEW s \in Syncers, PublishBegins(s)
  PROVE  SyncInv'
<1> USE DEF SyncInv, PublishBegins, tableVars, runVars, GoTo
<1>1. OneRunning' /\ RunsOwned' /\ TagsPublished'
  BY SMT DEF OneRunning, RunsOwned, TagsPublished
<1>2. ShownIsWhole'
  BY SMT DEF ShownIsWhole, IsShown, Tagged
<1>3. StampsOrdered'
  <2>1. \A r \in Runs : run'[r] \in Published => finished'[r] <= clock /\ finished'[r] \in Nat
    BY SMT DEF StampsOrdered, CrmTypeOK
  <2>2. clock \in Nat /\ clock' = clock + 1
    BY DEF CrmTypeOK
  <2>3. ASSUME NEW t \in Syncers, step'[t] = "publishing"
        PROVE  /\ opened'[t] <= clock'
               /\ Active(t)' => \A r \in Runs : run'[r] \in Published => finished'[r] < opened'[t]
    <3>1. CASE t = s
      BY <2>1, <2>2, <3>1, SMT DEF CrmTypeOK
    <3>2. CASE t # s
      <4>1. step[t] = "publishing" /\ opened'[t] = opened[t] /\ opened[t] \in Nat
        BY <2>3, <3>2, SMT DEF CrmTypeOK
      <4> QED
        BY <2>2, <4>1, SMT DEF StampsOrdered, Active
    <3> QED
      BY <3>1, <3>2
  <2> QED
    BY <2>1, <2>2, <2>3, SMT DEF StampsOrdered
<1> QED
  BY <1>1, <1>2, <1>3

\* A publication: its stamp is later than every other, so it is the one shown,
\* and the deals tagged with it are those of its transaction.
LEMMA PublishStep ==
  ASSUME CrmTypeOK, SyncInv, NEW s \in Syncers, PublishCommits(s)
  PROVE  SyncInv'
<1> USE DEF SyncInv
<1>0. PICK r \in Runs : r = mine[s]
  BY SMT DEF PublishCommits, CrmTypeOK
<1>1. run[r] = "RUNNING" /\ opened[s] \in Nat
  BY <1>0, SMT DEF PublishCommits, CrmTypeOK, Active
<1>2. /\ run'[r] \in Published
      /\ finished'[r] = opened[s]
      /\ collected'[r] = deals[s]
      /\ \A q \in Runs : q # r =>
            run'[q] = run[q] /\ finished'[q] = finished[q] /\ collected'[q] = collected[q]
  BY <1>0, <1>1, SMT DEF PublishCommits, CrmTypeOK, Published
<1>3. /\ clock' = clock /\ erased' = erased
      /\ \A d \in Deals : tag'[d] = IF d \in deals[s] THEN r ELSE tag[d]
      /\ deals[s] \subseteq Deals
  BY <1>0, SMT DEF PublishCommits, Retagged, CrmTypeOK
<1>4. \A t \in Syncers :
         /\ mine'[t] \in {mine[t], NoRun}
         /\ step'[t] = "publishing" => t # s /\ step[t] = "publishing"
                                       /\ mine'[t] = mine[t] /\ opened'[t] = opened[t]
  BY SMT DEF PublishCommits, CrmTypeOK, Leave, GoTo
<1>5. \A q \in Runs : run[q] \in Published => finished[q] < opened[s] /\ q # r
  BY <1>0, <1>1, SMT DEF PublishCommits, StampsOrdered, Published
<1>6. \A d \in Deals : tag[d] # r
  BY <1>1, NoRunIsNone, SMT DEF TagsPublished, Published
<1>7. OneRunning'
  BY <1>1, <1>2, SMT DEF OneRunning, Published
<1>8. RunsOwned'
  BY <1>2, <1>4, SMT DEF RunsOwned, Published, CrmTypeOK
<1>9. StampsOrdered'
  <2>1. \A q \in Runs : run'[q] \in Published => finished'[q] <= clock'
    <3>1. opened[s] <= clock
      BY SMT DEF StampsOrdered, PublishCommits
    <3> QED
      BY <1>1, <1>2, <1>3, <3>1, SMT DEF StampsOrdered
  <2>2. ASSUME NEW t \in Syncers, step'[t] = "publishing"
        PROVE  opened'[t] <= clock' /\ ~Active(t)'
    <3>1. mine[t] \in Runs /\ mine'[t] = mine[t] /\ mine[t] # r
      BY <1>0, <1>1, <1>4, <2>2, NoRunIsNone, SMT DEF CrmTypeOK, RunsOwned
    <3>2. run[mine[t]] # "RUNNING"
      BY <1>1, <3>1, SMT DEF OneRunning
    <3> QED
      BY <1>2, <1>3, <1>4, <2>2, <3>1, <3>2, SMT DEF StampsOrdered, Active
  <2> QED
    BY <2>1, <2>2 DEF StampsOrdered
<1>10. TagsPublished'
  BY <1>1, <1>2, <1>3, <1>6, SMT DEF TagsPublished, CrmTypeOK
<1>11. ShownIsWhole'
  <2>1. \A q \in Runs : IsShown(q)' => q = r
    BY <1>1, <1>2, <1>5, SMT DEF IsShown, CrmTypeOK
  <2>2. Tagged(r)' = deals[s]
    BY <1>3, <1>6, SMT DEF Tagged
  <2> QED
    BY <1>2, <2>1, <2>2, SMT DEF ShownIsWhole
<1> QED
  BY <1>7, <1>8, <1>9, <1>10, <1>11

\* An erased deal leaves the snapshot it was in, and is known to be erased.
LEMMA EraseStep ==
  ASSUME CrmTypeOK, SyncInv, NEW d \in Deals, Erase(d)
  PROVE  SyncInv'
<1> USE DEF SyncInv, Erase, syncVars
<1>1. OneRunning' /\ RunsOwned'
  BY SMT DEF OneRunning, RunsOwned
<1>2. StampsOrdered'
  BY SMT DEF StampsOrdered, Active
<1>3. TagsPublished'
  BY SMT DEF TagsPublished, CrmTypeOK
<1>4. \A r \in Runs : r # NoRun /\ Tagged(r)' = Tagged(r) \ {d}
  BY NoRunIsNone, SMT DEF Tagged, CrmTypeOK
<1>5. ShownIsWhole'
  BY <1>4, SMT DEF ShownIsWhole, IsShown
<1> QED
  BY <1>1, <1>2, <1>3, <1>5

LEMMA SyncInvStep == CrmTypeOK /\ SyncInv /\ [CrmNext]_crmVars => SyncInv'
<1> SUFFICES ASSUME CrmTypeOK, SyncInv, [CrmNext]_crmVars PROVE SyncInv'
  OBVIOUS
<1>0. CrmTypeOK'
  BY CrmTypeStep
<1>1. ASSUME NEW s \in Syncers, CancelStale(s) PROVE SyncInv'
  <2>1. run' \in [Runs -> {"NONE", "RUNNING"} \cup Ended]
    BY <1>0 DEF CrmTypeOK
  <2> QED
    BY <1>1, <2>1, EndingStep, SMT DEF CancelStale, Stale, GoTo, CrmTypeOK
<1>2. ASSUME NEW s \in Syncers, CheckRunning(s) PROVE SyncInv'
  BY <1>2, QuietStep, SMT DEF CheckRunning, GoTo, CrmTypeOK
<1>3. ASSUME NEW s \in Syncers, NEW r \in Runs, Insert(s, r) PROVE SyncInv'
  BY <1>3, InsertStep
<1>4. ASSUME NEW s \in Syncers, InsertRefused(s) PROVE SyncInv'
  BY <1>4, QuietStep, SMT DEF InsertRefused, GoTo, CrmTypeOK
<1>5. ASSUME NEW s \in Syncers, CollectDeals(s) PROVE SyncInv'
  BY <1>5, QuietStep, SMT DEF CollectDeals, GoTo, CrmTypeOK
<1>6. ASSUME NEW s \in Syncers, CollectMarkers(s) PROVE SyncInv'
  BY <1>6, QuietStep, SMT DEF CollectMarkers, GoTo, CrmTypeOK
<1>7. ASSUME NEW s \in Syncers, PublishBegins(s) PROVE SyncInv'
  BY <1>7, BeginStep
<1>8. ASSUME NEW s \in Syncers, PublishCommits(s) PROVE SyncInv'
  BY <1>8, PublishStep
<1>9. ASSUME NEW s \in Syncers, PublishFails(s) PROVE SyncInv'
  BY <1>9, QuietStep, SMT DEF PublishFails, GoTo, CrmTypeOK
<1>10. ASSUME NEW s \in Syncers, FinishFailed(s) PROVE SyncInv'
  <2>1. run' \in [Runs -> {"NONE", "RUNNING"} \cup Ended]
    BY <1>0 DEF CrmTypeOK
  <2>2. \A r \in Runs : run'[r] = run[r] \/ (run[r] = "RUNNING" /\ run'[r] \in {"FAILED", "CANCELED"})
    BY <1>10, SMT DEF FinishFailed, Active, CrmTypeOK
  <2> QED
    BY <1>10, <2>1, <2>2, EndingStep, SMT DEF FinishFailed, Leave, GoTo, CrmTypeOK
<1>11. ASSUME NEW s \in Syncers, Crash(s) PROVE SyncInv'
  BY <1>11, QuietStep, SMT DEF Crash, Leave, GoTo, CrmTypeOK
<1>12. CASE ReaderStep
  <2>1. UNCHANGED <<tableVars, clock, syncVars>>
    BY <1>12 DEF ReaderStep, ChooseRun, CountDeals, CountMarked, CountMarkedBy, Answer
  <2> QED
    BY <2>1, QuietStep, SMT DEF syncVars
<1>13. ASSUME NEW r \in Runs, Ages(r) PROVE SyncInv'
  BY <1>13, EndingStep, SMT DEF Ages, syncVars, CrmTypeOK
<1>14. ASSUME NEW d \in Deals, Erase(d) PROVE SyncInv'
  BY <1>14, EraseStep
<1>15. CASE UNCHANGED crmVars
  BY <1>15, QuietStep, SMT DEF crmVars, syncVars
<1> QED
  BY <1>1, <1>2, <1>3, <1>4, <1>5, <1>6, <1>7, <1>8, <1>9, <1>10, <1>11, <1>12, <1>13,
     <1>14, <1>15 DEF CrmNext, SyncStep

\* The inductive invariant of the synchronizations.
LEMMA SyncInvariant == CrmSpec => []SyncInv
  BY SyncInvInit, SyncInvStep, CrmTypeCorrect, PTL DEF CrmSpec

\* At most one run is RUNNING, whatever Start takes for abandoned.
THEOREM RunsExclude == CrmSpec => []OneRunning
  BY SyncInvariant, PTL DEF SyncInv

\* What Statistics reports is the whole snapshot of the last publication.
THEOREM SnapshotIsShown == CrmSpec => []ShownIsWhole
  BY SyncInvariant, PTL DEF SyncInv

-----------------------------------------------------------------------------
\* No step changes an ended run, or the markers of a published one but by
\* erasing deals.
LEMMA EndedStep ==
  ASSUME CrmTypeOK, [CrmNext]_crmVars, NEW r \in Runs, run[r] \in Ended
  PROVE  /\ run'[r] = run[r] /\ collected'[r] = collected[r]
         /\ markers'[r] \subseteq markers[r] /\ markers[r] \ markers'[r] \subseteq erased'
         /\ erased \subseteq erased'
<1> USE DEF runVars, tableVars, Ended, Published, CrmTypeOK
<1>1. ASSUME NEW s \in Syncers, SyncStep(s)
      PROVE  run'[r] = run[r] /\ collected'[r] = collected[r] /\ markers'[r] = markers[r]
             /\ erased' = erased
  <2>1. CASE CancelStale(s) \/ CheckRunning(s) \/ InsertRefused(s) \/ CollectDeals(s)
             \/ CollectMarkers(s) \/ PublishBegins(s) \/ PublishFails(s) \/ Crash(s)
    BY <2>1, SMT DEF CancelStale, Stale, CheckRunning, InsertRefused, CollectDeals,
       CollectMarkers, PublishBegins, PublishFails, Crash
  <2>2. ASSUME NEW q \in Runs, Insert(s, q)
        PROVE  run'[r] = run[r] /\ collected'[r] = collected[r] /\ markers'[r] = markers[r]
               /\ erased' = erased
    BY <2>2, SMT DEF Insert
  <2>3. CASE PublishCommits(s)
    BY <2>3, SMT DEF PublishCommits, Active
  <2>4. CASE FinishFailed(s)
    BY <2>4, SMT DEF FinishFailed, Active
  <2> QED
    BY <1>1, <2>1, <2>2, <2>3, <2>4 DEF SyncStep
<1>2. CASE ReaderStep
  BY <1>2, SMT DEF ReaderStep, ChooseRun, CountDeals, CountMarked, CountMarkedBy, Answer
<1>3. ASSUME NEW q \in Runs, Ages(q)
      PROVE  run'[r] = run[r] /\ collected'[r] = collected[r] /\ markers'[r] = markers[r]
             /\ erased' = erased
  BY <1>3 DEF Ages
<1>4. ASSUME NEW d \in Deals, Erase(d)
      PROVE  /\ run'[r] = run[r] /\ collected'[r] = collected[r]
             /\ markers'[r] = markers[r] \ {d} /\ erased' = erased \cup {d}
  BY <1>4, SMT DEF Erase
<1>5. CASE UNCHANGED crmVars
  BY <1>5 DEF crmVars
<1> QED
  BY <1>1, <1>2, <1>3, <1>4, <1>5, SMT DEF CrmNext

\* A run ends once, and what it collected stays with it.
THEOREM RunsEndForGood == CrmSpec => RunsEndOnce
<1>1. CrmTypeOK /\ [CrmNext]_crmVars
         => [\A r \in Runs : run[r] \in Ended =>
                run'[r] = run[r] /\ collected'[r] = collected[r]]_crmVars
  BY EndedStep
<1> QED
  BY <1>1, CrmTypeCorrect, PTL DEF CrmSpec, RunsEndOnce

-----------------------------------------------------------------------------
LEMMA ReaderInit == CrmInit => ReaderInv
  BY SMT DEF CrmInit, ReaderInv, MarkedAddUp, NoRun, DealReads

LEMMA ReaderInvStep == CrmTypeOK /\ ReaderInv /\ [CrmNext]_crmVars => ReaderInv'
<1> SUFFICES ASSUME CrmTypeOK, ReaderInv, [CrmNext]_crmVars PROVE ReaderInv'
  OBVIOUS
<1>1. CASE UNCHANGED readerVars
  <2>1. CASE chosen = NoRun
    BY <1>1, <2>1, SMT DEF ReaderInv, MarkedAddUp, readerVars, CrmTypeOK, DealReads
  <2>2. CASE chosen # NoRun
    <3>1. /\ chosen \in Runs /\ run[chosen] \in Ended
          /\ chosen' = chosen /\ reads' = reads /\ markedTotal' = markedTotal /\ markedBy' = markedBy /\ cut' = cut
      BY <1>1, <2>2, SMT DEF ReaderInv, CrmTypeOK, Ended, readerVars
    <3>2. /\ run'[chosen] = run[chosen]
          /\ markers'[chosen] \subseteq markers[chosen]
          /\ markers[chosen] \ markers'[chosen] \subseteq erased'
          /\ erased \subseteq erased'
      BY <3>1, EndedStep
    <3> QED
      BY <3>1, <3>2, SMT DEF ReaderInv, MarkedAddUp
  <2> QED
    BY <2>1, <2>2
<1>2. CASE ReaderStep
  <2> USE DEF ReaderInv, MarkedAddUp, tableVars, runVars, DealReads
  <2>1. ASSUME NEW r \in Runs, ChooseRun(r) PROVE ReaderInv'
    BY <2>1, SMT DEF ChooseRun, IsShown
  <2>2. CASE CountDeals
    BY <2>2, SMT DEF CountDeals, CrmTypeOK
  <2>3. CASE CountMarked
    BY <2>3, SMT DEF CountMarked, CrmTypeOK
  <2>4. CASE CountMarkedBy
    BY <2>4, ReceivedRows, SMT DEF CountMarkedBy, MarkedDeals, CrmTypeOK
  <2>5. CASE Answer
    BY <2>5, SMT DEF Answer, NoRun
  <2> QED
    BY <1>2, <2>1, <2>2, <2>3, <2>4, <2>5 DEF ReaderStep
<1> QED
  <2>1. ReaderStep \/ UNCHANGED readerVars
    BY DEF CrmNext, crmVars, SyncStep, CancelStale, CheckRunning, Insert, InsertRefused,
       CollectDeals, CollectMarkers, PublishBegins, PublishCommits, PublishFails, FinishFailed,
       Crash, Ages, Erase
  <2> QED
    BY <1>1, <1>2, <2>1

\* The marker's shares add up to its total across concurrent publications, but for
\* erased deals and a read of them that was cut short.
THEOREM MarkedSharesAddUp == CrmSpec => []MarkedAddUp
  BY ReaderInit, ReaderInvStep, CrmTypeCorrect, PTL DEF CrmSpec, ReaderInv

-----------------------------------------------------------------------------
(* What tears the statistics: their queries count the deals tagged with a run *)
(* that a later publication takes deals away from, and two of them take a read *)
(* that failed midway for a whole one.  Nothing else does.                     *)

OneSnapshotInv ==
    /\ StatisticsOfOneSnapshot
    /\ CountsWithinSnapshot
    /\ chosen = NoRun => counts = {}

LEMMA OneSnapshotStep ==
  ASSUME CrmTypeOK, ReaderInv, ShownIsWhole, ReportIsCurrent, OneSnapshotInv,
         [CrmNext]_crmVars
  PROVE  OneSnapshotInv'
<1> USE DEF OneSnapshotInv, StatisticsOfOneSnapshot, CountsWithinSnapshot, CrmTypeOK
<1>1. CASE UNCHANGED readerVars
  <2>1. CASE chosen = NoRun
    BY <1>1, <2>1, SMT DEF readerVars
  <2>2. CASE chosen # NoRun
    <3>1. chosen \in Runs /\ run[chosen] \in Ended
      BY <2>2, SMT DEF ReaderInv, Ended
    <3>2. collected'[chosen] = collected[chosen] /\ erased \subseteq erased'
      BY <3>1, EndedStep
    <3> QED
      BY <1>1, <2>2, <3>2, SMT DEF readerVars
  <2> QED
    BY <2>1, <2>2
<1>2. CASE ReaderStep
  <2> USE DEF tableVars, runVars
  <2>1. ASSUME NEW r \in Runs, ChooseRun(r) PROVE OneSnapshotInv'
    BY <2>1, NoRunIsNone, SMT DEF ChooseRun
  <2>2. CASE CountDeals
    <3>1. chosen \in Runs /\ IsShown(chosen)
      BY <2>2, SMT DEF CountDeals, ReportIsCurrent
    <3>2. Tagged(chosen) \subseteq collected[chosen] /\ collected[chosen] \ Tagged(chosen) \subseteq erased
      BY <3>1 DEF ShownIsWhole
    <3>3. PICK got \in Received(Tagged(chosen)) :
             counts' = counts \cup {got.rows} /\ cut' = got.cut
      BY <2>2 DEF CountDeals
    <3>4. UNCHANGED <<collected, erased, chosen>> /\ reads \in 0..DealReads - 1
      BY <2>2, SMT DEF CountDeals, DealReads
    <3>5. /\ got.rows \subseteq Tagged(chosen)
          /\ cut \subseteq cut'
          /\ cut' \subseteq {DealReads + 1} => got.rows = Tagged(chosen)
      BY <3>3, <3>4, ReceivedRows, SMT DEF DealReads
    <3> QED
      BY <2>2, <3>1, <3>2, <3>3, <3>4, <3>5, NoRunIsNone, SMT
  <2>3. CASE CountMarked \/ CountMarkedBy
    <3>1. UNCHANGED <<counts, collected, erased, chosen>> /\ cut' \ {DealReads + 1} = cut \ {DealReads + 1}
      BY <2>3, ReceivedRows, SMT DEF CountMarked, CountMarkedBy, DealReads
    <3> QED
      BY <3>1, SMT
  <2>4. CASE Answer
    BY <2>4, SMT DEF Answer
  <2> QED
    BY <1>2, <2>1, <2>2, <2>3, <2>4 DEF ReaderStep
<1> QED
  <2>1. ReaderStep \/ UNCHANGED readerVars
    BY DEF CrmNext, crmVars, SyncStep, CancelStale, CheckRunning, Insert, InsertRefused,
       CollectDeals, CollectMarkers, PublishBegins, PublishCommits, PublishFails, FinishFailed,
       Crash, Ages, Erase
  <2> QED
    BY <1>1, <1>2, <2>1

\* Unless a later publication overtakes the call, no count goes beyond the published
\* snapshot that is reported, and without a read cut short each is the whole of it.
THEOREM OnlyPublicationsAndCutsTear ==
  CrmSpec /\ []ReportIsCurrent => [](CountsWithinSnapshot /\ StatisticsOfOneSnapshot)
<1>1. CrmInit => OneSnapshotInv
  BY DEF CrmInit, OneSnapshotInv, StatisticsOfOneSnapshot, CountsWithinSnapshot
<1>2. CrmTypeOK /\ ReaderInv /\ ShownIsWhole /\ ReportIsCurrent /\ OneSnapshotInv /\ [CrmNext]_crmVars
      => OneSnapshotInv'
  BY OneSnapshotStep
<1>3. OneSnapshotInv => CountsWithinSnapshot /\ StatisticsOfOneSnapshot
  BY DEF OneSnapshotInv
<1> QED
  BY <1>1, <1>2, <1>3, ReaderInit, ReaderInvStep, SnapshotIsShown, CrmTypeCorrect, PTL DEF CrmSpec
=============================================================================
