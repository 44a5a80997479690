--------------------------- MODULE MessageBackfill ---------------------------
(***************************************************************************)
(* The backfill of messages (internal/messagebackfill/service.go,          *)
(* cmd/messagebackfill): a pool of workers that collect the conversations  *)
(* of deals and store them (MessageRepository.UpsertBatch), beside audits  *)
(* that store conversations too (SyncAnalysis.Execute).                    *)
(*                                                                         *)
(* A message is the key of its row, (session_id, bitrix_message_id),       *)
(* numbered in the order UpsertBatch sorts by.  A deal sees the messages   *)
(* of its own chats and of those of its contact, which other deals may see *)
(* too.  The requests of one collection follow each other and stand as     *)
(* one.  A dry run stops after Select; progress is only printed.  Of the   *)
(* summary, the deals are counted and not their messages.                  *)
(***************************************************************************)
EXTENDS HttpTransport

CONSTANTS Deals,      \* Bitrix deal identifiers, in the order of Select
          NoDeal,     \* in stored: no row
          Audits,     \* audits that store messages meanwhile
          Messages,   \* keys of messages, in the order of UpsertBatch
          Visible,    \* Visible[d] : messages that collecting d may return
          Limit       \* --limit

Workers == Clients    \* --concurrency
Writers == Workers \cup Audits

ASSUME BackfillAssumption ==
    /\ Deals \subseteq Nat /\ IsFiniteSet(Deals) /\ NoDeal \notin Deals
    /\ IsFiniteSet(Workers) /\ Workers \cap Audits = {}
    /\ Messages \subseteq Nat /\ IsFiniteSet(Messages)
    /\ Visible \in [Deals -> SUBSET Messages]
    /\ Limit \in Nat \ {0}
    /\ Slots = Cardinality(Workers)

\* Without messages: access denied, an empty conversation or none.
Outcomes == {"failed", "messages", "without"}

VARIABLES
    phase,      \* of the command
    canceled,   \* its context is
    selected,   \* TotalSelected
    toSend,     \* deals not handed to a worker yet
    stopped,    \* the loop that hands them out was left by the cancellation
    counted,    \* counted[o] : deals in the summary with this outcome
    pc,         \* pc[w]      : where a writer is
    job,        \* job[w]     : its deal
    batch,      \* batch[w]   : the messages it collected
    written,    \* written[w] : those its open transaction has written
    outcome,    \* outcome[w] : what it is about to count
    stored      \* conversation_messages: stored[m] is the deal_id of its row

summaryVars  == <<selected, counted>>
controlVars  == <<phase, canceled, toSend, stopped>>
writerVars   == <<pc, job, batch, written, outcome>>
backfillVars == <<httpVars, summaryVars, controlVars, writerVars, stored>>

Busy == {w \in Workers : pc[w] # "idle"}
Processed == counted["failed"] + counted["messages"] + counted["without"]

BackfillTypeOK ==
    /\ HttpTypeOK
    /\ phase \in {"idle", "running", "finished"}
    /\ canceled \in BOOLEAN /\ stopped \in BOOLEAN
    /\ toSend \subseteq Deals
    /\ selected \in Nat
    /\ counted \in [Outcomes -> Nat]
    /\ pc \in [Writers -> {"idle", "collecting", "writing", "counting"}]
    /\ job \in [Writers -> Deals \cup {NoDeal}]
    /\ batch \in [Writers -> SUBSET Messages]
    /\ written \in [Writers -> SUBSET Messages]
    /\ outcome \in [Writers -> Outcomes \cup {"none"}]
    /\ stored \in [Messages -> Deals \cup {NoDeal}]
    /\ \A w \in Writers : pc[w] # "idle" => job[w] \in Deals
    /\ \A w \in Writers : pc[w] = "counting" => outcome[w] \in Outcomes

Nobody(f, none) == f = [w \in Writers |-> none]

BackfillInit ==
    /\ HttpInit
    /\ phase = "idle" /\ canceled = FALSE /\ stopped = FALSE
    /\ toSend = {} /\ selected = 0
    /\ counted = [o \in Outcomes |-> 0]
    /\ Nobody(pc, "idle") /\ Nobody(job, NoDeal) /\ Nobody(batch, {})
    /\ Nobody(written, {}) /\ Nobody(outcome, "none")
    /\ stored = [m \in Messages |-> NoDeal]

-----------------------------------------------------------------------------
(* The command. *)

\* Select: the first deals among all or the one asked for (--deal), with those
\* that have a row or without (--all).
Candidates(among, all) == {d \in among : all \/ \A m \in Messages : stored[m] # d}
First(S) == {d \in S : Cardinality({e \in S : e < d}) < Limit}

Start ==
    /\ phase \in {"idle", "finished"}
    /\ \E all \in BOOLEAN, among \in {Deals} \cup {{d} : d \in Deals} :
          /\ toSend' = First(Candidates(among, all))
          /\ selected' = Cardinality(toSend')
    /\ phase' = IF toSend' = {} THEN "finished" ELSE "running"
    /\ canceled' = FALSE /\ stopped' = FALSE
    /\ counted' = [o \in Outcomes |-> 0]
    /\ UNCHANGED <<httpVars, writerVars, stored>>

\* SIGTERM, Ctrl+C or the timeout of the command.
Cancel ==
    /\ phase = "running" /\ ~canceled
    /\ canceled' = TRUE
    /\ UNCHANGED <<httpVars, summaryVars, phase, toSend, stopped, writerVars, stored>>

\* jobs <- deal: the next deal meets a worker that receives, canceled or not.
Send(w) ==
    /\ phase = "running" /\ pc[w] = "idle"
    /\ \E d \in toSend :
          /\ \A e \in toSend : d <= e
          /\ toSend' = toSend \ {d}
          /\ job' = [job EXCEPT ![w] = d]
    /\ pc' = [pc EXCEPT ![w] = "collecting"]
    /\ Issue(w)
    /\ UNCHANGED <<summaryVars, phase, canceled, stopped, batch, written, outcome, stored>>

\* break send.
StopSending ==
    /\ canceled /\ toSend # {}
    /\ toSend' = {}
    /\ stopped' = TRUE
    /\ UNCHANGED <<httpVars, summaryVars, phase, canceled, writerVars, stored>>

\* jobs is closed and group.Wait returns.
Finish ==
    /\ phase = "running" /\ toSend = {} /\ Busy = {}
    /\ phase' = "finished"
    /\ UNCHANGED <<httpVars, summaryVars, canceled, toSend, stopped, writerVars, stored>>

\* The process dies: PostgreSQL rolls its transactions back.
Crash ==
    /\ phase = "running"
    /\ phase' = "idle"
    /\ toSend' = {}
    /\ call' = [c \in Clients |-> "none"]
    /\ attempt' = [c \in Clients |-> 0]
    /\ LET reset(f, none) == [w \in Writers |-> IF w \in Workers THEN none ELSE f[w]] IN
          /\ pc' = reset(pc, "idle") /\ job' = reset(job, NoDeal)
          /\ batch' = reset(batch, {}) /\ written' = reset(written, {})
          /\ outcome' = reset(outcome, "none")
    /\ UNCHANGED <<summaryVars, canceled, stopped, stored>>

-----------------------------------------------------------------------------
(* A deal in the hands of a worker. *)

Concludes(w, o) ==
    /\ pc' = [pc EXCEPT ![w] = "counting"]
    /\ outcome' = [outcome EXCEPT ![w] = o]

\* Source.Conversation returns: an error, a conversation without messages, or
\* messages to be stored.
Collected(w) ==
    /\ pc[w] = "collecting"
    /\ Return(w)
    /\ \/ Concludes(w, "failed") /\ UNCHANGED batch
       \/ /\ call[w] = "answered"
          /\ Concludes(w, "without")
          /\ UNCHANGED batch
       \/ /\ call[w] = "answered"
          /\ \E found \in (SUBSET Visible[job[w]]) \ {{}} : batch' = [batch EXCEPT ![w] = found]
          /\ pc' = [pc EXCEPT ![w] = "writing"]
          /\ UNCHANGED outcome
    /\ UNCHANGED <<summaryVars, controlVars, job, written, stored>>

\* An audit of any deal comes to its UpsertBatch.
AuditCollected(a) ==
    /\ pc[a] = "idle"
    /\ \E d \in Deals : \E found \in (SUBSET Visible[d]) \ {{}} :
          /\ job' = [job EXCEPT ![a] = d]
          /\ batch' = [batch EXCEPT ![a] = found]
    /\ pc' = [pc EXCEPT ![a] = "writing"]
    /\ UNCHANGED <<httpVars, summaryVars, controlVars, written, outcome, stored>>

-----------------------------------------------------------------------------
(* UpsertBatch. *)

Left(w) == batch[w] \ written[w]

\* The rows are written in order.  The wrong ones (for mutation) are written as
\* they were collected.
AnyRow(w) == Left(w)
NextRow(w) == {m \in Left(w) : \A n \in Left(w) : m <= n}

\* A row that another open transaction has written is waited for.
Locked(w, m) == \E v \in Writers \ {w} : m \in written[v]

WriteRow(w) ==
    /\ pc[w] = "writing"
    /\ \E m \in NextRow(w) :
          /\ ~Locked(w, m)
          /\ written' = [written EXCEPT ![w] = @ \cup {m}]
    /\ UNCHANGED <<httpVars, summaryVars, controlVars, pc, job, batch, outcome, stored>>

\* A worker receives again; an audit goes on with the rules and the model, which
\* store no messages.  The wrong one (for mutation) does not get that far.
LeavesJobOnly(w) ==
    /\ job' = [job EXCEPT ![w] = NoDeal]
    /\ UNCHANGED <<pc, batch, outcome>>
Leaves(w) ==
    /\ pc' = [pc EXCEPT ![w] = "idle"]
    /\ job' = [job EXCEPT ![w] = NoDeal]
    /\ batch' = [batch EXCEPT ![w] = {}]
    /\ outcome' = [outcome EXCEPT ![w] = "none"]

Ends(w, o) ==
    /\ written' = [written EXCEPT ![w] = {}]
    /\ IF w \in Workers THEN Concludes(w, o) /\ UNCHANGED <<job, batch>> ELSE Leaves(w)
    /\ UNCHANGED <<httpVars, summaryVars, controlVars>>

\* A message without valid identifiers, a statement that fails, a canceled context.
UpsertFails(w) ==
    /\ pc[w] = "writing"
    /\ Ends(w, "failed")
    /\ UNCHANGED stored

\* The wrong one (for mutation) commits early.
SomeWritten(w) == written[w] # {}
AllWritten(w) == Left(w) = {}

\* ON CONFLICT leaves deal_id as it is.  The commit may succeed and its answer
\* be lost.
Commit(w) ==
    /\ pc[w] = "writing"
    /\ AllWritten(w)
    /\ stored' = [m \in Messages |->
                    IF m \in written[w] /\ stored[m] = NoDeal THEN job[w] ELSE stored[m]]
    /\ \E o \in {"messages", "failed"} : Ends(w, o)

-----------------------------------------------------------------------------
\* update, under the mutex.  The wrong one (for mutation) leaves a failure out.
CountUnlessFailed(o) ==
    counted' = IF o = "failed" THEN counted ELSE [counted EXCEPT ![o] = @ + 1]
Count(o) == counted' = [counted EXCEPT ![o] = @ + 1]

Update(w) ==
    /\ pc[w] = "counting"
    /\ Count(outcome[w])
    /\ Leaves(w)
    /\ UNCHANGED <<httpVars, selected, controlVars, written, stored>>

Fetch(w) == Exchange(w) /\ UNCHANGED <<summaryVars, controlVars, writerVars, stored>>

WriterStep(w) == WriteRow(w) \/ Commit(w) \/ UpsertFails(w)
WorkerStep(w) == Send(w) \/ Fetch(w) \/ Collected(w) \/ Update(w)

BackfillNext ==
    \/ Start \/ Cancel \/ StopSending \/ Finish \/ Crash
    \/ \E w \in Workers : WorkerStep(w)
    \/ \E a \in Audits : AuditCollected(a)
    \/ \E w \in Writers : WriterStep(w)

\* Goroutines run, requests time out, statements return, PostgreSQL serves those
\* who wait for a row in turn.  Nobody has to start, cancel or crash a command,
\* or an audit to come.
Fairness ==
    /\ WF_backfillVars(Finish)
    /\ \A w \in Workers : WF_backfillVars(WorkerStep(w))
    /\ \A w \in Writers : SF_backfillVars(WriteRow(w)) /\ WF_backfillVars(Commit(w))

BackfillSpec == BackfillInit /\ [][BackfillNext]_backfillVars /\ Fairness
-----------------------------------------------------------------------------
(* Properties. *)

\* The summary adds up: no selected deal is lost or counted twice between the
\* channel, the workers and the counters, failures and cancellations included.
SummaryAddsUp ==
    LET handled == Processed + Cardinality(Busy) + Cardinality(toSend) IN
    phase # "idle" => /\ handled <= selected
                      /\ ~stopped => handled = selected

\* A deal is counted with messages when all of them are stored, by whichever
\* deal's transaction.
CountedIsStored ==
    \A w \in Workers : pc[w] = "counting" /\ outcome[w] = "messages" =>
        \A m \in batch[w] : stored[m] # NoDeal

\* The message that w waits for is locked by v.
WaitsFor(w, v) == pc[w] = "writing" /\ v # w /\ NextRow(w) \cap written[v] # {}

\* Overlapping transactions that store messages of the same chats never wait for
\* each other in a circle.
UpsertsDoNotDeadlock ==
    ~ \E S \in (SUBSET Writers) \ {{}} : \A w \in S : \E v \in S : WaitsFor(w, v)

\* A command that runs comes to its end, canceled or not, whatever fails.
RunEnds == phase = "running" ~> phase # "running"
=============================================================================
