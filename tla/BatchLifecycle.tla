---------------------------- MODULE BatchLifecycle ----------------------------
(***************************************************************************)
(* What the audit queue promises a caller who only reads the two tables:   *)
(* the life of the rows of audit_batches and audit_batch_items, with no    *)
(* worker, lease or statement in sight.  BatchQueue implements it.         *)
(***************************************************************************)
EXTENDS Naturals

CONSTANTS Batches,  \* identifiers of audit_batches rows
          Deals     \* Bitrix deal identifiers

VARIABLES batch,    \* batch[b] : status of the batch, "NONE" before it exists
          item      \* item[i]  : status of the item, "NONE" before it exists

lifecycleVars == <<batch, item>>

\* UNIQUE (batch_id, bitrix_deal_id): an item is named by its batch and its deal.
Items == Batches \X Deals
BatchOf(i) == i[1]
ItemsOf(b) == {i \in Items : BatchOf(i) = b}

Verdicts      == {"COMPLETED", "PARTIAL", "FAILED"}
BatchStatuses == {"NONE", "PENDING", "RUNNING", "CANCELED"} \cup Verdicts
ItemStatuses  == {"NONE", "PENDING", "PROCESSING", "COMPLETED", "FAILED", "CANCELED"}

OpenStatuses   == {"PENDING", "RUNNING"}
ActiveStatuses == {"PENDING", "PROCESSING"}
Settlements    == {"COMPLETED", "FAILED", "CANCELED"}

\* The tally of finalizeBatch over the item statuses it sees.
Drained(b, view) == \A i \in ItemsOf(b) : view[i] \notin ActiveStatuses
Verdict(b, view) ==
    IF \A i \in ItemsOf(b) : view[i] # "FAILED" THEN "COMPLETED"
    ELSE IF \A i \in ItemsOf(b) : view[i] # "COMPLETED" THEN "FAILED"
    ELSE "PARTIAL"

-----------------------------------------------------------------------------
LifecycleInit ==
    /\ batch = [b \in Batches |-> "NONE"]
    /\ item  = [i \in Items |-> "NONE"]

\* A batch appears with all its items at once.
Open(b, ds) ==
    /\ batch[b] = "NONE"
    /\ ds # {}
    /\ batch' = [batch EXCEPT ![b] = "PENDING"]
    /\ item'  = [i \in Items |->
                    IF BatchOf(i) = b /\ i[2] \in ds THEN "PENDING" ELSE item[i]]

\* No item is handed to a worker once its batch has a verdict.  A cancel can
\* overtake the hand-over: the item then settles in a canceled batch.
Take(i) ==
    /\ item[i] = "PENDING"
    /\ batch[BatchOf(i)] \in OpenStatuses \cup {"CANCELED"}
    /\ item' = [item EXCEPT ![i] = "PROCESSING"]
    /\ UNCHANGED batch

MarkStarted(b) ==
    /\ batch[b] = "PENDING"
    /\ batch' = [batch EXCEPT ![b] = "RUNNING"]
    /\ UNCHANGED item

\* An item is settled from PROCESSING only, and once.  The same step may give
\* the batch its verdict, but only when no item is left and only the verdict
\* the items bear out.
Settle(i, out) ==
    /\ item[i] = "PROCESSING"
    /\ out = "CANCELED" => batch[BatchOf(i)] = "CANCELED"
    /\ item' = [item EXCEPT ![i] = out]
    /\ \/ UNCHANGED batch
       \/ /\ batch[BatchOf(i)] \in OpenStatuses
          /\ Drained(BatchOf(i), item')
          /\ batch' = [batch EXCEPT ![BatchOf(i)] = Verdict(BatchOf(i), item')]

\* Items in progress go back to the queue, or are dropped in a canceled batch.
Requeue(S) ==
    /\ \A i \in S : item[i] = "PROCESSING"
    /\ item' \in [Items -> ItemStatuses]
    /\ \A i \in Items :
          IF i \in S
          THEN \/ item'[i] = "PENDING"
               \/ item'[i] = "CANCELED" /\ batch[BatchOf(i)] = "CANCELED"
          ELSE item'[i] = item[i]
    /\ UNCHANGED batch

\* Canceling closes an open batch and drops items that were still waiting.
Cancel(b, S) ==
    /\ batch[b] \in OpenStatuses
    /\ S \subseteq {i \in ItemsOf(b) : item[i] = "PENDING"}
    /\ batch' = [batch EXCEPT ![b] = "CANCELED"]
    /\ item'  = [i \in Items |-> IF i \in S THEN "CANCELED" ELSE item[i]]

LifecycleNext ==
    \/ \E b \in Batches, ds \in SUBSET Deals : Open(b, ds)
    \/ \E i \in Items : Take(i)
    \/ \E b \in Batches : MarkStarted(b)
    \/ \E i \in Items, out \in Settlements : Settle(i, out)
    \/ \E S \in SUBSET Items : Requeue(S)
    \/ \E b \in Batches, S \in SUBSET Items : Cancel(b, S)

LifecycleSpec == LifecycleInit /\ [][LifecycleNext]_lifecycleVars
=============================================================================
