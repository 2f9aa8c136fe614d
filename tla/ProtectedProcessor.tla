------------------------- MODULE ProtectedProcessor -------------------------
(***************************************************************************)
(* The safe processor (processors/protected.py): one conditional           *)
(* transaction pays, and a delivery that may not pay is recorded by a      *)
(* second one.  Any number of workers run it on one run's deliveries.      *)
(***************************************************************************)
EXTENDS Worker

VARIABLE refusal   \* the outcome a worker is about to record instead of paying

vars == <<storeVars, queueVars, workerVars, refusal>>

Steps == {"COMMIT", "RECORD"}

TypeOK ==
    /\ StoreTypeOK
    /\ QueueTypeOK
    /\ WorkerTypeOK(Steps)
    /\ refusal \in
         [Workers -> {"DUPLICATE_SUPPRESSED", "BUDGET_EXHAUSTED", NoRow}]
    /\ \A w \in Workers : pc[w] = "RECORD" <=> refusal[w] # NoRow

ProcessorInit == WorkerInit /\ refusal = [w \in Workers |-> NoRow]

\* Every message is in the queue, in no order.
Init == StoreInit /\ QueueInit("VISIBLE") /\ ProcessorInit

-----------------------------------------------------------------------------
(* process(): the commit                                                   *)

Start(w) ==
    /\ \E m \in Messages : StartMessage(w, m, "COMMIT")
    /\ UNCHANGED refusal

Commit(w) ==
    /\ pc[w] = "COMMIT"
    /\ CommitPayment(Delivery(w))
    /\ Proceed(w, "ACK")
    /\ UNCHANGED <<queueVars, refusal>>

CommitCancelledAs(w, exception) ==
    /\ pc[w] = "COMMIT"
    /\ \E r \in CommitCancellations(Delivery(w)) :
          ClassifyCommitCancellation(r) = exception

\* A redelivery of what is already recorded: acknowledge, write nothing.
AlreadyProcessed(w) ==
    /\ CommitCancelledAs(w, "DeliveryAlreadyRecorded")
    /\ Proceed(w, "ACK")
    /\ UNCHANGED <<storeVars, queueVars, refusal>>

RefuseAs(w, outcome) ==
    /\ Proceed(w, "RECORD")
    /\ refusal' = [refusal EXCEPT ![w] = outcome]
    /\ UNCHANGED <<storeVars, queueVars>>

Suppress(w) ==
    /\ CommitCancelledAs(w, "EntitlementAlreadyClaimed")
    /\ RefuseAs(w, "DUPLICATE_SUPPRESSED")

\* Mutation: an unaffordable delivery is recorded as a duplicate.
ExhaustAsDuplicate(w) ==
    /\ CommitCancelledAs(w, "InsufficientBudget")
    /\ RefuseAs(w, "DUPLICATE_SUPPRESSED")

Exhaust(w) ==
    /\ CommitCancelledAs(w, "InsufficientBudget")
    /\ RefuseAs(w, "BUDGET_EXHAUSTED")

-----------------------------------------------------------------------------
(* _record(): the second transaction                                       *)

Record(w) ==
    /\ pc[w] = "RECORD"
    /\ RecordOutcome(Delivery(w), refusal[w])
    /\ Proceed(w, "ACK")
    /\ refusal' = [refusal EXCEPT ![w] = NoRow]
    /\ UNCHANGED queueVars

\* A concurrent copy of this same delivery recorded it first.
RecordedByAnother(w) ==
    /\ pc[w] = "RECORD"
    /\ \E r \in RecordCancellations(Delivery(w)) :
          ClassifyRecordCancellation(r) = "DeliveryAlreadyRecorded"
    /\ Proceed(w, "ACK")
    /\ refusal' = [refusal EXCEPT ![w] = NoRow]
    /\ UNCHANGED <<storeVars, queueVars>>

-----------------------------------------------------------------------------
(* Both transactions                                                       *)

\* A conflict or throttling of either transaction, in any state of the tables.
Conflict(w) ==
    /\ pc[w] \in Steps
    /\ RetryConflict(w)
    /\ refusal' = [refusal EXCEPT ![w] = IF pc'[w] = "IDLE" THEN NoRow ELSE @]

Finish(w) ==
    /\ FinishMessage(w)
    /\ UNCHANGED refusal

\* UnexpectedCancellation, any other exception, a timeout, a crash: between
\* any two requests, and between the last one and the deletion.
Interrupt(w) ==
    /\ FailMessage(w)
    /\ refusal' = [refusal EXCEPT ![w] = NoRow]

VisibilityTimeout(m) ==
    /\ Reappear(m)
    /\ UNCHANGED <<storeVars, workerVars, refusal>>

WorkerStep(w) ==
    \/ Commit(w) \/ AlreadyProcessed(w) \/ Suppress(w) \/ Exhaust(w)
    \/ Record(w) \/ RecordedByAnother(w)
    \/ Conflict(w) \/ Finish(w)

ProcessorNext ==
    \/ \E w \in Workers : Start(w) \/ WorkerStep(w) \/ Interrupt(w)
    \/ \E m \in Messages : VisibilityTimeout(m)

\* Every message has been deleted or dead-lettered and no invocation runs.
Quiescent ==
    /\ \A m \in Messages : queue[m] \in {"DELETED", "DEAD"}
    /\ \A w \in Workers : Idle(w)

Terminating == Quiescent /\ UNCHANGED vars

Next == ProcessorNext \/ Terminating

Spec == Init /\ [][Next]_vars

\* Lambda polls the queue, a running invocation makes progress (its retries
\* are bounded), and a visibility timeout ends.
Fairness ==
    /\ \A w \in Workers : WF_vars(Start(w)) /\ WF_vars(WorkerStep(w))
    /\ \A m \in Messages : WF_vars(VisibilityTimeout(m))

FairSpec == Spec /\ Fairness

-----------------------------------------------------------------------------
(* Safety                                                                  *)

\* No entitlement is paid twice, whatever is redelivered, retried or crashes:
\* one effect per paying delivery and one paying delivery per entitlement.
AtMostOnePayment ==
    /\ \A d \in Deliveries : effects[d] <= 1
    /\ \A d1, d2 \in PayingDeliveries :
          EntitlementOf[d1] = EntitlementOf[d2] => d1 = d2

\* The budget that is gone is exactly the money in the ledger: no debit
\* without a payment and no payment without a debit, crashes included.
MoneyConserved == budgetRemaining + MoneyPaid = Budget

\* The live counters, which decide the drain of a phase, count the rows: a
\* redelivered or retried delivery is never counted twice.
CountersMatchRows ==
    /\ deliveredCount = Cardinality(RecordedDeliveries)
    /\ \A o \in Outcomes : outcomeCount[o] = Cardinality(RowsWith(o))

\* The three tables tell one story: a claim, its payment and its COMMITTED row
\* name the same delivery, and a suppressed delivery had a payment to lose to.
TablesAgree ==
    /\ \A d \in Deliveries :
          /\ effects[d] = 1 <=> rows[d] = "COMMITTED"
          /\ effects[d] = 1 <=> claim[EntitlementOf[d]] = d
          /\ rows[d] = "DUPLICATE_SUPPRESSED" => claim[EntitlementOf[d]] # NoClaim
    /\ \A e \in Entitlements : claim[e] # NoClaim => EntitlementOf[claim[e]] = e

\* A delivery recorded as BUDGET_EXHAUSTED asked for an entitlement nobody has
\* paid and the run can no longer afford.  The precedence of the cancellation
\* reasons, and a refusal recorded one request after it was decided, both
\* matter here.  A masked reason breaks the first half.
RefusedMeansUnpaid ==
    \A d \in RowsWith("BUDGET_EXHAUSTED") :
        /\ budgetRemaining < AmountOf(d)
        /\ ~ReasonsMayBeMasked => claim[EntitlementOf[d]] = NoClaim

\* What the run would cost if every entitlement were paid once.
PaiseOwed == UNION {{e} \X (1 .. Amount[e]) : e \in Entitlements}
Funded == Budget >= Cardinality(PaiseOwed)

\* A run whose budget covers every entitlement once never refuses a delivery
\* for lack of money, not even a duplicate that comes when all is spent.  (One
\* whose claim is masked may be.)  Everyone who was heard of has been paid.
FundedRunPaysEveryone ==
    Funded =>
        /\ ~ReasonsMayBeMasked => RowsWith("BUDGET_EXHAUSTED") = {}
        /\ \A d \in RecordedDeliveries : claim[EntitlementOf[d]] # NoClaim

\* A message leaves the queue for good, without the dead-letter queue, only
\* when the outcome of its delivery is recorded.
DeletedMeansRecorded ==
    \A m \in Messages : queue[m] = "DELETED" => IsDeliveryRecorded(DeliveryOf[m])

\* A decision taken by one request still holds when a later request acts on it,
\* whatever the other workers did in between: a refusal about to be recorded is
\* still right, and a message about to be deleted is still recorded.
DecisionHolds(w) ==
    /\ refusal[w] = "DUPLICATE_SUPPRESSED" =>
          claim[EntitlementOf[Delivery(w)]] # NoClaim
    /\ refusal[w] = "BUDGET_EXHAUSTED" =>
          /\ budgetRemaining < AmountOf(Delivery(w))
          /\ ~ReasonsMayBeMasked => claim[EntitlementOf[Delivery(w)]] = NoClaim
    /\ pc[w] = "ACK" => IsDeliveryRecorded(Delivery(w))

PendingDecisionsHold == \A w \in Workers : DecisionHolds(w)

\* What the tables say of a delivery never changes again, so two evaluations
\* that see all the rows see the same ones.
RecordsAreFinal ==
    [][/\ \A d \in Deliveries :
             rows[d] # NoRow => rows'[d] = rows[d] /\ effects'[d] = effects[d]
       /\ \A e \in Entitlements :
             claim[e] # NoClaim => claim'[e] = claim[e]]_vars

-----------------------------------------------------------------------------
(* Liveness                                                                *)

\* Every delivery is eventually recorded, unless every message that carries it
\* has used up its receives and is in the dead-letter queue.
EveryDeliverySettled ==
    <>(\A d \in Deliveries :
          \/ IsDeliveryRecorded(d)
          \/ \A m \in Messages : DeliveryOf[m] = d => queue[m] = "DEAD")

\* The implementation pays, suppresses and refuses as the contract does.
Contract == INSTANCE PaymentContract WITH
                payer <- claim, outcome <- rows, fund <- budgetRemaining
ContractSpec == Contract!Spec
=============================================================================
