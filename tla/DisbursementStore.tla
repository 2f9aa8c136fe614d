-------------------------- MODULE DisbursementStore --------------------------
(***************************************************************************)
(* The DynamoDB adapter of the processors, for one run:                    *)
(* adapters/dynamodb/disbursement_store.py.                                *)
(*                                                                         *)
(* Four tables hold everything a worker can write.  Each operator that     *)
(* changes them is one DynamoDB request: it happens at one instant or not  *)
(* at all, and what a processor does between two requests is in its own    *)
(* module.  The module has no Init and no Next: the processors use it.     *)
(***************************************************************************)
EXTENDS Integers, FiniteSets

CONSTANTS
    Entitlements,       \* entitlement keys of the batch, one payment owed each
    Deliveries,         \* delivery ids, the sort keys of the Deliveries table
    EntitlementOf,      \* the entitlement a delivery asks to pay
    Amount,             \* amount_paise of an entitlement
    Budget,             \* total_budget_paise of the run
    NoClaim,            \* the idempotency table has no record for a key
    ReasonsMayBeMasked  \* may DynamoDB report a conflict on an item whose
                        \* condition also fails?  Its documentation does not say.

ASSUME StoreAssumption ==
    /\ IsFiniteSet(Entitlements)
    /\ IsFiniteSet(Deliveries)
    /\ EntitlementOf \in [Deliveries -> Entitlements]
    /\ Amount \in [Entitlements -> Nat \ {0}]
    /\ Budget \in Nat
    /\ NoClaim \notin Deliveries
    /\ ReasonsMayBeMasked \in BOOLEAN

VARIABLES
    claim,            \* Idempotency table: the delivery whose payment holds the key
    effects,          \* Ledger table: how many payments a delivery has made
    rows,             \* Deliveries table: the recorded outcome of a delivery
    budgetRemaining,  \* Runs item: budget_remaining_paise
    deliveredCount,   \* Runs item: delivered_count
    outcomeCount      \* Runs item: committed_count, suppressed_count, ...

storeVars ==
    <<claim, effects, rows, budgetRemaining, deliveredCount, outcomeCount>>

Outcomes == {"COMMITTED", "DUPLICATE_SUPPRESSED", "BUDGET_EXHAUSTED"}
NoRow == "NO_ROW"

StoreTypeOK ==
    /\ claim \in [Entitlements -> Deliveries \cup {NoClaim}]
    /\ effects \in [Deliveries -> Nat]
    /\ rows \in [Deliveries -> Outcomes \cup {NoRow}]
    /\ budgetRemaining \in Nat
    /\ deliveredCount \in Nat
    /\ outcomeCount \in [Outcomes -> Nat]

\* A run that has been started and has processed nothing.
StoreInit ==
    /\ claim = [e \in Entitlements |-> NoClaim]
    /\ effects = [d \in Deliveries |-> 0]
    /\ rows = [d \in Deliveries |-> NoRow]
    /\ budgetRemaining = Budget
    /\ deliveredCount = 0
    /\ outcomeCount = [o \in Outcomes |-> 0]

AmountOf(d) == Amount[EntitlementOf[d]]

IsDeliveryRecorded(d) == rows[d] # NoRow
IsEntitlementClaimed(e) == claim[e] # NoClaim
RecordedDeliveries == {d \in Deliveries : rows[d] # NoRow}
RowsWith(o) == {d \in Deliveries : rows[d] = o}
PayingDeliveries == {d \in Deliveries : effects[d] > 0}

\* The money that has left the run: one element for every paisa paid.
PaisePaid ==
    UNION {{d} \X (1 .. effects[d] * AmountOf(d)) : d \in Deliveries}
MoneyPaid == Cardinality(PaisePaid)

-----------------------------------------------------------------------------
(* Cancelled transactions                                                  *)

CommitItems == {"IDEMPOTENCY", "RUN_BUDGET", "LEDGER", "DELIVERY"}
RecordItems == {"DELIVERY", "RUN_COUNTER"}

\* The condition of an item of the commit transaction of delivery d.  The
\* ledger item has none, and the run exists in every state of the model.
CommitCondition(item, d) ==
    CASE item = "IDEMPOTENCY" -> ~IsEntitlementClaimed(EntitlementOf[d])
      [] item = "RUN_BUDGET"  -> budgetRemaining >= AmountOf(d)
      [] item = "DELIVERY"    -> ~IsDeliveryRecorded(d)
      [] item = "LEDGER"      -> TRUE

RecordCondition(item, d) ==
    item = "DELIVERY" => ~IsDeliveryRecorded(d)

\* What a cancelled transaction's reasons tell: the items reported as
\* ConditionalCheckFailed, and whether any item reports contention.  A failed
\* condition is reported as such, unless a conflict on its item masks it.
Cancellations(failing) ==
    {r \in [failed : SUBSET failing, contended : BOOLEAN] :
        r.failed # failing => ReasonsMayBeMasked /\ r.contended}

CommitCancellations(d) ==
    Cancellations({i \in CommitItems : ~CommitCondition(i, d)})

RecordCancellations(d) ==
    Cancellations({i \in RecordItems : ~RecordCondition(i, d)})

\* Mutations: the budget is looked at before the claim; a conflict is taken for
\* a duplicate; a conflict on the hot Runs item for a lack of money.
ClassifyBudgetFirst(r) ==
    IF "DELIVERY" \in r.failed THEN "DeliveryAlreadyRecorded"
    ELSE IF "RUN_BUDGET" \in r.failed THEN "InsufficientBudget"
    ELSE IF "IDEMPOTENCY" \in r.failed THEN "EntitlementAlreadyClaimed"
    ELSE "WriteConflict"
ClassifyConflictAsClaimed(r) ==
    IF "DELIVERY" \in r.failed THEN "DeliveryAlreadyRecorded"
    ELSE IF "RUN_BUDGET" \in r.failed /\ "IDEMPOTENCY" \notin r.failed
         THEN "InsufficientBudget"
    ELSE "EntitlementAlreadyClaimed"
ClassifyConflictAsBroke(r) ==
    IF "DELIVERY" \in r.failed THEN "DeliveryAlreadyRecorded"
    ELSE IF "IDEMPOTENCY" \in r.failed THEN "EntitlementAlreadyClaimed"
    ELSE "InsufficientBudget"

\* Exactly one typed outcome for a cancelled commit, in this precedence.
ClassifyCommitCancellation(r) ==
    IF "DELIVERY" \in r.failed THEN "DeliveryAlreadyRecorded"
    ELSE IF "IDEMPOTENCY" \in r.failed THEN "EntitlementAlreadyClaimed"
    ELSE IF "RUN_BUDGET" \in r.failed THEN "InsufficientBudget"
    ELSE IF r.contended THEN "WriteConflict"
    ELSE "UnexpectedCancellation"

ClassifyRecordCancellation(r) ==
    IF "DELIVERY" \in r.failed THEN "DeliveryAlreadyRecorded"
    ELSE IF r.contended THEN "WriteConflict"
    ELSE "UnexpectedCancellation"

-----------------------------------------------------------------------------
(* Requests that write                                                     *)

CountDelivery(o) ==
    /\ deliveredCount' = deliveredCount + 1
    /\ outcomeCount' = [outcomeCount EXCEPT ![o] = @ + 1]

\* Mutations of the commit: one of its conditions, or its debit, is missing.
CommitUnless(d, unchecked, debit) ==
    /\ \A i \in CommitItems \ unchecked : CommitCondition(i, d)
    /\ claim' = [claim EXCEPT ![EntitlementOf[d]] = d]
    /\ budgetRemaining' = budgetRemaining - debit
    /\ effects' = [effects EXCEPT ![d] = @ + 1]
    /\ rows' = [rows EXCEPT ![d] = "COMMITTED"]
    /\ CountDelivery("COMMITTED")
CommitWithoutClaimCheck(d) == CommitUnless(d, {"IDEMPOTENCY"}, AmountOf(d))
CommitWithoutBudgetCheck(d) == CommitUnless(d, {"RUN_BUDGET"}, AmountOf(d))
CommitWithoutDebit(d) == CommitUnless(d, {}, 0)

\* The four-item transaction of the protected processor.
CommitPayment(d) ==
    /\ \A i \in CommitItems : CommitCondition(i, d)
    /\ claim' = [claim EXCEPT ![EntitlementOf[d]] = d]
    /\ budgetRemaining' = budgetRemaining - AmountOf(d)
    /\ effects' = [effects EXCEPT ![d] = @ + 1]
    /\ rows' = [rows EXCEPT ![d] = "COMMITTED"]
    /\ CountDelivery("COMMITTED")

\* Mutation: the row is put without its condition.
RecordUnconditionally(d, o) ==
    /\ rows' = [rows EXCEPT ![d] = o]
    /\ CountDelivery(o)
    /\ UNCHANGED <<claim, effects, budgetRemaining>>

\* The two-item transaction every processor ends with.
RecordOutcome(d, o) ==
    /\ \A i \in RecordItems : RecordCondition(i, d)
    /\ rows' = [rows EXCEPT ![d] = o]
    /\ CountDelivery(o)
    /\ UNCHANGED <<claim, effects, budgetRemaining>>

\* The unsafe processors' single requests: debit, pay, claim.
DebitAccepted(d) == budgetRemaining >= AmountOf(d)

DebitBudget(d) ==
    /\ DebitAccepted(d)
    /\ budgetRemaining' = budgetRemaining - AmountOf(d)
    /\ UNCHANGED <<claim, effects, rows, deliveredCount, outcomeCount>>

PutEffect(d) ==
    /\ effects' = [effects EXCEPT ![d] = @ + 1]
    /\ UNCHANGED <<claim, rows, budgetRemaining, deliveredCount, outcomeCount>>

PutClaimUnconditionally(d) ==
    /\ claim' = [claim EXCEPT ![EntitlementOf[d]] = d]
    /\ UNCHANGED <<effects, rows, budgetRemaining, deliveredCount, outcomeCount>>
=============================================================================
