------------------------- MODULE VulnerableProcessor -------------------------
(***************************************************************************)
(* The deliberately unsafe processor (processors/vulnerable.py): check,    *)
(* debit, pay and record are four separate requests, and nothing asks      *)
(* whether the entitlement has been paid.                                  *)
(***************************************************************************)
EXTENDS Worker

CONSTANTS
    Faulty,     \* may invocations fail or overlap?  FALSE is the tested workload.
    MaxResends  \* how often the SDK repeats a debit whose answer was lost
                \* (three attempts in adapters/dynamodb/client.py)

ASSUME VulnerableAssumption == Faulty \in BOOLEAN /\ MaxResends \in Nat

VARIABLES
    outcome,  \* the outcome a worker is about to record
    resends   \* debits the SDK has repeated for the current message

vars == <<storeVars, queueVars, workerVars, outcome, resends>>

Steps == {"CHECK", "DEBIT", "PUT_EFFECT", "RECORD"}

TypeOK ==
    /\ StoreTypeOK
    /\ QueueTypeOK
    /\ WorkerTypeOK(Steps)
    /\ outcome \in [Workers -> {"COMMITTED", "BUDGET_EXHAUSTED", NoRow}]
    /\ resends \in [Workers -> 0 .. MaxResends]
    /\ \A w \in Workers : pc[w] = "RECORD" <=> outcome[w] # NoRow

ProcessorInit ==
    /\ WorkerInit
    /\ outcome = [w \in Workers |-> NoRow]
    /\ resends = [w \in Workers |-> 0]

Init == StoreInit /\ QueueInit("VISIBLE") /\ ProcessorInit

WillRecord(w, o) == outcome' = [outcome EXCEPT ![w] = o]
ForgetResends(w) == resends' = [resends EXCEPT ![w] = 0]

-----------------------------------------------------------------------------
(* process(), request by request                                           *)

Start(w) ==
    /\ \E m \in Messages : StartMessage(w, m, "CHECK")
    /\ UNCHANGED <<outcome, resends>>

\* Step 1: is this very delivery recorded?
Check(w) ==
    /\ pc[w] = "CHECK"
    /\ Proceed(w, IF IsDeliveryRecorded(Delivery(w)) THEN "ACK" ELSE "DEBIT")
    /\ UNCHANGED <<storeVars, queueVars, outcome, resends>>

\* Step 2: the conditional debit.
Debit(w) ==
    /\ pc[w] = "DEBIT"
    /\ DebitBudget(Delivery(w))
    /\ Proceed(w, "PUT_EFFECT")
    /\ ForgetResends(w)
    /\ UNCHANGED <<queueVars, outcome>>

\* The debit is applied but its answer is lost, and the SDK sends the update,
\* which carries no token, again.
DebitResent(w) ==
    /\ Faulty
    /\ pc[w] = "DEBIT"
    /\ resends[w] < MaxResends
    /\ DebitBudget(Delivery(w))
    /\ resends' = [resends EXCEPT ![w] = @ + 1]
    /\ UNCHANGED <<queueVars, workerVars, outcome>>

DebitRefused(w) ==
    /\ pc[w] = "DEBIT"
    /\ ~DebitAccepted(Delivery(w))
    /\ Proceed(w, "RECORD")
    /\ WillRecord(w, "BUDGET_EXHAUSTED")
    /\ ForgetResends(w)
    /\ UNCHANGED <<storeVars, queueVars>>

\* Mutation: a payment whose answer is lost is made again.
PayOnceOrTwice(w) ==
    /\ pc[w] = "PUT_EFFECT"
    /\ PutEffect(Delivery(w))
    /\ \/ Proceed(w, "RECORD") /\ WillRecord(w, "COMMITTED")
       \/ UNCHANGED <<workerVars, outcome>>
    /\ UNCHANGED <<queueVars, resends>>

\* Step 3: the payment, in a request of its own that no retrier protects.
Pay(w) ==
    /\ pc[w] = "PUT_EFFECT"
    /\ PutEffect(Delivery(w))
    /\ Proceed(w, "RECORD")
    /\ WillRecord(w, "COMMITTED")
    /\ UNCHANGED <<queueVars, resends>>

\* Step 4: the row and the count.
Record(w) ==
    /\ pc[w] = "RECORD"
    /\ RecordOutcome(Delivery(w), outcome[w])
    /\ Proceed(w, "ACK")
    /\ WillRecord(w, NoRow)
    /\ UNCHANGED <<queueVars, resends>>

\* A concurrent copy of this delivery recorded it first.  This one's debit and
\* payment have happened.
RecordedByAnother(w) ==
    /\ pc[w] = "RECORD"
    /\ IsDeliveryRecorded(Delivery(w))
    /\ Proceed(w, "ACK")
    /\ WillRecord(w, NoRow)
    /\ UNCHANGED <<storeVars, queueVars, resends>>

-----------------------------------------------------------------------------

\* Contention on the two requests the retrier protects.
Conflict(w) ==
    /\ pc[w] \in {"DEBIT", "RECORD"}
    /\ Faulty \/ failures[w] + 1 < MaxAttempts
    /\ RetryConflict(w)
    /\ outcome' = [outcome EXCEPT ![w] = IF pc'[w] = "IDLE" THEN NoRow ELSE @]
    /\ ForgetResends(w)

Finish(w) ==
    /\ FinishMessage(w)
    /\ UNCHANGED <<outcome, resends>>

\* A crash, a timeout, or a conflict on the unprotected payment.
Interrupt(w) ==
    /\ Faulty
    /\ FailMessage(w)
    /\ WillRecord(w, NoRow)
    /\ ForgetResends(w)

VisibilityTimeout(m) ==
    /\ Faulty
    /\ Reappear(m)
    /\ UNCHANGED <<storeVars, workerVars, outcome, resends>>

WorkerStep(w) ==
    \/ Check(w)
    \/ Debit(w) \/ DebitResent(w) \/ DebitRefused(w)
    \/ Pay(w)
    \/ Record(w) \/ RecordedByAnother(w)
    \/ Conflict(w) \/ Finish(w)

ProcessorNext ==
    \/ \E w \in Workers : Start(w) \/ WorkerStep(w) \/ Interrupt(w)
    \/ \E m \in Messages : VisibilityTimeout(m)

Quiescent ==
    /\ \A m \in Messages : queue[m] \in {"DELETED", "DEAD"}
    /\ \A w \in Workers : Idle(w)

Next == ProcessorNext \/ (Quiescent /\ UNCHANGED vars)

Spec == Init /\ [][Next]_vars

-----------------------------------------------------------------------------
(* What holds even of the unsafe processor                                 *)

\* The evaluator may trust the books even of the unsafe processor, however
\* often deliveries are repeated, resent or interrupted.  Every payment spends a
\* debit of its own, so the run never pays more than its budget; a row that
\* says COMMITTED has a payment, although separate requests write the two; and
\* the counters are exact, for the row and its count are one transaction.
BooksBalance ==
    /\ TypeOK
    /\ MoneyPaid + Cardinality(PaiseInHand) + budgetRemaining <= Budget
    /\ \A d \in RowsWith("COMMITTED") : effects[d] > 0
    /\ deliveredCount = Cardinality(RecordedDeliveries)
    /\ \A o \in Outcomes : outcomeCount[o] = Cardinality(RowsWith(o))

\* A payment without a row is work in progress: its worker is about to record
\* it, or its message is still to be redelivered or was dead-lettered.  A
\* payment the run never hears of again would make the receipt wrong.
NoForgottenPayment ==
    \A d \in PayingDeliveries :
        \/ IsDeliveryRecorded(d)
        \/ \E m \in Messages : DeliveryOf[m] = d /\ queue[m] # "DELETED"

-----------------------------------------------------------------------------
(* What the documents say of it, and the code does not do                  *)

\* README.md and ADR 0004: a message of the same delivery sent again is
\* absorbed like an SQS redelivery and cannot inflate the counts.
ResentDeliveriesAreAbsorbed == \A d \in Deliveries : effects[d] <= 1

\* domain/student_state.py: payments and refusals of an entitlement.
PaymentsOf(e) == {d \in Deliveries : EntitlementOf[d] = e /\ effects[d] > 0}
RejectedForBudget(e) ==
    \E d \in RowsWith("BUDGET_EXHAUSTED") : EntitlementOf[d] = e
ShownUnpaid(e) == PaymentsOf(e) = {} /\ RejectedForBudget(e)

\* domain/student_state.py: "unpaid" is only shown when it is certain, because
\* no other delivery can pay the entitlement later in the experiment.
UnpaidIsCertain ==
    [][\A e \in Entitlements : ShownUnpaid(e) => ShownUnpaid(e)']_vars
=============================================================================
