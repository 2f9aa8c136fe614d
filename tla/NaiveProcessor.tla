--------------------------- MODULE NaiveProcessor ---------------------------
(***************************************************************************)
(* The Race Lab's processor (processors/naive.py): it checks the claim,    *)
(* waits, debits, pays and only then writes the claim, unconditionally.    *)
(* The race invokes the workers directly with the copies of one payment,   *)
(* several at a time; Step Functions retries an invocation it could not    *)
(* hear back from, which is another receive of the same message here.      *)
(***************************************************************************)
EXTENDS Worker

CONSTANT MaxMishaps   \* bounds how often an invocation fails, is repeated, or
                      \* overlaps its repeat

ASSUME NaiveAssumption == MaxMishaps \in Nat

VARIABLES
    outcome,   \* the outcome a worker is about to record
    mishaps    \* how many are left

naiveVars == <<storeVars, queueVars, workerVars, outcome, mishaps>>

\* Nothing has gone wrong.
Calm == mishaps = MaxMishaps
Mishap == mishaps > 0 /\ mishaps' = mishaps - 1

Steps == {"CHECK_DELIVERY", "CHECK_CLAIM", "DEBIT", "PUT_EFFECT", "PUT_CLAIM", "RECORD"}

TypeOK ==
    /\ StoreTypeOK
    /\ QueueTypeOK
    /\ WorkerTypeOK(Steps)
    /\ outcome \in [Workers -> Outcomes \cup {NoRow}] /\ mishaps \in 0 .. MaxMishaps
    /\ \A w \in Workers : pc[w] = "RECORD" <=> outcome[w] # NoRow

\* Nobody has invoked a worker yet.
NaiveInit ==
    /\ StoreInit
    /\ QueueInit("UNSENT")
    /\ WorkerInit
    /\ outcome = [w \in Workers |-> NoRow]
    /\ mishaps = MaxMishaps

GoRecord(w, o) ==
    /\ Proceed(w, "RECORD")
    /\ outcome' = [outcome EXCEPT ![w] = o]

-----------------------------------------------------------------------------
(* process(), request by request                                           *)

Start(w) ==
    /\ \E m \in Messages : StartMessage(w, m, "CHECK_DELIVERY")
    /\ UNCHANGED outcome

CheckDelivery(w) ==
    /\ pc[w] = "CHECK_DELIVERY"
    /\ Proceed(w, IF IsDeliveryRecorded(Delivery(w)) THEN "ACK" ELSE "CHECK_CLAIM")
    /\ UNCHANGED <<storeVars, queueVars, outcome>>

Suppress(w) ==
    /\ pc[w] = "CHECK_CLAIM"
    /\ IsEntitlementClaimed(EntitlementOf[Delivery(w)])
    /\ GoRecord(w, "DUPLICATE_SUPPRESSED")
    /\ UNCHANGED <<storeVars, queueVars>>

\* Not claimed: sleep for the race window, then act on the old answer.
OpenWindow(w) ==
    /\ pc[w] = "CHECK_CLAIM"
    /\ ~IsEntitlementClaimed(EntitlementOf[Delivery(w)])
    /\ Proceed(w, "DEBIT")
    /\ UNCHANGED <<storeVars, queueVars, outcome>>

\* Mutation: the claim is written before the payment.
DebitThenClaim(w) ==
    /\ pc[w] = "DEBIT"
    /\ DebitBudget(Delivery(w))
    /\ Proceed(w, "PUT_CLAIM")
    /\ UNCHANGED <<queueVars, outcome>>

Debit(w) ==
    /\ pc[w] = "DEBIT"
    /\ DebitBudget(Delivery(w))
    /\ Proceed(w, "PUT_EFFECT")
    /\ UNCHANGED <<queueVars, outcome>>

\* The debit is applied, its answer is lost, and the SDK sends it again: three
\* attempts in all, of which one or two are lost.
DebitResent(w) ==
    /\ Mishap
    /\ pc[w] = "DEBIT"
    /\ \E lost \in 1 .. 2 :
          /\ budgetRemaining >= lost * AmountOf(Delivery(w))
          /\ budgetRemaining' = budgetRemaining - lost * AmountOf(Delivery(w))
    /\ UNCHANGED <<claim, effects, rows, deliveredCount, outcomeCount>>
    /\ UNCHANGED <<queueVars, workerVars, outcome>>

DebitRefused(w) ==
    /\ pc[w] = "DEBIT"
    /\ ~DebitAccepted(Delivery(w))
    /\ GoRecord(w, "BUDGET_EXHAUSTED")
    /\ UNCHANGED <<storeVars, queueVars>>

\* Mutation: a payment whose answer is lost is made again.
PayOnceOrTwice(w) ==
    /\ pc[w] = "PUT_EFFECT"
    /\ PutEffect(Delivery(w))
    /\ Proceed(w, "PUT_CLAIM") \/ UNCHANGED workerVars
    /\ UNCHANGED <<queueVars, outcome>>

Pay(w) ==
    /\ pc[w] = "PUT_EFFECT"
    /\ PutEffect(Delivery(w))
    /\ Proceed(w, "PUT_CLAIM")
    /\ UNCHANGED <<queueVars, outcome>>

\* Mutation: the claim is never written.
ClaimForgotten(w) ==
    /\ pc[w] = "PUT_CLAIM"
    /\ GoRecord(w, "COMMITTED")
    /\ UNCHANGED <<storeVars, queueVars>>

\* The claim records the payment; it does not prevent a concurrent one.
Claim(w) ==
    /\ pc[w] = "PUT_CLAIM"
    /\ PutClaimUnconditionally(Delivery(w))
    /\ GoRecord(w, "COMMITTED")
    /\ UNCHANGED queueVars

Record(w) ==
    /\ pc[w] = "RECORD"
    /\ RecordOutcome(Delivery(w), outcome[w])
    /\ Proceed(w, "ACK")
    /\ outcome' = [outcome EXCEPT ![w] = NoRow]
    /\ UNCHANGED queueVars

RecordedByAnother(w) ==
    /\ pc[w] = "RECORD"
    /\ IsDeliveryRecorded(Delivery(w))
    /\ Proceed(w, "ACK")
    /\ outcome' = [outcome EXCEPT ![w] = NoRow]
    /\ UNCHANGED <<storeVars, queueVars>>

-----------------------------------------------------------------------------

\* Contention on the two requests the retrier protects.
Conflict(w) ==
    /\ pc[w] \in {"DEBIT", "RECORD"}
    /\ \/ failures[w] + 1 < MaxAttempts /\ UNCHANGED mishaps
       \/ failures[w] + 1 = MaxAttempts /\ Mishap
    /\ RetryConflict(w)
    /\ outcome' = [outcome EXCEPT ![w] = IF pc'[w] = "IDLE" THEN NoRow ELSE @]

Finish(w) ==
    /\ FinishMessage(w)
    /\ UNCHANGED outcome

Interrupt(w) ==
    /\ Mishap
    /\ FailMessage(w)
    /\ outcome' = [outcome EXCEPT ![w] = NoRow]

Invoked(m) == \E w \in Workers : job[w] = m

\* The invoker is told that the service failed, and invokes again or gives the
\* copy up, while the invocation runs on.
Reinvoke(m) ==
    /\ Mishap
    /\ Invoked(m)
    /\ Reappear(m)
    /\ UNCHANGED <<storeVars, workerVars, outcome>>

\* An invocation ended in an error: Catch gives its copy up (CopyFailed), or
\* Retry makes another one, by what the error was.
NoAnswer(m) ==
    /\ queue[m] = "IN_FLIGHT" /\ ~Invoked(m)
    /\ \/ Reappear(m)
       \/ queue' = [queue EXCEPT ![m] = "DEAD"] /\ UNCHANGED <<receives, job>>
    /\ UNCHANGED <<storeVars, workerVars, outcome, mishaps>>

WorkerStep(w) ==
    \/ /\ \/ CheckDelivery(w)
          \/ Suppress(w) \/ OpenWindow(w)
          \/ Debit(w) \/ DebitRefused(w)
          \/ Pay(w) \/ Claim(w)
          \/ Record(w) \/ RecordedByAnother(w)
          \/ Finish(w)
       /\ UNCHANGED mishaps
    \/ DebitResent(w) \/ Conflict(w)

NaiveStep ==
    \/ \E w \in Workers : (Start(w) /\ UNCHANGED mishaps) \/ WorkerStep(w) \/ Interrupt(w)
    \/ \E m \in Messages : Reinvoke(m) \/ NoAnswer(m)

-----------------------------------------------------------------------------

\* A claim is never written before its payment, so a crash cannot strand a
\* claim whose student is not paid, and a suppressed copy lost to a payment.
ClaimMeansPaid ==
    /\ \A e \in Entitlements :
          claim[e] # NoClaim => EntitlementOf[claim[e]] = e /\ effects[claim[e]] > 0
    /\ \A d \in RowsWith("DUPLICATE_SUPPRESSED") :
          \E p \in PayingDeliveries : EntitlementOf[p] = EntitlementOf[d]

\* Only copies that overlap inside the window pay twice: the first claim stops
\* every later copy, so without failures there are at most as many payments of
\* an entitlement as there are workers (six in the Race Lab).  The claim alone
\* stops them: the race's budget pays for every copy, and refuses none.
OverpaymentBoundedByOverlap ==
    Calm =>
        \A e \in Entitlements :
            /\ Cardinality({d \in PayingDeliveries : EntitlementOf[d] = e})
                  <= Cardinality(Workers)
            /\ \A d \in PayingDeliveries : effects[d] = 1
            /\ RowsWith("BUDGET_EXHAUSTED") = {}
=============================================================================
