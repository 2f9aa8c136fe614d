-------------------------- MODULE VulnerableProofs --------------------------
(***************************************************************************)
(* Proofs about the unsafe processor, for every value of the constants:    *)
(* what its four separate requests keep true however invocations overlap,  *)
(* die, are repeated or have their debits resent, and what a whole run of  *)
(* the demo's workload comes to.                                           *)
(***************************************************************************)
EXTENDS VulnerableRun, WorkflowProofs

CommittedMeansPaid == \A d \in RowsWith("COMMITTED") : effects[d] > 0

CountersMatchRows ==
    /\ deliveredCount = Cardinality(RecordedDeliveries)
    /\ \A o \in Outcomes : outcomeCount[o] = Cardinality(RowsWith(o))

\* What a worker will write, or has written, is true of the tables.
DecisionHolds(w) ==
    /\ outcome[w] = "COMMITTED" => effects[Delivery(w)] > 0
    /\ pc[w] = "ACK" => IsDeliveryRecorded(Delivery(w))

PendingDecisionsHold == \A w \in Workers : DecisionHolds(w)

\* The rows keep what the message queue forgets.
DeletedMeansRecorded ==
    \A m \in Messages : queue[m] = "DELETED" => IsDeliveryRecorded(DeliveryOf[m])

PaymentsWereAskedFor ==
    \A d \in PayingDeliveries : \E m \in Messages : DeliveryOf[m] = d

IInv ==
    /\ TypeOK
    /\ MoneyCovered
    /\ CommittedMeansPaid
    /\ CountersMatchRows
    /\ PendingDecisionsHold
    /\ DeletedMeansRecorded
    /\ PaymentsWereAskedFor

-----------------------------------------------------------------------------
(* Types                                                                   *)

\* Type correctness is inductive by itself: a debit, resent or not, never takes
\* the budget below zero.
LEMMA TypePreserved == TypeOK /\ [Next]_vars => TypeOK'
<1> SUFFICES ASSUME TypeOK, [Next]_vars PROVE TypeOK'
  OBVIOUS
<1> USE StoreAssumption, VulnerableAssumption
<1>0. StoreTypeOK /\ QueueTypeOK /\ WorkerTypeOK(Steps)
  BY DEF TypeOK
<1>a. UNCHANGED storeVars => StoreTypeOK'
  BY <1>0 DEF StoreTypeOK, storeVars
<1>b. "CHECK" \in Steps /\ "IDLE" \notin Steps
  BY DEF Steps
<1>c. ASSUME NEW w \in Workers, pc[w] # "IDLE", NEW s \in Steps \cup {"ACK"},
             Proceed(w, s), UNCHANGED queueVars
      PROVE  QueueTypeOK' /\ WorkerTypeOK(Steps)' /\ pc' = [pc EXCEPT ![w] = s]
  BY <1>0, <1>b, <1>c, ProceedTypes DEF Proceed
<1>d. ASSUME NEW w \in Workers, pc[w] # "IDLE"
      PROVE  Delivery(w) \in Deliveries /\ AmountOf(Delivery(w)) \in Nat
  <2>1. Delivery(w) \in Deliveries
    BY <1>0, <1>d, BusyWorker
  <2> QED BY <2>1 DEF AmountOf
<1>e. ASSUME NEW w \in Workers, pc[w] = "DEBIT", DebitBudget(Delivery(w))
      PROVE  StoreTypeOK'
  <2>1. AmountOf(Delivery(w)) \in Nat
    BY <1>d, <1>e
  <2> QED BY <1>0, <1>e, <2>1 DEF DebitBudget, DebitAccepted, StoreTypeOK
<1>1. ASSUME NEW w \in Workers, Start(w) PROVE TypeOK'
  <2>1. PICK m \in Messages : StartMessage(w, m, "CHECK")
    BY <1>1 DEF Start
  <2>2. QueueTypeOK' /\ WorkerTypeOK(Steps)' /\ pc[w] = "IDLE"
    BY <1>0, <1>b, <2>1, StartTypes
  <2>3. UNCHANGED <<storeVars, outcome, resends>> /\ pc' = [pc EXCEPT ![w] = "CHECK"]
    BY <1>1, <2>1 DEF Start, StartMessage, Proceed
  <2> QED BY <1>0, <1>a, <2>2, <2>3 DEF TypeOK, WorkerTypeOK
<1>2. ASSUME NEW w \in Workers, Check(w) PROVE TypeOK'
  <2>1. PICK s \in {"ACK", "DEBIT"} : Proceed(w, s)
    BY <1>2 DEF Check
  <2>2. QueueTypeOK' /\ WorkerTypeOK(Steps)' /\ pc' = [pc EXCEPT ![w] = s]
    BY <1>2, <1>c, <2>1 DEF Check, Steps
  <2> QED BY <1>0, <1>a, <1>2, <2>2 DEF TypeOK, Check, WorkerTypeOK
<1>3. ASSUME NEW w \in Workers, Debit(w) PROVE TypeOK'
  <2>1. QueueTypeOK' /\ WorkerTypeOK(Steps)' /\ pc' = [pc EXCEPT ![w] = "PUT_EFFECT"]
    BY <1>3, <1>c DEF Debit, Steps
  <2>2. StoreTypeOK'
    BY <1>e, <1>3 DEF Debit
  <2> QED BY <1>0, <1>3, <2>1, <2>2 DEF TypeOK, Debit, ForgetResends, WorkerTypeOK
<1>4. ASSUME NEW w \in Workers, DebitResent(w) PROVE TypeOK'
  <2>1. StoreTypeOK'
    BY <1>e, <1>4 DEF DebitResent
  <2>2. QueueTypeOK' /\ WorkerTypeOK(Steps)'
    BY <1>0, <1>4 DEF DebitResent, queueVars, workerVars, QueueTypeOK, WorkerTypeOK, Idle
  <2> QED BY <1>4, <2>1, <2>2 DEF TypeOK, DebitResent, workerVars
<1>5. ASSUME NEW w \in Workers, DebitRefused(w) PROVE TypeOK'
  <2>1. QueueTypeOK' /\ WorkerTypeOK(Steps)' /\ pc' = [pc EXCEPT ![w] = "RECORD"]
    BY <1>5, <1>c DEF DebitRefused, Steps
  <2> QED BY <1>0, <1>a, <1>5, <2>1
      DEF TypeOK, DebitRefused, WillRecord, ForgetResends, WorkerTypeOK, NoRow
<1>6. ASSUME NEW w \in Workers, Pay(w) PROVE TypeOK'
  <2>1. QueueTypeOK' /\ WorkerTypeOK(Steps)' /\ pc' = [pc EXCEPT ![w] = "RECORD"]
    BY <1>6, <1>c DEF Pay, Steps
  <2>2. StoreTypeOK'
    BY <1>0, <1>6, <1>d DEF Pay, PutEffect, StoreTypeOK
  <2> QED BY <1>0, <1>6, <2>1, <2>2 DEF TypeOK, Pay, WillRecord, WorkerTypeOK, NoRow
<1>7. ASSUME NEW w \in Workers, Record(w) PROVE TypeOK'
  <2>1. QueueTypeOK' /\ WorkerTypeOK(Steps)' /\ pc' = [pc EXCEPT ![w] = "ACK"]
    BY <1>7, <1>c DEF Record
  <2>2. outcome[w] \in Outcomes /\ pc[w] = "RECORD"
    BY <1>7 DEF Record, TypeOK, Outcomes
  <2>3. StoreTypeOK'
    BY <1>0, <1>7, <1>d, <2>2 DEF Record, RecordOutcome, StoreTypeOK, CountDelivery
  <2> QED BY <1>0, <1>7, <2>1, <2>3 DEF TypeOK, Record, WillRecord, WorkerTypeOK
<1>8. ASSUME NEW w \in Workers, RecordedByAnother(w) PROVE TypeOK'
  <2>1. QueueTypeOK' /\ WorkerTypeOK(Steps)' /\ pc' = [pc EXCEPT ![w] = "ACK"]
    BY <1>8, <1>c DEF RecordedByAnother
  <2> QED BY <1>0, <1>a, <1>8, <2>1 DEF TypeOK, RecordedByAnother, WillRecord, WorkerTypeOK
<1>9. ASSUME NEW w \in Workers, FailMessage(w), WillRecord(w, NoRow), ForgetResends(w)
      PROVE  TypeOK'
  <2>1. QueueTypeOK' /\ WorkerTypeOK(Steps)'
    BY <1>0, <1>9, FailTypes
  <2> QED BY <1>a, <1>9, <2>1
      DEF TypeOK, FailMessage, Proceed, WillRecord, ForgetResends, WorkerTypeOK
<1>10. ASSUME NEW w \in Workers, Conflict(w) PROVE TypeOK'
  <2>1. CASE failures[w] + 1 < MaxAttempts
    <3>1. /\ failures' = [failures EXCEPT ![w] = @ + 1]
          /\ UNCHANGED <<pc, queueVars>>
          /\ UNCHANGED storeVars
          /\ pc'[w] # "IDLE"
      BY <1>10, <2>1 DEF Conflict, RetryConflict
    <3>2. outcome' = outcome
      BY <1>10, <3>1 DEF Conflict, TypeOK
    <3>3. QueueTypeOK' /\ WorkerTypeOK(Steps)'
      BY <1>0, <2>1, <3>1, RetryTypes
    <3> QED BY <1>a, <1>10, <3>1, <3>2, <3>3 DEF TypeOK, Conflict, ForgetResends
  <2>2. CASE ~(failures[w] + 1 < MaxAttempts)
    <3>1. FailMessage(w)
      BY <1>10, <2>2 DEF Conflict, RetryConflict
    <3>2. pc'[w] = "IDLE"
      BY <1>0, <3>1, FailTypes
    <3>3. WillRecord(w, NoRow) /\ ForgetResends(w)
      BY <1>10, <3>2 DEF Conflict, WillRecord
    <3> QED BY <1>9, <3>1, <3>3
  <2> QED BY <2>1, <2>2
<1>11. ASSUME NEW w \in Workers, Finish(w) PROVE TypeOK'
  <2>1. QueueTypeOK' /\ WorkerTypeOK(Steps)'
    BY <1>0, <1>11, FinishTypes DEF Finish
  <2> QED BY <1>a, <1>11, <2>1 DEF TypeOK, Finish, FinishMessage, Proceed, WorkerTypeOK
<1>12. ASSUME NEW m \in Messages, VisibilityTimeout(m) PROVE TypeOK'
  <2>1. QueueTypeOK' /\ WorkerTypeOK(Steps)'
    BY <1>0, <1>12, ReappearTypes DEF VisibilityTimeout
  <2> QED BY <1>a, <1>12, <2>1 DEF TypeOK, VisibilityTimeout, workerVars
<1>13. CASE UNCHANGED vars
  <2>1. QueueTypeOK' /\ WorkerTypeOK(Steps)'
    BY <1>0, <1>13 DEF vars, queueVars, workerVars, QueueTypeOK, WorkerTypeOK, Idle
  <2> QED BY <1>a, <1>13, <2>1 DEF TypeOK, vars, workerVars
<1>14. ASSUME NEW w \in Workers, Interrupt(w) PROVE TypeOK'
  BY <1>9, <1>14 DEF Interrupt
<1> QED BY <1>1, <1>2, <1>3, <1>4, <1>5, <1>6, <1>7, <1>8, <1>10, <1>11, <1>12, <1>13, <1>14
    DEF Next, ProcessorNext, WorkerStep

-----------------------------------------------------------------------------
(* The inductive invariant                                                 *)

\* The tables only move forward: rows stay, and payments are never undone.
MovesForward ==
    \A d \in Deliveries :
        /\ rows[d] # NoRow => rows'[d] = rows[d]
        /\ effects[d] > 0 => effects'[d] > 0

\* A decision of another worker survives them.
LEMMA DecisionSurvives ==
  ASSUME TypeOK, MovesForward, NEW w \in Workers, DecisionHolds(w),
         job'[w] = job[w], pc'[w] = pc[w], outcome'[w] = outcome[w]
  PROVE  DecisionHolds(w)'
<1>1. CASE pc[w] = "IDLE"
  BY <1>1 DEF TypeOK, DecisionHolds, NoRow
<1>2. CASE pc[w] # "IDLE"
  <2>1. Delivery(w) \in Deliveries
    BY <1>2, BusyWorker DEF TypeOK
  <2>2. Delivery(w)' = Delivery(w)
    BY DEF Delivery
  <2> QED BY <2>1, <2>2 DEF DecisionHolds, MovesForward, IsDeliveryRecorded
<1> QED BY <1>1, <1>2

\* What a step must show of the queue: it forgets only what is recorded.
ForgetsOnlyRecorded ==
    \A m \in Messages :
        queue'[m] = "DELETED" =>
            queue[m] = "DELETED" \/ IsDeliveryRecorded(DeliveryOf[m])'

\* What a step of one worker that writes must show.
LEMMA WritingStepKeepsInv ==
  ASSUME IInv, TypeOK', NEW w \in Workers,
         \A v \in Workers \ {w} :
            job'[v] = job[v] /\ pc'[v] = pc[v] /\ outcome'[v] = outcome[v],
         MovesForward,
         MoneyPaid' \in Nat,
         MoneyPaid' + HeldBy(w)' + budgetRemaining'
            <= MoneyPaid + HeldBy(w) + budgetRemaining,
         CommittedMeansPaid', CountersMatchRows', DecisionHolds(w)',
         ForgetsOnlyRecorded,
         \A d \in Deliveries :
            effects'[d] > 0 => effects[d] > 0 \/ \E m \in Messages : DeliveryOf[m] = d
  PROVE  IInv'
<1>1. MoneyCovered'
  <2>1. HeldBy(w) \in Nat /\ HeldBy(w)' \in Nat
    BY HeldIsMoney, HeldStaysMoney DEF IInv, TypeOK
  <2>2. StoreTypeOK /\ budgetRemaining' \in Nat /\ MoneyCovered
    BY DEF IInv, TypeOK, StoreTypeOK
  <2> QED BY <2>1, <2>2, MoneyFlows
<1>2. PendingDecisionsHold'
  <2>1. ASSUME NEW v \in Workers, v # w PROVE DecisionHolds(v)'
    BY <2>1, DecisionSurvives DEF IInv, PendingDecisionsHold
  <2> QED BY <2>1 DEF PendingDecisionsHold
<1>3. DeletedMeansRecorded'
  BY WorkerAssumption
     DEF IInv, DeletedMeansRecorded, MovesForward, IsDeliveryRecorded, ForgetsOnlyRecorded
<1>4. PaymentsWereAskedFor'
  BY DEF IInv, PaymentsWereAskedFor, PayingDeliveries
<1> QED BY <1>1, <1>2, <1>3, <1>4 DEF IInv

\* A step that writes nothing keeps what is true of the tables alone.
LEMMA TablesUnchanged ==
  ASSUME IInv, UNCHANGED storeVars
  PROVE  /\ MovesForward
         /\ MoneyPaid' = MoneyPaid /\ MoneyPaid' \in Nat
         /\ CommittedMeansPaid' /\ CountersMatchRows'
<1>1. MoneyPaid' = MoneyPaid /\ MoneyPaid' \in Nat
  BY NoPayment DEF IInv, TypeOK, storeVars
<1>2. MovesForward
  BY DEF storeVars, MovesForward
<1>3. RecordedDeliveries' = RecordedDeliveries
      /\ \A o \in Outcomes \cup {"COMMITTED"} : RowsWith(o)' = RowsWith(o)
  BY DEF storeVars, RecordedDeliveries, RowsWith
<1>4. CommittedMeansPaid' /\ CountersMatchRows'
  BY <1>3 DEF IInv, CommittedMeansPaid, CountersMatchRows, storeVars
<1> QED BY <1>1, <1>2, <1>4

\* What is left to show of a worker's step that writes nothing.
LEMMA QuietStepKeepsInv ==
  ASSUME IInv, TypeOK', NEW w \in Workers,
         \A v \in Workers \ {w} :
            job'[v] = job[v] /\ pc'[v] = pc[v] /\ outcome'[v] = outcome[v],
         UNCHANGED storeVars, pc'[w] # "PUT_EFFECT", DecisionHolds(w)',
         ForgetsOnlyRecorded
  PROVE  IInv'
<1>1. HeldBy(w)' = 0 /\ HeldBy(w) \in Nat
  BY HeldIsMoney DEF HeldBy, IInv, TypeOK
<1>2. budgetRemaining' = budgetRemaining /\ effects' = effects
      /\ budgetRemaining \in Nat
  BY DEF storeVars, IInv, TypeOK, StoreTypeOK
<1>3. MoneyPaid' + HeldBy(w)' + budgetRemaining'
         <= MoneyPaid + HeldBy(w) + budgetRemaining
  BY <1>1, <1>2, TablesUnchanged
<1> QED BY <1>2, <1>3, TablesUnchanged, WritingStepKeepsInv

\* And of a step of no worker at all.
LEMMA QueueStepKeepsInv ==
  ASSUME IInv, TypeOK', UNCHANGED storeVars, UNCHANGED <<pc, job, outcome>>,
         ForgetsOnlyRecorded
  PROVE  IInv'
<1>0. StoreTypeOK
  BY DEF IInv, TypeOK
<1>1. MovesForward /\ MoneyPaid' = MoneyPaid /\ CommittedMeansPaid' /\ CountersMatchRows'
  BY TablesUnchanged
<1>2. PaiseInHand' = PaiseInHand
  BY DEF PaiseInHand, AmountOf, Delivery
<1>3. MoneyCovered'
  BY <1>1, <1>2 DEF IInv, MoneyCovered, storeVars
<1>4. PendingDecisionsHold'
  BY <1>1, DecisionSurvives DEF IInv, PendingDecisionsHold
<1>5. DeletedMeansRecorded'
  BY WorkerAssumption, <1>1
     DEF IInv, DeletedMeansRecorded, MovesForward, IsDeliveryRecorded, ForgetsOnlyRecorded
<1>6. PaymentsWereAskedFor'
  BY DEF IInv, PaymentsWereAskedFor, PayingDeliveries, storeVars
<1> QED BY <1>1, <1>3, <1>4, <1>5, <1>6 DEF IInv

\* A fresh run satisfies the invariant.
LEMMA Initially == Init => IInv
<1> SUFFICES ASSUME Init PROVE IInv
  OBVIOUS
<1> USE StoreAssumption, VulnerableAssumption
<1>1. StoreTypeOK
  BY DEF Init, StoreInit, StoreTypeOK, NoRow
<1>2. QueueTypeOK /\ WorkerTypeOK(Steps)
  BY FreshTypes DEF Init, ProcessorInit
<1>3. TypeOK
  BY <1>1, <1>2 DEF Init, ProcessorInit, WorkerInit, TypeOK, NoRow
<1>4. MoneyCovered
  BY NothingInHand DEF Init, ProcessorInit
<1>5. RecordedDeliveries = {} /\ \A o \in Outcomes : RowsWith(o) = {}
  BY DEF Init, StoreInit, RecordedDeliveries, RowsWith, NoRow, Outcomes
<1>6. CountersMatchRows /\ CommittedMeansPaid
  BY <1>5, FS_EmptySet
     DEF CountersMatchRows, CommittedMeansPaid, Init, StoreInit, Outcomes
<1>7. PendingDecisionsHold /\ DeletedMeansRecorded /\ PaymentsWereAskedFor
  BY DEF Init, StoreInit, QueueInit, ProcessorInit, WorkerInit, PendingDecisionsHold,
         DecisionHolds, DeletedMeansRecorded, PaymentsWereAskedFor, PayingDeliveries, NoRow
<1> QED BY <1>3, <1>4, <1>6, <1>7 DEF IInv

\* Every request, crash, redelivery and resent debit preserves it.
LEMMA Inductive == IInv /\ [Next]_vars => IInv'
<1> SUFFICES ASSUME IInv, [Next]_vars PROVE IInv'
  OBVIOUS
<1> USE StoreAssumption
<1>0. /\ TypeOK /\ StoreTypeOK /\ QueueTypeOK /\ WorkerTypeOK(Steps)
      /\ PendingDecisionsHold /\ TypeOK'
  BY TypePreserved DEF IInv, TypeOK
<1>a. ASSUME NEW w \in Workers, NEW s, Proceed(w, s)
      PROVE  pc'[w] = s /\ \A v \in Workers \ {w} : pc'[v] = pc[v]
  BY <1>0, <1>a DEF Proceed, WorkerTypeOK
<1>b. ASSUME NEW w \in Workers, NEW o, WillRecord(w, o)
      PROVE  outcome'[w] = o /\ \A v \in Workers \ {w} : outcome'[v] = outcome[v]
  BY <1>0, <1>b DEF WillRecord, TypeOK
<1>c. UNCHANGED queue => ForgetsOnlyRecorded
  BY DEF ForgetsOnlyRecorded
<1>d. ASSUME NEW w \in Workers, pc[w] # "IDLE"
      PROVE  /\ job[w] \in Messages /\ Delivery(w) \in Deliveries
             /\ AmountOf(Delivery(w)) \in Nat
  <2>1. job[w] \in Messages /\ Delivery(w) \in Deliveries
    BY <1>0, <1>d, BusyWorker
  <2> QED BY <2>1 DEF AmountOf
<1>e. ASSUME NEW w \in Workers, UNCHANGED job
      PROVE  Delivery(w)' = Delivery(w) /\ AmountOf(Delivery(w))' = AmountOf(Delivery(w))
  BY <1>e DEF Delivery, AmountOf
<1>f. ASSUME NEW w \in Workers, pc[w] # "RECORD" PROVE outcome[w] = NoRow
  BY <1>0, <1>f DEF TypeOK
<1>1. ASSUME NEW w \in Workers, Start(w) PROVE IInv'
  <2>1. PICK m \in Messages : StartMessage(w, m, "CHECK")
    BY <1>1 DEF Start
  <2>2. /\ queue' = [queue EXCEPT ![m] = "IN_FLIGHT"]
        /\ job' = [job EXCEPT ![w] = m]
        /\ Proceed(w, "CHECK")
        /\ UNCHANGED storeVars
        /\ UNCHANGED outcome
        /\ pc[w] = "IDLE"
    BY <1>0, <1>1, <2>1 DEF Start, StartMessage, Receive, WorkerTypeOK
  <2>3. DecisionHolds(w)'
    BY <1>a, <1>f, <2>2 DEF DecisionHolds, NoRow
  <2>4. ForgetsOnlyRecorded
    BY <1>0, <2>2 DEF ForgetsOnlyRecorded, QueueTypeOK
  <2> QED BY <1>0, <1>a, <2>2, <2>3, <2>4, QuietStepKeepsInv DEF QueueTypeOK
<1>2. ASSUME NEW w \in Workers, Check(w) PROVE IInv'
  <2>1. /\ pc[w] = "CHECK"
        /\ Proceed(w, IF IsDeliveryRecorded(Delivery(w)) THEN "ACK" ELSE "DEBIT")
        /\ UNCHANGED storeVars
        /\ UNCHANGED outcome
        /\ UNCHANGED <<queue, job>>
    BY <1>2 DEF Check, queueVars
  <2>2. pc'[w] = IF IsDeliveryRecorded(Delivery(w)) THEN "ACK" ELSE "DEBIT"
    BY <1>a, <2>1
  <2>3. DecisionHolds(w)'
    BY <1>e, <1>f, <2>1, <2>2 DEF DecisionHolds, IsDeliveryRecorded, storeVars, NoRow
  <2> QED BY <1>0, <1>a, <1>c, <2>1, <2>2, <2>3, QuietStepKeepsInv
<1>3. ASSUME NEW w \in Workers, pc[w] = "DEBIT", DebitBudget(Delivery(w)),
             UNCHANGED queueVars, UNCHANGED outcome,
             \/ Proceed(w, "PUT_EFFECT")
             \/ UNCHANGED workerVars
      PROVE  IInv'
  <2>1. /\ UNCHANGED <<queue, job>>
        /\ UNCHANGED <<claim, effects, rows, deliveredCount, outcomeCount>>
        /\ budgetRemaining' = budgetRemaining - AmountOf(Delivery(w))
        /\ budgetRemaining >= AmountOf(Delivery(w))
    BY <1>3 DEF queueVars, DebitBudget, DebitAccepted
  <2>2. pc'[w] \in {"PUT_EFFECT", "DEBIT"} /\ \A v \in Workers \ {w} : pc'[v] = pc[v]
    BY <1>3, <1>a DEF workerVars
  <2>3. DecisionHolds(w)'
    BY <1>3, <1>f, <2>2 DEF DecisionHolds, NoRow
  <2>4. HeldBy(w) = 0 /\ HeldBy(w)' \in {0, AmountOf(Delivery(w))}
    BY <1>3, <1>e, <2>1, <2>2 DEF HeldBy
  <2>5. MoneyPaid' = MoneyPaid /\ MoneyPaid' \in Nat
    BY <1>0, <2>1, NoPayment
  <2>6. MoneyPaid' + HeldBy(w)' + budgetRemaining'
           <= MoneyPaid + HeldBy(w) + budgetRemaining
    BY <1>0, <1>3, <1>d, <2>1, <2>4, <2>5 DEF StoreTypeOK
  <2>7. MovesForward /\ CommittedMeansPaid' /\ CountersMatchRows'
    BY <2>1 DEF MovesForward, IInv, CommittedMeansPaid, CountersMatchRows,
                RowsWith, RecordedDeliveries
  <2> QED BY <1>0, <1>3, <1>c, <2>1, <2>2, <2>3, <2>5, <2>6, <2>7, WritingStepKeepsInv
<1>4. ASSUME NEW w \in Workers, DebitRefused(w) PROVE IInv'
  <2>1. /\ Proceed(w, "RECORD")
        /\ WillRecord(w, "BUDGET_EXHAUSTED")
        /\ UNCHANGED storeVars
        /\ UNCHANGED <<queue, job>>
    BY <1>4 DEF DebitRefused, queueVars
  <2>2. DecisionHolds(w)'
    BY <1>a, <1>b, <2>1 DEF DecisionHolds
  <2> QED BY <1>0, <1>a, <1>b, <1>c, <2>1, <2>2, QuietStepKeepsInv
<1>5. ASSUME NEW w \in Workers, Pay(w) PROVE IInv'
  <2> DEFINE d == Delivery(w)
  <2>1. /\ pc[w] = "PUT_EFFECT"
        /\ effects' = [effects EXCEPT ![d] = @ + 1]
        /\ UNCHANGED <<claim, rows, budgetRemaining, deliveredCount, outcomeCount>>
        /\ Proceed(w, "RECORD")
        /\ WillRecord(w, "COMMITTED")
        /\ UNCHANGED <<queue, job>>
    BY <1>5 DEF Pay, PutEffect, queueVars
  <2>2. job[w] \in Messages /\ d \in Deliveries /\ AmountOf(d) \in Nat
    BY <1>d, <2>1
  <2>3. effects'[d] > 0 /\ \A x \in Deliveries : effects[x] > 0 => effects'[x] > 0
    BY <1>0, <2>1, <2>2 DEF StoreTypeOK
  <2>4. DecisionHolds(w)'
    BY <1>a, <1>e, <2>1, <2>3 DEF DecisionHolds
  <2>5. HeldBy(w) = AmountOf(d) /\ HeldBy(w)' = 0
    BY <1>a, <2>1 DEF HeldBy
  <2>6. MoneyPaid' = MoneyPaid + AmountOf(d) /\ MoneyPaid \in Nat
    BY <1>0, <2>1, <2>2, PayingMovesAmount, LedgerIsFinite
  <2>7. MovesForward /\ CommittedMeansPaid' /\ CountersMatchRows'
    <3> HIDE DEF d
    <3> QED BY <2>1, <2>3
        DEF MovesForward, IInv, CommittedMeansPaid, CountersMatchRows, RowsWith,
            RecordedDeliveries
  <2>8. \A x \in Deliveries :
           effects'[x] > 0 => effects[x] > 0 \/ \E m \in Messages : DeliveryOf[m] = x
    BY <1>0, <2>1, <2>2 DEF StoreTypeOK, Delivery
  <2>9. /\ MoneyPaid' \in Nat
        /\ MoneyPaid' + HeldBy(w)' + budgetRemaining'
              <= MoneyPaid + HeldBy(w) + budgetRemaining
    <3> HIDE DEF d
    <3> QED BY <1>0, <2>1, <2>2, <2>5, <2>6 DEF StoreTypeOK
  <2>10. \A v \in Workers \ {w} :
            job'[v] = job[v] /\ pc'[v] = pc[v] /\ outcome'[v] = outcome[v]
    BY <1>a, <1>b, <2>1
  <2> HIDE DEF d
  <2> QED BY <1>0, <1>c, <2>1, <2>4, <2>7, <2>8, <2>9, <2>10, WritingStepKeepsInv
<1>6. ASSUME NEW w \in Workers, Record(w) PROVE IInv'
  <2> DEFINE d == Delivery(w)
             o == outcome[w]
  <2>1. /\ pc[w] = "RECORD"
        /\ RecordOutcome(d, o)
        /\ Proceed(w, "ACK")
        /\ WillRecord(w, NoRow)
        /\ UNCHANGED <<queue, job>>
    BY <1>6 DEF Record, queueVars
  <2>2. d \in Deliveries /\ o \in {"COMMITTED", "BUDGET_EXHAUSTED"}
    BY <1>0, <1>d, <2>1 DEF TypeOK
  <2>3. o = "COMMITTED" => effects[d] > 0
    BY <1>0 DEF PendingDecisionsHold, DecisionHolds
  <2>4. Delivery(w)' = d
    BY <1>e, <2>1
  <2> HIDE DEF d, o
  <2>5. /\ rows[d] = NoRow
        /\ rows' = [rows EXCEPT ![d] = o]
        /\ CountDelivery(o)
        /\ UNCHANGED <<claim, effects, budgetRemaining>>
    BY <2>1 DEF RecordOutcome, RecordItems, RecordCondition, IsDeliveryRecorded
  <2>6. CountersMatchRows'
    BY <1>0, <2>2, <2>5, CountingOneRow DEF IInv, CountersMatchRows, Outcomes
  <2>7. CommittedMeansPaid'
    BY <1>0, <2>2, <2>3, <2>5 DEF IInv, CommittedMeansPaid, RowsWith, StoreTypeOK
  <2>8. MovesForward /\ rows'[d] # NoRow
    BY <1>0, <2>2, <2>5 DEF MovesForward, StoreTypeOK, NoRow
  <2>9. DecisionHolds(w)'
    BY <1>b, <2>1, <2>4, <2>8 DEF DecisionHolds, IsDeliveryRecorded, NoRow
  <2>10. MoneyPaid' = MoneyPaid /\ MoneyPaid' \in Nat
    BY <1>0, <2>5, NoPayment
  <2>11. HeldBy(w) = 0 /\ HeldBy(w)' = 0
    BY <1>a, <2>1 DEF HeldBy
  <2>12. MoneyPaid' + HeldBy(w)' + budgetRemaining'
            <= MoneyPaid + HeldBy(w) + budgetRemaining
    BY <1>0, <2>5, <2>10, <2>11 DEF StoreTypeOK
  <2> QED BY <1>0, <1>a, <1>b, <1>c, <2>1, <2>5, <2>6, <2>7, <2>8, <2>9, <2>10, <2>12,
             WritingStepKeepsInv
<1>7. ASSUME NEW w \in Workers, RecordedByAnother(w) PROVE IInv'
  <2>1. /\ IsDeliveryRecorded(Delivery(w))
        /\ Proceed(w, "ACK")
        /\ WillRecord(w, NoRow)
        /\ UNCHANGED storeVars
        /\ UNCHANGED <<queue, job>>
    BY <1>7 DEF RecordedByAnother, queueVars
  <2>2. DecisionHolds(w)'
    BY <1>b, <1>e, <2>1 DEF DecisionHolds, IsDeliveryRecorded, storeVars, NoRow
  <2> QED BY <1>0, <1>a, <1>b, <1>c, <2>1, <2>2, QuietStepKeepsInv
<1>8. ASSUME NEW w \in Workers, FailMessage(w), WillRecord(w, NoRow) PROVE IInv'
  <2>1. /\ Proceed(w, "IDLE")
        /\ UNCHANGED storeVars
        /\ job' = [job EXCEPT ![w] = NoMessage]
        /\ UNCHANGED queue
    BY <1>8 DEF FailMessage, Abandon
  <2>2. DecisionHolds(w)'
    BY <1>a, <1>b, <1>8, <2>1 DEF DecisionHolds, NoRow
  <2> QED BY <1>0, <1>8, <1>a, <1>b, <1>c, <2>1, <2>2, QuietStepKeepsInv DEF QueueTypeOK
<1>9. ASSUME NEW w \in Workers, Conflict(w) PROVE IInv'
  <2>1. CASE failures[w] + 1 < MaxAttempts
    <3>1. /\ UNCHANGED <<pc, queue, job>>
          /\ UNCHANGED storeVars
          /\ pc[w] \in {"DEBIT", "RECORD"}
      BY <1>9, <2>1 DEF Conflict, RetryConflict, queueVars
    <3>2. outcome' = outcome
      BY <1>0, <1>9, <3>1 DEF Conflict, TypeOK
    <3> QED BY <1>0, <1>c, <3>1, <3>2, QueueStepKeepsInv
  <2>2. CASE ~(failures[w] + 1 < MaxAttempts)
    <3>1. FailMessage(w)
      BY <1>9, <2>2 DEF Conflict, RetryConflict
    <3>2. pc'[w] = "IDLE"
      BY <1>a, <3>1 DEF FailMessage
    <3>3. WillRecord(w, NoRow)
      BY <1>9, <3>2 DEF Conflict, WillRecord
    <3> QED BY <1>8, <3>1, <3>3
  <2> QED BY <2>1, <2>2
<1>10. ASSUME NEW w \in Workers, Finish(w) PROVE IInv'
  <2>1. /\ pc[w] = "ACK"
        /\ Proceed(w, "IDLE")
        /\ UNCHANGED storeVars
        /\ UNCHANGED outcome
        /\ job' = [job EXCEPT ![w] = NoMessage]
        /\ queue' = [queue EXCEPT ![job[w]] = IF @ = "DEAD" THEN "DEAD" ELSE "DELETED"]
    BY <1>10 DEF Finish, FinishMessage, Acknowledge
  <2>2. rows[DeliveryOf[job[w]]] # NoRow
    BY <1>0, <2>1 DEF PendingDecisionsHold, DecisionHolds, Delivery, IsDeliveryRecorded
  <2>3. DecisionHolds(w)'
    BY <1>a, <1>f, <2>1 DEF DecisionHolds, NoRow
  <2>4. ForgetsOnlyRecorded
    BY <1>0, <2>1, <2>2 DEF ForgetsOnlyRecorded, IsDeliveryRecorded, storeVars, QueueTypeOK
  <2> QED BY <1>0, <1>a, <2>1, <2>3, <2>4, QuietStepKeepsInv DEF QueueTypeOK
<1>11. ASSUME NEW m \in Messages, VisibilityTimeout(m) PROVE IInv'
  <2>1. /\ queue' = [queue EXCEPT
                        ![m] = IF receives[m] < MaxReceives THEN "VISIBLE" ELSE "DEAD"]
        /\ UNCHANGED <<pc, job, outcome>>
        /\ UNCHANGED storeVars
    BY <1>11 DEF VisibilityTimeout, Reappear, workerVars
  <2>2. ForgetsOnlyRecorded
    BY <1>0, <2>1 DEF ForgetsOnlyRecorded, QueueTypeOK
  <2> QED BY <1>0, <2>1, <2>2, QueueStepKeepsInv
<1>12. CASE UNCHANGED vars
  <2>1. UNCHANGED <<pc, job, outcome>> /\ UNCHANGED queue /\ UNCHANGED storeVars
    BY <1>12 DEF vars, queueVars, workerVars
  <2> QED BY <1>0, <1>c, <2>1, QueueStepKeepsInv
<1>13. ASSUME NEW w \in Workers, Debit(w) \/ DebitResent(w) PROVE IInv'
  BY <1>3, <1>13 DEF Debit, DebitResent
<1>14. ASSUME NEW w \in Workers, Interrupt(w) PROVE IInv'
  BY <1>8, <1>14 DEF Interrupt
<1> QED BY <1>1, <1>2, <1>4, <1>5, <1>6, <1>7, <1>9, <1>10, <1>11, <1>12, <1>13, <1>14
    DEF Next, ProcessorNext, WorkerStep

-----------------------------------------------------------------------------
(* The results                                                             *)

\* The strengthened invariant holds in every reachable state.
THEOREM InductiveInvariant == Spec => []IInv
<1>1. Init => IInv
  BY Initially
<1>2. IInv /\ [Next]_vars => IInv'
  BY Inductive
<1> QED BY <1>1, <1>2, PTL DEF Spec

\* The run never pays more than its budget, a COMMITTED row has a payment, and
\* the counters count the rows, whatever is repeated, resent or interrupted.
THEOREM BooksAlwaysBalance == Spec => []BooksBalance
<1>1. IInv => BooksBalance
  BY DEF IInv, BooksBalance, MoneyCovered, CommittedMeansPaid, CountersMatchRows
<1> QED BY <1>1, InductiveInvariant, PTL

\* A payment without a row has a message that is still to be heard of: a message
\* is deleted only after a row is there.
THEOREM NoPaymentIsForgotten == Spec => []NoForgottenPayment
<1>1. IInv => NoForgottenPayment
  <2> SUFFICES ASSUME IInv, NEW d \in PayingDeliveries, ~IsDeliveryRecorded(d)
               PROVE  \E m \in Messages : DeliveryOf[m] = d /\ queue[m] # "DELETED"
    BY DEF NoForgottenPayment
  <2>1. PICK m \in Messages : DeliveryOf[m] = d
    BY DEF IInv, PaymentsWereAskedFor
  <2> QED BY <2>1 DEF IInv, DeletedMeansRecorded
<1> QED BY <1>1, InductiveInvariant, PTL

-----------------------------------------------------------------------------
(* A run of the demo's workload: what is true of it at every step          *)

\* No invocation of a worker fails or overlaps another of its message, and every
\* delivery is published once.
Workload ==
    /\ ~Faulty
    /\ \A m, n \in Messages : DeliveryOf[m] = DeliveryOf[n] => m = n

\* Then a worker has its message for itself,
OneWorkerEach ==
    /\ \A w \in Workers : ~Idle(w) => queue[job[w]] = "IN_FLIGHT"
    /\ \A v, w \in Workers : ~Idle(v) /\ job[v] = job[w] => v = w

\* and the tables say of its delivery what it has done.
Untouched(d) == rows[d] = NoRow /\ effects[d] = 0

DoneSoFar(w) ==
    /\ pc[w] \in {"CHECK", "DEBIT", "PUT_EFFECT"} => Untouched(Delivery(w))
    /\ pc[w] = "RECORD" =>
          /\ rows[Delivery(w)] = NoRow
          /\ effects[Delivery(w)] = IF outcome[w] = "COMMITTED" THEN 1 ELSE 0

UnreceivedIsUntouched ==
    \A m \in Messages : queue[m] \in {"UNSENT", "VISIBLE"} => Untouched(DeliveryOf[m])

RowTells(d) ==
    /\ effects[d] \in {0, 1}
    /\ rows[d] \in {NoRow, "COMMITTED", "BUDGET_EXHAUSTED"}
    /\ rows[d] = "COMMITTED" => effects[d] = 1
    /\ rows[d] = "BUDGET_EXHAUSTED" => effects[d] = 0

WorkIsDoneOnce ==
    /\ OneWorkerEach
    /\ UnreceivedIsUntouched
    /\ \A w \in Workers : DoneSoFar(w)
    /\ \A d \in Deliveries : RowTells(d)

\* The deliveries that have taken money from the budget.
Debited ==
    PayingDeliveries \cup {Delivery(w) : w \in {v \in Workers : pc[v] = "PUT_EFFECT"}}

\* With equal amounts the budget is a number of equal shares, one for each
\* entitlement, and every debit takes one.
SharesLeft(k) ==
    /\ k + Cardinality(Debited) = Cardinality(Entitlements)
    /\ \A e \in Entitlements : budgetRemaining = k * Amount[e]

\* Refused, or about to be.
Refused(d) ==
    \/ rows[d] = "BUDGET_EXHAUSTED"
    \/ \E w \in Workers :
          pc[w] = "RECORD" /\ outcome[w] = "BUDGET_EXHAUSTED" /\ Delivery(w) = d

\* When the first delivery is refused every share is taken, and that cannot
\* happen to a delivery of phase A: there are fewer of those than shares.
SharesAreTaken ==
    /\ \E k \in Nat : SharesLeft(k)
    /\ \A d \in Deliveries : Refused(d) => SharesLeft(0) /\ d \in PlanPhase("B")

WorkloadInv ==
    /\ IInv
    /\ WorkflowInv
    /\ WorkIsDoneOnce
    /\ EqualAmounts => SharesAreTaken

-----------------------------------------------------------------------------
(* The work on each delivery                                               *)

\* Two workers that have the same delivery are the same worker.
LEMMA OneWorkerPerDelivery ==
  ASSUME Workload, TypeOK, OneWorkerEach, NEW v \in Workers, NEW w \in Workers,
         ~Idle(v), ~Idle(w), Delivery(v) = Delivery(w)
  PROVE  v = w
<1>1. job[v] \in Messages /\ job[w] \in Messages
  BY DEF TypeOK, QueueTypeOK, Idle
<1> QED BY <1>1 DEF Workload, OneWorkerEach, Delivery

\* A busy worker is not idle, and the other way round.
LEMMA BusyMeansNotIdle ==
  ASSUME TypeOK, NEW w \in Workers
  PROVE  /\ pc[w] # "IDLE" <=> ~Idle(w)
         /\ pc[w] # "IDLE" => job[w] \in Messages /\ Delivery(w) \in Deliveries
BY WorkerAssumption DEF TypeOK, WorkerTypeOK, QueueTypeOK, Idle, Delivery

\* A worker that goes on with its delivery concerns no other one.
LEMMA OneDeliveryMoves ==
  ASSUME Workload, TypeOK, TypeOK', WorkIsDoneOnce, NEW w \in Workers, pc[w] # "IDLE",
         UNCHANGED <<queue, job>>,
         \A v \in Workers \ {w} : pc'[v] = pc[v] /\ outcome'[v] = outcome[v],
         \A d \in Deliveries \ {Delivery(w)} : rows'[d] = rows[d] /\ effects'[d] = effects[d],
         DoneSoFar(w)', RowTells(Delivery(w))'
  PROVE  WorkIsDoneOnce'
<1>0. /\ OneWorkerEach /\ UnreceivedIsUntouched
      /\ ~Idle(w) /\ job[w] \in Messages /\ Delivery(w) \in Deliveries
  BY BusyMeansNotIdle DEF WorkIsDoneOnce
<1>1. OneWorkerEach'
  BY <1>0 DEF OneWorkerEach, Idle
<1>2. ASSUME NEW m \in Messages, queue[m] \in {"UNSENT", "VISIBLE"}
      PROVE  Untouched(DeliveryOf[m])'
  <2>1. DeliveryOf[m] # Delivery(w)
    BY <1>0, <1>2 DEF Workload, OneWorkerEach, Delivery
  <2>2. DeliveryOf[m] \in Deliveries /\ Untouched(DeliveryOf[m])
    BY <1>0, <1>2, WorkerAssumption DEF UnreceivedIsUntouched
  <2> QED BY <2>1, <2>2 DEF Untouched
<1>3. ASSUME NEW v \in Workers, v # w PROVE DoneSoFar(v)'
  <2>1. CASE pc[v] = "IDLE"
    BY <1>3, <2>1 DEF DoneSoFar
  <2>2. CASE pc[v] # "IDLE"
    <3>1. ~Idle(v) /\ Delivery(v) \in Deliveries
      BY <2>2, BusyMeansNotIdle
    <3>2. Delivery(v) # Delivery(w)
      BY <1>0, <1>3, <3>1, OneWorkerPerDelivery
    <3>3. DoneSoFar(v) /\ Delivery(v)' = Delivery(v)
      BY DEF WorkIsDoneOnce, Delivery
    <3> QED BY <1>3, <3>1, <3>2, <3>3 DEF DoneSoFar, Untouched
  <2> QED BY <2>1, <2>2
<1>4. ASSUME NEW d \in Deliveries, d # Delivery(w) PROVE RowTells(d)'
  <2>1. RowTells(d)
    BY DEF WorkIsDoneOnce
  <2> QED BY <1>4, <2>1 DEF RowTells
<1>5. Delivery(w)' = Delivery(w)
  BY DEF Delivery
<1> QED BY <1>1, <1>2, <1>3, <1>4, <1>5 DEF WorkIsDoneOnce, UnreceivedIsUntouched, RowTells

\* Receiving a message nobody has worked on,
LEMMA StartKeepsWork ==
  ASSUME Workload, TypeOK, TypeOK', WorkIsDoneOnce, NEW w \in Workers, Start(w)
  PROVE  WorkIsDoneOnce'
<1>1. PICK m \in Messages : StartMessage(w, m, "CHECK")
  BY DEF Start
<1>2. /\ job[w] = NoMessage /\ queue[m] = "VISIBLE"
      /\ queue' = [queue EXCEPT ![m] = "IN_FLIGHT"]
      /\ job' = [job EXCEPT ![w] = m]
      /\ pc' = [pc EXCEPT ![w] = "CHECK"]
      /\ UNCHANGED <<rows, effects, outcome>>
  BY <1>1 DEF Start, StartMessage, Receive, Proceed, Idle, storeVars
<1>3. /\ queue'[m] = "IN_FLIGHT" /\ \A n \in Messages \ {m} : queue'[n] = queue[n]
      /\ job'[w] = m /\ pc'[w] = "CHECK"
      /\ \A v \in Workers \ {w} : job'[v] = job[v] /\ pc'[v] = pc[v]
  BY <1>2 DEF TypeOK, QueueTypeOK, WorkerTypeOK
<1>4. /\ OneWorkerEach /\ UnreceivedIsUntouched
      /\ \A v \in Workers : DoneSoFar(v)
      /\ \A d \in Deliveries : RowTells(d)
  BY DEF WorkIsDoneOnce
<1>5. \A v \in Workers : job[v] # NoMessage =>
         job[v] \in Messages /\ queue[job[v]] = "IN_FLIGHT"
  BY <1>4 DEF OneWorkerEach, TypeOK, QueueTypeOK, Idle
<1>6. OneWorkerEach'
  BY <1>2, <1>3, <1>4, <1>5, QueueAssumption DEF OneWorkerEach, Idle
<1>7. UnreceivedIsUntouched'
  BY <1>2, <1>3, <1>4 DEF UnreceivedIsUntouched, Untouched
<1>8. ASSUME NEW v \in Workers PROVE DoneSoFar(v)'
  <2>1. CASE v = w
    <3>1. Delivery(w)' = DeliveryOf[m]
      BY <1>3 DEF Delivery
    <3> QED BY <1>2, <1>3, <1>4, <2>1, <3>1 DEF DoneSoFar, UnreceivedIsUntouched, Untouched
  <2>2. CASE v # w
    <3>1. Delivery(v)' = Delivery(v) /\ DoneSoFar(v)
      BY <1>3, <1>4, <2>2 DEF Delivery
    <3> QED BY <1>2, <1>3, <2>2, <3>1 DEF DoneSoFar, Untouched
  <2> QED BY <2>1, <2>2
<1>9. \A d \in Deliveries : RowTells(d)'
  BY <1>2, <1>4 DEF RowTells
<1> QED BY <1>6, <1>7, <1>8, <1>9 DEF WorkIsDoneOnce

\* and finishing with one.
LEMMA FinishKeepsWork ==
  ASSUME Workload, TypeOK, TypeOK', WorkIsDoneOnce, NEW w \in Workers, Finish(w)
  PROVE  WorkIsDoneOnce'
<1>1. /\ job[w] # NoMessage
      /\ queue' = [queue EXCEPT ![job[w]] = IF @ = "DEAD" THEN "DEAD" ELSE "DELETED"]
      /\ job' = [job EXCEPT ![w] = NoMessage]
      /\ pc' = [pc EXCEPT ![w] = "IDLE"]
      /\ UNCHANGED <<rows, effects, outcome>>
  BY DEF Finish, FinishMessage, Acknowledge, Proceed, Idle, storeVars
<1>2. /\ \A n \in Messages \ {job[w]} : queue'[n] = queue[n]
      /\ queue'[job[w]] \in {"DEAD", "DELETED"}
      /\ job'[w] = NoMessage /\ pc'[w] = "IDLE"
      /\ \A v \in Workers \ {w} : job'[v] = job[v] /\ pc'[v] = pc[v]
  BY <1>1 DEF TypeOK, QueueTypeOK, WorkerTypeOK
<1>4. /\ OneWorkerEach /\ UnreceivedIsUntouched
      /\ \A v \in Workers : DoneSoFar(v)
      /\ \A d \in Deliveries : RowTells(d)
  BY DEF WorkIsDoneOnce
<1>5. \A v \in Workers : job[v] # NoMessage => job[v] \in Messages
  BY DEF TypeOK, QueueTypeOK
<1>6. OneWorkerEach'
  BY <1>1, <1>2, <1>4, <1>5 DEF OneWorkerEach, Idle
<1>7. UnreceivedIsUntouched'
  BY <1>1, <1>2, <1>4 DEF UnreceivedIsUntouched, Untouched
<1>8. ASSUME NEW v \in Workers PROVE DoneSoFar(v)'
  <2>1. CASE v = w
    BY <1>2, <2>1 DEF DoneSoFar
  <2>2. CASE v # w
    <3>1. Delivery(v)' = Delivery(v) /\ DoneSoFar(v)
      BY <1>2, <1>4, <2>2 DEF Delivery
    <3> QED BY <1>1, <1>2, <2>2, <3>1 DEF DoneSoFar, Untouched
  <2> QED BY <2>1, <2>2
<1>9. \A d \in Deliveries : RowTells(d)'
  BY <1>1, <1>4 DEF RowTells
<1> QED BY <1>6, <1>7, <1>8, <1>9 DEF WorkIsDoneOnce

\* Every step of the workers keeps it: without failures there are no others.
LEMMA ProcessorKeepsWork ==
  ASSUME Workload, TypeOK, TypeOK', WorkIsDoneOnce, ProcessorNext
  PROVE  WorkIsDoneOnce'
<1>a. ASSUME NEW w \in Workers, NEW s, Proceed(w, s)
      PROVE  pc'[w] = s /\ \A v \in Workers \ {w} : pc'[v] = pc[v]
  BY <1>a DEF Proceed, TypeOK, WorkerTypeOK
<1>b. ASSUME NEW w \in Workers, NEW o, WillRecord(w, o)
      PROVE  outcome'[w] = o /\ \A v \in Workers \ {w} : outcome'[v] = outcome[v]
  BY <1>b DEF WillRecord, TypeOK
<1>c. ASSUME NEW w \in Workers, pc[w] # "IDLE"
      PROVE  /\ Delivery(w) \in Deliveries
             /\ DoneSoFar(w) /\ RowTells(Delivery(w))
  BY <1>c, BusyMeansNotIdle DEF WorkIsDoneOnce
<1>d. ASSUME NEW w \in Workers, UNCHANGED job PROVE Delivery(w)' = Delivery(w)
  BY <1>d DEF Delivery
<1>1. ASSUME NEW w \in Workers, Check(w) PROVE WorkIsDoneOnce'
  <2>1. /\ pc[w] = "CHECK" /\ UNCHANGED <<queue, job>>
        /\ UNCHANGED <<rows, effects, outcome>>
        /\ Proceed(w, IF IsDeliveryRecorded(Delivery(w)) THEN "ACK" ELSE "DEBIT")
    BY <1>1 DEF Check, queueVars, storeVars
  <2>2. pc'[w] \in {"ACK", "DEBIT"} /\ \A v \in Workers \ {w} : pc'[v] = pc[v]
    BY <1>a, <2>1
  <2>3. DoneSoFar(w)' /\ RowTells(Delivery(w))'
    BY <1>c, <1>d, <2>1, <2>2 DEF DoneSoFar, RowTells, Untouched
  <2> QED BY <2>1, <2>2, <2>3, OneDeliveryMoves
<1>2. ASSUME NEW w \in Workers, Debit(w) PROVE WorkIsDoneOnce'
  <2>1. /\ pc[w] = "DEBIT" /\ UNCHANGED <<queue, job>>
        /\ UNCHANGED <<rows, effects, outcome>> /\ Proceed(w, "PUT_EFFECT")
    BY <1>2 DEF Debit, DebitBudget, queueVars
  <2>2. pc'[w] = "PUT_EFFECT" /\ \A v \in Workers \ {w} : pc'[v] = pc[v]
    BY <1>a, <2>1
  <2>3. DoneSoFar(w)' /\ RowTells(Delivery(w))'
    BY <1>c, <1>d, <2>1, <2>2 DEF DoneSoFar, RowTells, Untouched
  <2> QED BY <2>1, <2>2, <2>3, OneDeliveryMoves
<1>3. ASSUME NEW w \in Workers, DebitRefused(w) PROVE WorkIsDoneOnce'
  <2>1. /\ pc[w] = "DEBIT" /\ UNCHANGED <<queue, job>> /\ UNCHANGED <<rows, effects>>
        /\ Proceed(w, "RECORD") /\ WillRecord(w, "BUDGET_EXHAUSTED")
    BY <1>3 DEF DebitRefused, queueVars, storeVars
  <2>2. /\ pc'[w] = "RECORD" /\ outcome'[w] = "BUDGET_EXHAUSTED"
        /\ \A v \in Workers \ {w} : pc'[v] = pc[v] /\ outcome'[v] = outcome[v]
    BY <1>a, <1>b, <2>1
  <2>3. DoneSoFar(w)' /\ RowTells(Delivery(w))'
    BY <1>c, <1>d, <2>1, <2>2 DEF DoneSoFar, RowTells, Untouched
  <2> QED BY <2>1, <2>2, <2>3, OneDeliveryMoves
<1>4. ASSUME NEW w \in Workers, Pay(w) PROVE WorkIsDoneOnce'
  <2>1. /\ pc[w] = "PUT_EFFECT" /\ UNCHANGED <<queue, job>> /\ UNCHANGED rows
        /\ effects' = [effects EXCEPT ![Delivery(w)] = @ + 1]
        /\ Proceed(w, "RECORD") /\ WillRecord(w, "COMMITTED")
    BY <1>4 DEF Pay, PutEffect, queueVars
  <2>2. /\ pc'[w] = "RECORD" /\ outcome'[w] = "COMMITTED"
        /\ \A v \in Workers \ {w} : pc'[v] = pc[v] /\ outcome'[v] = outcome[v]
    BY <1>a, <1>b, <2>1
  <2>3. PICK d \in Deliveries : d = Delivery(w)
    BY <1>c, <2>1
  <2>4. Untouched(d) /\ rows[d] = NoRow /\ effects[d] = 0
    BY <1>c, <2>1, <2>3 DEF DoneSoFar, Untouched
  <2>5. /\ effects'[d] = 1 /\ rows'[d] = NoRow
        /\ \A x \in Deliveries \ {d} : effects'[x] = effects[x]
    BY <2>1, <2>3, <2>4 DEF TypeOK, StoreTypeOK
  <2>6. DoneSoFar(w)' /\ RowTells(Delivery(w))'
    BY <1>d, <2>1, <2>2, <2>3, <2>5 DEF DoneSoFar, RowTells, NoRow
  <2> QED BY <2>1, <2>2, <2>3, <2>5, <2>6, OneDeliveryMoves
<1>5. ASSUME NEW w \in Workers, Record(w) PROVE WorkIsDoneOnce'
  <2>1. /\ pc[w] = "RECORD" /\ UNCHANGED <<queue, job>> /\ UNCHANGED effects
        /\ rows' = [rows EXCEPT ![Delivery(w)] = outcome[w]]
        /\ Proceed(w, "ACK") /\ WillRecord(w, NoRow)
    BY <1>5 DEF Record, RecordOutcome, queueVars
  <2>2. /\ pc'[w] = "ACK"
        /\ \A v \in Workers \ {w} : pc'[v] = pc[v] /\ outcome'[v] = outcome[v]
    BY <1>a, <1>b, <2>1
  <2>3. PICK d \in Deliveries : d = Delivery(w)
    BY <1>c, <2>1
  <2>4. outcome[w] \in {"COMMITTED", "BUDGET_EXHAUSTED"}
    BY <2>1 DEF TypeOK
  <2>5. effects[d] = IF outcome[w] = "COMMITTED" THEN 1 ELSE 0
    BY <1>c, <2>1, <2>3 DEF DoneSoFar
  <2>6. /\ rows'[d] = outcome[w]
        /\ \A x \in Deliveries \ {d} : rows'[x] = rows[x]
    BY <2>1, <2>3 DEF TypeOK, StoreTypeOK
  <2>7. DoneSoFar(w)' /\ RowTells(Delivery(w))'
    BY <1>d, <2>1, <2>2, <2>3, <2>4, <2>5, <2>6 DEF DoneSoFar, RowTells, NoRow
  <2> QED BY <2>1, <2>2, <2>3, <2>6, <2>7, OneDeliveryMoves
<1>6. ASSUME NEW w \in Workers, RecordedByAnother(w) PROVE WorkIsDoneOnce'
  <2>1. /\ pc[w] = "RECORD" /\ rows[Delivery(w)] # NoRow
    BY <1>6 DEF RecordedByAnother, IsDeliveryRecorded
  <2> QED BY <1>c, <2>1 DEF DoneSoFar
<1>7. ASSUME NEW w \in Workers, Conflict(w) PROVE WorkIsDoneOnce'
  <2>1. /\ pc[w] \in {"DEBIT", "RECORD"} /\ UNCHANGED <<queue, job>>
        /\ UNCHANGED <<rows, effects, pc>>
        /\ outcome' = [outcome EXCEPT ![w] = IF pc'[w] = "IDLE" THEN NoRow ELSE @]
    BY <1>7 DEF Conflict, RetryConflict, Workload, queueVars, storeVars
  <2>2. UNCHANGED outcome
    BY <2>1 DEF TypeOK
  <2>3. DoneSoFar(w)' /\ RowTells(Delivery(w))'
    BY <1>c, <1>d, <2>1, <2>2 DEF DoneSoFar, RowTells, Untouched
  <2> QED BY <2>1, <2>2, <2>3, OneDeliveryMoves
<1>8. ASSUME NEW w \in Workers, DebitResent(w) \/ Interrupt(w) PROVE FALSE
  BY <1>8 DEF DebitResent, Interrupt, Workload
<1>9. ASSUME NEW m \in Messages, VisibilityTimeout(m) PROVE FALSE
  BY <1>9 DEF VisibilityTimeout, Workload
<1> QED BY <1>1, <1>2, <1>3, <1>4, <1>5, <1>6, <1>7, <1>8, <1>9, StartKeepsWork,
           FinishKeepsWork DEF ProcessorNext, WorkerStep

\* Sending messages, and a step that leaves the workers and the tables alone,
\* keep it too.
LEMMA SendingKeepsWork ==
  ASSUME TypeOK, WorkIsDoneOnce, UNCHANGED storeVars, UNCHANGED workerVars,
         UNCHANGED outcome, UNCHANGED queueVars \/ \E ms : Send(ms)
  PROVE  WorkIsDoneOnce'
<1>1. /\ UNCHANGED <<rows, effects, pc, job, outcome>>
      /\ \A m \in Messages :
            queue'[m] = queue[m] \/ (queue[m] = "UNSENT" /\ queue'[m] = "VISIBLE")
  BY DEF storeVars, workerVars, queueVars, Send
<1>2. /\ OneWorkerEach /\ UnreceivedIsUntouched
      /\ \A v \in Workers : DoneSoFar(v)
      /\ \A d \in Deliveries : RowTells(d)
  BY DEF WorkIsDoneOnce
<1>3. OneWorkerEach'
  <2>1. \A w \in Workers : job[w] # NoMessage => job[w] \in Messages
    BY DEF TypeOK, QueueTypeOK
  <2> QED BY <1>1, <1>2, <2>1 DEF OneWorkerEach, Idle
<1>4. UnreceivedIsUntouched'
  BY <1>1, <1>2 DEF UnreceivedIsUntouched, Untouched
<1>5. \A v \in Workers : DoneSoFar(v)'
  BY <1>1, <1>2 DEF DoneSoFar, Delivery, Untouched
<1>6. \A d \in Deliveries : RowTells(d)'
  BY <1>1, <1>2 DEF RowTells
<1> QED BY <1>3, <1>4, <1>5, <1>6 DEF WorkIsDoneOnce

-----------------------------------------------------------------------------
(* The workers and the workflow together                                   *)

\* Sending messages, or nothing at all, takes nothing from the processor's
\* invariant,
LEMMA SendingKeepsInv ==
  ASSUME IInv, UNCHANGED storeVars, UNCHANGED workerVars,
         UNCHANGED <<outcome, resends>>, UNCHANGED queueVars \/ \E ms : Send(ms)
  PROVE  IInv'
<1>0. TypeOK /\ StoreTypeOK /\ QueueTypeOK /\ WorkerTypeOK(Steps)
  BY DEF IInv, TypeOK
<1>1. CASE UNCHANGED queueVars
  <2>1. UNCHANGED vars
    BY <1>1 DEF vars
  <2> QED BY <2>1, Inductive
<1>2. CASE \E ms : Send(ms)
  <2>1. PICK ms : Send(ms)
    BY <1>2
  <2>2. QueueTypeOK' /\ WorkerTypeOK(Steps)'
    BY <1>0, <2>1, SendTypes
  <2>3. TypeOK'
    BY <1>0, <2>2 DEF TypeOK, StoreTypeOK, storeVars, workerVars
  <2>4. ForgetsOnlyRecorded
    BY <1>0, <2>1 DEF ForgetsOnlyRecorded, Send, QueueTypeOK
  <2>5. UNCHANGED <<pc, job, outcome>>
    BY <2>1 DEF workerVars, Send
  <2> QED BY <2>3, <2>4, <2>5, QueueStepKeepsInv
<1> QED BY <1>1, <1>2

\* which says what the workflow relies on.
LEMMA BooksAreOK == IInv => BooksOK
BY DEF IInv, TypeOK, CountersMatchRows, BooksOK

\* What is written is written by a worker whose delivery has no row yet, and no
\* other row is touched.
LEMMA WhoWrites ==
  ASSUME TypeOK, WorkIsDoneOnce, ProcessorNext
  PROVE  \/ UNCHANGED storeVars
         \/ \E w \in Workers :
               /\ ~Idle(w) /\ Delivery(w) \in Deliveries /\ rows[Delivery(w)] = NoRow
               /\ \A d \in Deliveries \ {Delivery(w)} : rows'[d] = rows[d]
<1>1. ASSUME NEW w \in Workers, Debit(w) \/ DebitResent(w) \/ Pay(w) \/ Record(w)
      PROVE  /\ ~Idle(w) /\ Delivery(w) \in Deliveries /\ rows[Delivery(w)] = NoRow
             /\ \A d \in Deliveries \ {Delivery(w)} : rows'[d] = rows[d]
  <2>1. pc[w] \in {"DEBIT", "PUT_EFFECT", "RECORD"}
    BY <1>1 DEF Debit, DebitResent, Pay, Record
  <2>2. ~Idle(w) /\ Delivery(w) \in Deliveries
    BY <2>1, BusyMeansNotIdle
  <2>3. rows[Delivery(w)] = NoRow
    BY <2>1 DEF WorkIsDoneOnce, DoneSoFar, Untouched
  <2>4. UNCHANGED rows \/ rows' = [rows EXCEPT ![Delivery(w)] = outcome[w]]
    BY <1>1 DEF Debit, DebitResent, DebitBudget, Pay, PutEffect, Record, RecordOutcome
  <2>5. \A d \in Deliveries \ {Delivery(w)} : rows'[d] = rows[d]
    BY <2>4 DEF TypeOK, StoreTypeOK
  <2> QED BY <2>2, <2>3, <2>5
<1>2. ASSUME NEW w \in Workers,
             \/ Start(w) \/ Check(w) \/ DebitRefused(w) \/ RecordedByAnother(w)
             \/ Conflict(w) \/ Finish(w) \/ Interrupt(w)
      PROVE  UNCHANGED storeVars
  BY <1>2 DEF Start, StartMessage, Check, DebitRefused, RecordedByAnother, Conflict,
              RetryConflict, Finish, FinishMessage, Interrupt, FailMessage
<1>3. ASSUME NEW m \in Messages, VisibilityTimeout(m) PROVE UNCHANGED storeVars
  BY <1>3 DEF VisibilityTimeout
<1> QED BY <1>1, <1>2, <1>3 DEF ProcessorNext, WorkerStep

\* So the workers move in the way the workflow expects of them.
LEMMA ProcessorMoves ==
  ASSUME TypeOK, WorkIsDoneOnce, ProcessorNext
  PROVE  QueueMoves /\ TablesMove
<1>1. QueueMoves
  BY DEF ProcessorNext, WorkerStep, QueueMoves, Start, StartMessage, Check, Debit,
         DebitResent, DebitRefused, Pay, Record, RecordedByAnother, Conflict,
         RetryConflict, Finish, FinishMessage, Interrupt, FailMessage, VisibilityTimeout
<1>2. CASE UNCHANGED storeVars
  <2>1. RecordedDeliveries' = RecordedDeliveries
    BY <1>2, SameReading
  <2> QED BY <1>1, <1>2, <2>1 DEF TablesMove
<1>3. ASSUME NEW w \in Workers, ~Idle(w), Delivery(w) \in Deliveries,
             rows[Delivery(w)] = NoRow,
             \A d \in Deliveries \ {Delivery(w)} : rows'[d] = rows[d]
      PROVE  TablesMove
  <2>1. RecordedDeliveries \subseteq RecordedDeliveries'
    BY <1>3 DEF RecordedDeliveries
  <2>2. \A d \in RecordedDeliveries' \ RecordedDeliveries : d = Delivery(w)
    BY <1>3 DEF RecordedDeliveries
  <2>3. ~AllRecorded
    BY <1>3 DEF AllRecorded, RecordedDeliveries
  <2> QED BY <1>3, <2>1, <2>2, <2>3 DEF TablesMove, Delivery
<1> QED BY <1>1, <1>2, <1>3, WhoWrites

-----------------------------------------------------------------------------
(* The shares of the budget                                                *)

\* Deliveries are finitely many, and so are those that took money.
LEMMA DebitedAreDeliveries ==
  ASSUME TypeOK
  PROVE  /\ Debited \subseteq Deliveries
         /\ IsFiniteSet(Debited) /\ Cardinality(Debited) \in Nat
<1>1. \A w \in Workers : pc[w] = "PUT_EFFECT" => Delivery(w) \in Deliveries
  BY BusyMeansNotIdle
<1>2. Debited \subseteq Deliveries
  BY <1>1 DEF Debited, PayingDeliveries
<1> QED BY <1>2, StoreAssumption, FS_Subset, FS_CardinalityType

\* A step that neither takes money nor refuses any keeps the shares as they are.
LEMMA SharesStay ==
  ASSUME SharesAreTaken, UNCHANGED budgetRemaining, Debited' = Debited,
         \A d \in Deliveries : Refused(d)' => Refused(d)
  PROVE  SharesAreTaken'
<1>1. \A k : SharesLeft(k) <=> SharesLeft(k)'
  BY DEF SharesLeft
<1>2. PlanPhase("B")' = PlanPhase("B")
  BY DEF PlanPhase
<1> QED BY <1>1, <1>2 DEF SharesAreTaken

\* Most steps of a worker are such: it neither has the money in hand, nor is it
\* about to record what it decided.
LEMMA QuietStepKeepsShares ==
  ASSUME SharesAreTaken, NEW w \in Workers,
         UNCHANGED <<rows, effects, budgetRemaining>>,
         \A v \in Workers \ {w} : pc'[v] = pc[v] /\ job'[v] = job[v] /\ outcome'[v] = outcome[v],
         pc[w] # "PUT_EFFECT", pc'[w] \notin {"PUT_EFFECT", "RECORD"}
  PROVE  SharesAreTaken'
<1>1. \A v \in Workers \ {w} : Delivery(v)' = Delivery(v)
  BY DEF Delivery
<1>2. {Delivery(v) : v \in {u \in Workers : pc[u] = "PUT_EFFECT"}}'
        = {Delivery(v) : v \in {u \in Workers : pc[u] = "PUT_EFFECT"}}
  BY <1>1
<1>3. Debited' = Debited
  BY <1>2 DEF Debited, PayingDeliveries
<1>4. \A d \in Deliveries : Refused(d)' => Refused(d)
  BY <1>1 DEF Refused
<1> QED BY <1>3, <1>4, SharesStay

\* A debit takes a share; while there is one nobody has been refused.
LEMMA DebitKeepsShares ==
  ASSUME Workload, TypeOK, WorkIsDoneOnce, EqualAmounts, SharesAreTaken,
         NEW w \in Workers, Debit(w)
  PROVE  SharesAreTaken'
<1> USE StoreAssumption
<1>1. /\ pc[w] = "DEBIT" /\ UNCHANGED <<job, rows, effects, outcome>>
      /\ budgetRemaining >= AmountOf(Delivery(w))
      /\ budgetRemaining' = budgetRemaining - AmountOf(Delivery(w))
      /\ pc' = [pc EXCEPT ![w] = "PUT_EFFECT"]
  BY DEF Debit, DebitBudget, DebitAccepted, Proceed, queueVars
<1>2. PICK d \in Deliveries : d = Delivery(w)
  BY <1>1, BusyMeansNotIdle
<1>3. PICK A \in Nat \ {0} : \A e \in Entitlements : Amount[e] = A
  BY <1>2 DEF EqualAmounts
<1>4. AmountOf(d) = A /\ Entitlements # {}
  BY <1>2, <1>3 DEF AmountOf
<1>5. PICK k \in Nat : SharesLeft(k)
  BY DEF SharesAreTaken
<1>6. budgetRemaining = k * A
  BY <1>3, <1>4, <1>5 DEF SharesLeft
<1>7. k # 0
  BY <1>1, <1>2, <1>4, <1>6
<1>8. \A x \in Deliveries : ~Refused(x)
  <2> SUFFICES ASSUME NEW x \in Deliveries, Refused(x) PROVE FALSE
    OBVIOUS
  <2>1. SharesLeft(0)
    BY DEF SharesAreTaken
  <2>2. budgetRemaining = 0 * A
    BY <1>3, <1>4, <2>1 DEF SharesLeft
  <2> QED BY <1>1, <1>2, <1>4, <2>2
<1>9. /\ pc'[w] = "PUT_EFFECT" /\ \A v \in Workers \ {w} : pc'[v] = pc[v]
      /\ \A v \in Workers : Delivery(v)' = Delivery(v)
  BY <1>1 DEF TypeOK, WorkerTypeOK, Delivery
<1>10. \A x \in Deliveries : ~Refused(x)'
  BY <1>1, <1>8, <1>9 DEF Refused
<1>11. Debited' = Debited \cup {d}
  <2>1. {Delivery(v) : v \in {u \in Workers : pc[u] = "PUT_EFFECT"}}'
          = {Delivery(v) : v \in {u \in Workers : pc[u] = "PUT_EFFECT"}} \cup {d}
    BY <1>1, <1>2, <1>9
  <2> QED BY <1>1, <2>1 DEF Debited, PayingDeliveries
<1>12. d \notin Debited
  <2>1. effects[d] = 0 /\ ~Idle(w) /\ OneWorkerEach
    BY <1>1, <1>2, BusyMeansNotIdle DEF WorkIsDoneOnce, DoneSoFar, Untouched
  <2>2. ASSUME NEW v \in Workers, pc[v] = "PUT_EFFECT", Delivery(v) = d PROVE FALSE
    <3>1. ~Idle(v)
      BY <2>2, BusyMeansNotIdle
    <3>2. v = w
      BY <1>2, <2>1, <2>2, <3>1, OneWorkerPerDelivery
    <3> QED BY <1>1, <2>2, <3>2
  <2> QED BY <2>1, <2>2 DEF Debited, PayingDeliveries
<1>13. Cardinality(Debited') = Cardinality(Debited) + 1 /\ Cardinality(Debited) \in Nat
  BY <1>11, <1>12, DebitedAreDeliveries, FS_AddElement
<1>14. k - 1 \in Nat
  BY <1>7
<1>15. budgetRemaining' = (k - 1) * A
  BY <1>1, <1>2, <1>4, <1>6
<1>16. k + Cardinality(Debited) = Cardinality(Entitlements)
  BY <1>5 DEF SharesLeft
<1>17. (k - 1) + Cardinality(Debited') = Cardinality(Entitlements)
  BY <1>13, <1>16
<1>18. SharesLeft(k - 1)'
  BY <1>3, <1>15, <1>17 DEF SharesLeft
<1> QED BY <1>10, <1>14, <1>18 DEF SharesAreTaken

\* A delivery is only refused when all shares are taken, and then phase B has
\* begun, for phase A has fewer deliveries: it is not one of phase A.
LEMMA RefusalKeepsShares ==
  ASSUME Workload, TypeOK, WorkIsDoneOnce, PhaseBWaits, EqualAmounts, SharesAreTaken,
         NEW w \in Workers, DebitRefused(w)
  PROVE  SharesAreTaken'
<1> USE StoreAssumption
<1>1. /\ pc[w] = "DEBIT" /\ UNCHANGED <<job, rows, effects, budgetRemaining>>
      /\ ~(budgetRemaining >= AmountOf(Delivery(w)))
      /\ pc' = [pc EXCEPT ![w] = "RECORD"]
      /\ outcome' = [outcome EXCEPT ![w] = "BUDGET_EXHAUSTED"]
  BY DEF DebitRefused, DebitAccepted, Proceed, WillRecord, queueVars, storeVars
<1>2. PICK d \in Deliveries : d = Delivery(w)
  BY <1>1, BusyMeansNotIdle
<1>3. PICK A \in Nat \ {0} : \A e \in Entitlements : Amount[e] = A
  BY <1>2 DEF EqualAmounts
<1>4. AmountOf(d) = A /\ Entitlements # {}
  BY <1>2, <1>3 DEF AmountOf
<1>5. PICK k \in Nat : SharesLeft(k)
  BY DEF SharesAreTaken
<1>6. budgetRemaining = k * A
  BY <1>3, <1>4, <1>5 DEF SharesLeft
<1>7. k = 0
  <2>1. ASSUME k # 0 PROVE FALSE
    <3>1. PICK j \in Nat : k = j + 1
      <4>1. k - 1 \in Nat /\ k = (k - 1) + 1
        BY <2>1
      <4> QED BY <4>1
    <3>2. j * A \in Nat /\ (j + 1) * A = j * A + A
      OBVIOUS
    <3> QED BY <1>1, <1>2, <1>4, <1>6, <3>1, <3>2
  <2> QED BY <2>1
<1>8. /\ pc'[w] = "RECORD" /\ \A v \in Workers \ {w} : pc'[v] = pc[v]
      /\ \A v \in Workers \ {w} : outcome'[v] = outcome[v]
      /\ \A v \in Workers : Delivery(v)' = Delivery(v)
  BY <1>1 DEF TypeOK, WorkerTypeOK, Delivery
<1>9. Debited' = Debited
  <2>1. {Delivery(v) : v \in {u \in Workers : pc[u] = "PUT_EFFECT"}}'
          = {Delivery(v) : v \in {u \in Workers : pc[u] = "PUT_EFFECT"}}
    BY <1>1, <1>8
  <2> QED BY <1>1, <2>1 DEF Debited, PayingDeliveries
<1>10. SharesLeft(0) /\ SharesLeft(0)'
  BY <1>1, <1>5, <1>7, <1>9 DEF SharesLeft
<1>11. \A x \in Deliveries : Refused(x)' => Refused(x) \/ x = d
  BY <1>1, <1>2, <1>8 DEF Refused
<1>12. rows[d] = NoRow /\ effects[d] = 0 /\ ~Idle(w)
  BY <1>1, <1>2, BusyMeansNotIdle DEF WorkIsDoneOnce, DoneSoFar, Untouched
<1>13. d \notin Debited
  <2>1. OneWorkerEach
    BY DEF WorkIsDoneOnce
  <2>2. ASSUME NEW v \in Workers, pc[v] = "PUT_EFFECT", Delivery(v) = d PROVE FALSE
    <3>1. ~Idle(v)
      BY <2>2, BusyMeansNotIdle
    <3>2. v = w
      BY <1>2, <1>12, <2>1, <2>2, <3>1, OneWorkerPerDelivery
    <3> QED BY <1>1, <2>2, <3>2
  <2> QED BY <1>12, <2>2 DEF Debited, PayingDeliveries
<1>14. d \in PlanPhase("B")
  <2> SUFFICES ASSUME d \notin PlanPhase("B") PROVE FALSE
    OBVIOUS
  <2>1. d \in PlanPhase("A")
    BY DEF PlanPhase
  <2>2. PICK x \in Debited : x \notin PlanPhase("A")
    <3> SUFFICES ASSUME Debited \subseteq PlanPhase("A") PROVE FALSE
      OBVIOUS
    <3>1. Cardinality(Debited \cup {d}) = Cardinality(Debited) + 1
          /\ Cardinality(Debited) \in Nat
      BY <1>13, DebitedAreDeliveries, FS_AddElement
    <3>2. Cardinality(Debited) = Cardinality(Entitlements)
      BY <1>10, <3>1, FS_CardinalityType DEF SharesLeft
    <3>3. Debited \cup {d} \subseteq PlanPhase("A") /\ IsFiniteSet(PlanPhase("A"))
          /\ Cardinality(PlanPhase("A")) = 2 * Cardinality(Duplicated)
      BY <2>1, PlannedDeliveries DEF PhaseATarget
    <3>4. Cardinality(Debited \cup {d}) <= Cardinality(PlanPhase("A"))
      BY <3>3, FS_Subset
    <3>5. 2 * Cardinality(Duplicated) <= Cardinality(Entitlements)
          /\ Cardinality(Duplicated) \in Nat
      BY RunAssumption, FS_Subset, FS_CardinalityType
    <3> QED BY <3>1, <3>2, <3>3, <3>4, <3>5
  <2>3. x \in Deliveries /\ x \in PlanPhase("B")
    BY <2>2, DebitedAreDeliveries DEF PlanPhase
  <2>4. PICK m \in Messages : DeliveryOf[m] = x /\ queue[m] # "UNSENT"
    <3>1. CASE x \in PayingDeliveries
      <4>1. PICK m \in Messages : DeliveryOf[m] = x
        BY <2>3, RunAssumption
      <4>2. effects[x] # 0
        BY <3>1 DEF PayingDeliveries
      <4> QED BY <4>1, <4>2 DEF WorkIsDoneOnce, UnreceivedIsUntouched, Untouched
    <3>2. CASE x \notin PayingDeliveries
      <4>1. PICK v \in Workers : pc[v] = "PUT_EFFECT" /\ Delivery(v) = x
        BY <3>2 DEF Debited
      <4>2. ~Idle(v) /\ job[v] \in Messages
        BY <4>1, BusyMeansNotIdle
      <4>3. queue[job[v]] = "IN_FLIGHT"
        BY <4>2 DEF WorkIsDoneOnce, OneWorkerEach
      <4> QED BY <4>1, <4>2, <4>3 DEF Delivery
    <3> QED BY <3>1, <3>2
  <2>5. PlanPhase("A") \subseteq RecordedDeliveries
    BY <2>3, <2>4 DEF PhaseBWaits
  <2> QED BY <1>12, <2>1, <2>5 DEF RecordedDeliveries
<1>15. \A x \in Deliveries : Refused(x)' => SharesLeft(0)' /\ x \in PlanPhase("B")
  BY <1>10, <1>11, <1>14 DEF SharesAreTaken
<1>16. \E j \in Nat : SharesLeft(j)'
  BY <1>10
<1>17. PlanPhase("B")' = PlanPhase("B")
  BY DEF PlanPhase
<1> QED BY <1>15, <1>16, <1>17 DEF SharesAreTaken

\* Every step of the workers keeps the shares.
LEMMA ProcessorKeepsShares ==
  ASSUME Workload, TypeOK, WorkIsDoneOnce, PhaseBWaits, EqualAmounts, SharesAreTaken,
         ProcessorNext
  PROVE  SharesAreTaken'
<1>a. ASSUME NEW w \in Workers, NEW s, Proceed(w, s)
      PROVE  pc'[w] = s /\ \A v \in Workers \ {w} : pc'[v] = pc[v]
  BY <1>a DEF Proceed, TypeOK, WorkerTypeOK
<1>b. ASSUME NEW w \in Workers, NEW o, WillRecord(w, o)
      PROVE  outcome'[w] = o /\ \A v \in Workers \ {w} : outcome'[v] = outcome[v]
  BY <1>b DEF WillRecord, TypeOK
<1>1. ASSUME NEW w \in Workers, Start(w) PROVE SharesAreTaken'
  <2>1. PICK m \in Messages : StartMessage(w, m, "CHECK")
    BY <1>1 DEF Start
  <2>2. /\ Proceed(w, "CHECK") /\ job' = [job EXCEPT ![w] = m] /\ job[w] = NoMessage
        /\ UNCHANGED <<rows, effects, budgetRemaining, outcome>>
    BY <1>1, <2>1 DEF Start, StartMessage, Receive, Idle, storeVars
  <2>3. pc[w] = "IDLE" /\ \A v \in Workers \ {w} : job'[v] = job[v]
    BY <2>2 DEF TypeOK, WorkerTypeOK, QueueTypeOK, Idle
  <2> QED BY <1>a, <2>2, <2>3, QuietStepKeepsShares
<1>2. ASSUME NEW w \in Workers, Check(w) PROVE SharesAreTaken'
  <2>1. /\ pc[w] = "CHECK" /\ UNCHANGED <<rows, effects, budgetRemaining, outcome, job>>
        /\ Proceed(w, IF IsDeliveryRecorded(Delivery(w)) THEN "ACK" ELSE "DEBIT")
    BY <1>2 DEF Check, storeVars, queueVars
  <2>2. pc'[w] \in {"ACK", "DEBIT"} /\ \A v \in Workers \ {w} : pc'[v] = pc[v]
    BY <1>a, <2>1
  <2> QED BY <2>1, <2>2, QuietStepKeepsShares
<1>3. ASSUME NEW w \in Workers, Finish(w) PROVE SharesAreTaken'
  <2>1. /\ pc[w] = "ACK" /\ UNCHANGED <<rows, effects, budgetRemaining, outcome>>
        /\ job' = [job EXCEPT ![w] = NoMessage] /\ Proceed(w, "IDLE")
    BY <1>3 DEF Finish, FinishMessage, Acknowledge, storeVars
  <2>2. \A v \in Workers \ {w} : job'[v] = job[v]
    BY <2>1 DEF TypeOK, QueueTypeOK
  <2> QED BY <1>a, <2>1, <2>2, QuietStepKeepsShares
<1>4. ASSUME NEW w \in Workers, Conflict(w) PROVE SharesAreTaken'
  <2>1. /\ pc[w] \in {"DEBIT", "RECORD"} /\ UNCHANGED <<pc, job>>
        /\ UNCHANGED <<rows, effects, budgetRemaining>>
        /\ outcome' = [outcome EXCEPT ![w] = IF pc'[w] = "IDLE" THEN NoRow ELSE @]
    BY <1>4 DEF Conflict, RetryConflict, Workload, queueVars, storeVars
  <2>2. UNCHANGED outcome
    BY <2>1 DEF TypeOK
  <2>3. Debited' = Debited
    BY <2>1 DEF Debited, PayingDeliveries, Delivery
  <2>4. \A d \in Deliveries : Refused(d)' => Refused(d)
    BY <2>1, <2>2 DEF Refused, Delivery
  <2> QED BY <2>1, <2>3, <2>4, SharesStay
<1>5. ASSUME NEW w \in Workers, Pay(w) PROVE SharesAreTaken'
  <2>1. /\ pc[w] = "PUT_EFFECT" /\ UNCHANGED <<job, rows, budgetRemaining>>
        /\ effects' = [effects EXCEPT ![Delivery(w)] = @ + 1]
        /\ Proceed(w, "RECORD") /\ WillRecord(w, "COMMITTED")
    BY <1>5 DEF Pay, PutEffect, queueVars
  <2>2. /\ pc'[w] = "RECORD" /\ outcome'[w] = "COMMITTED"
        /\ \A v \in Workers \ {w} : pc'[v] = pc[v] /\ outcome'[v] = outcome[v]
    BY <1>a, <1>b, <2>1
  <2>3. \A v \in Workers : Delivery(v)' = Delivery(v)
    BY <2>1 DEF Delivery
  <2>4. PICK d \in Deliveries : d = Delivery(w)
    BY <2>1, BusyMeansNotIdle
  <2>5. PayingDeliveries' = PayingDeliveries \cup {d}
    BY <2>1, <2>4 DEF PayingDeliveries, TypeOK, StoreTypeOK
  <2>6. {Delivery(v) : v \in {u \in Workers : pc[u] = "PUT_EFFECT"}}
          = {Delivery(v) : v \in {u \in Workers : pc[u] = "PUT_EFFECT"}}' \cup {d}
    BY <2>1, <2>2, <2>3, <2>4
  <2>7. Debited' = Debited
    BY <2>5, <2>6 DEF Debited
  <2>8. \A x \in Deliveries : Refused(x)' => Refused(x)
    BY <2>1, <2>2, <2>3 DEF Refused
  <2> QED BY <2>1, <2>7, <2>8, SharesStay
<1>6. ASSUME NEW w \in Workers, Record(w) PROVE SharesAreTaken'
  <2>1. /\ pc[w] = "RECORD" /\ UNCHANGED <<job, effects, budgetRemaining>>
        /\ rows' = [rows EXCEPT ![Delivery(w)] = outcome[w]]
        /\ Proceed(w, "ACK") /\ WillRecord(w, NoRow)
    BY <1>6 DEF Record, RecordOutcome, queueVars
  <2>2. /\ pc'[w] = "ACK"
        /\ \A v \in Workers \ {w} : pc'[v] = pc[v] /\ outcome'[v] = outcome[v]
    BY <1>a, <1>b, <2>1
  <2>3. \A v \in Workers : Delivery(v)' = Delivery(v)
    BY <2>1 DEF Delivery
  <2>4. {Delivery(v) : v \in {u \in Workers : pc[u] = "PUT_EFFECT"}}'
          = {Delivery(v) : v \in {u \in Workers : pc[u] = "PUT_EFFECT"}}
    BY <2>1, <2>2, <2>3
  <2>5. Debited' = Debited
    BY <2>1, <2>4 DEF Debited, PayingDeliveries
  <2>6. \A x \in Deliveries : Refused(x)' => Refused(x)
    <3>1. PICK d \in Deliveries : d = Delivery(w)
      BY <2>1, BusyMeansNotIdle
    <3>2. \A x \in Deliveries : rows'[x] = rows[x] \/ (x = d /\ rows'[x] = outcome[w])
      BY <2>1, <3>1 DEF TypeOK, StoreTypeOK
    <3> QED BY <2>1, <2>2, <2>3, <3>1, <3>2 DEF Refused
  <2> QED BY <2>1, <2>5, <2>6, SharesStay
<1>7. ASSUME NEW w \in Workers, RecordedByAnother(w) PROVE FALSE
  <2>1. pc[w] = "RECORD" /\ rows[Delivery(w)] # NoRow
    BY <1>7 DEF RecordedByAnother, IsDeliveryRecorded
  <2> QED BY <2>1 DEF WorkIsDoneOnce, DoneSoFar
<1>8. ASSUME NEW w \in Workers, DebitResent(w) \/ Interrupt(w) PROVE FALSE
  BY <1>8 DEF DebitResent, Interrupt, Workload
<1>9. ASSUME NEW m \in Messages, VisibilityTimeout(m) PROVE FALSE
  BY <1>9 DEF VisibilityTimeout, Workload
<1> QED BY <1>1, <1>2, <1>3, <1>4, <1>5, <1>6, <1>7, <1>8, <1>9, DebitKeepsShares,
           RefusalKeepsShares DEF ProcessorNext, WorkerStep

\* So does every other step.
LEMMA SendingKeepsShares ==
  ASSUME SharesAreTaken, UNCHANGED storeVars, UNCHANGED workerVars, UNCHANGED outcome,
         UNCHANGED queueVars \/ \E ms : Send(ms)
  PROVE  SharesAreTaken'
<1>1. UNCHANGED <<rows, effects, budgetRemaining, pc, job, outcome>>
  BY DEF storeVars, workerVars, queueVars, Send
<1>2. Debited' = Debited
  BY <1>1 DEF Debited, PayingDeliveries, Delivery
<1>3. \A d \in Deliveries : Refused(d)' => Refused(d)
  BY <1>1 DEF Refused, Delivery
<1> QED BY <1>1, <1>2, <1>3, SharesStay

\* With equal amounts the batch's budget is a share for every entitlement.
LEMMA BudgetInShares ==
  ASSUME NEW A \in Nat, \A e \in Entitlements : Amount[e] = A
  PROVE  Budget = Cardinality(Entitlements) * A
<1>1. IsFiniteSet(1 .. A) /\ Cardinality(1 .. A) = A
  BY FS_Interval
<1>2. UNION {{e} \X (1 .. Amount[e]) : e \in Entitlements} = Entitlements \X (1 .. A)
  OBVIOUS
<1>3. Cardinality(Entitlements \X (1 .. A)) = Cardinality(Entitlements) * Cardinality(1 .. A)
  BY <1>1, StoreAssumption, FS_Product
<1> QED BY <1>1, <1>2, <1>3, RunAssumption

-----------------------------------------------------------------------------
(* The invariant of the workload                                           *)

\* It holds before the run is started,
LEMMA WorkloadInitially == RunInit => WorkloadInv
<1> SUFFICES ASSUME RunInit PROVE WorkloadInv
  OBVIOUS
<1> USE StoreAssumption, VulnerableAssumption
<1>0. StoreInit /\ QueueInit("UNSENT") /\ ProcessorInit /\ WorkerInit /\ WorkflowInit
  BY DEF RunInit, ProcessorInit
<1>1. StoreTypeOK
  BY <1>0 DEF StoreInit, StoreTypeOK, NoRow
<1>2. QueueTypeOK /\ WorkerTypeOK(Steps)
  BY <1>0, FreshTypes
<1>3. TypeOK
  BY <1>0, <1>1, <1>2 DEF ProcessorInit, WorkerInit, TypeOK, NoRow
<1>4. MoneyCovered
  BY <1>0, NothingInHand
<1>5. RecordedDeliveries = {} /\ \A o \in Outcomes : RowsWith(o) = {}
  BY <1>0 DEF StoreInit, RecordedDeliveries, RowsWith, NoRow, Outcomes
<1>6. CountersMatchRows /\ CommittedMeansPaid
  BY <1>0, <1>5, FS_EmptySet
     DEF CountersMatchRows, CommittedMeansPaid, StoreInit, Outcomes
<1>7. PendingDecisionsHold /\ DeletedMeansRecorded /\ PaymentsWereAskedFor
  BY <1>0 DEF StoreInit, QueueInit, ProcessorInit, WorkerInit, PendingDecisionsHold,
         DecisionHolds, DeletedMeansRecorded, PaymentsWereAskedFor, PayingDeliveries, NoRow
<1>8. IInv
  BY <1>3, <1>4, <1>6, <1>7 DEF IInv
<1>9. WorkflowInv
  BY <1>0, <1>8, BooksAreOK, WorkflowInitially
<1>10. WorkIsDoneOnce
  <2>1. OneWorkerEach
    BY <1>0 DEF OneWorkerEach, QueueInit, Idle
  <2>2. \A d \in Deliveries : Untouched(d) /\ RowTells(d)
    BY <1>0 DEF StoreInit, Untouched, RowTells, NoRow
  <2>3. UnreceivedIsUntouched
    BY <2>2, WorkerAssumption DEF UnreceivedIsUntouched
  <2>4. \A w \in Workers : DoneSoFar(w)
    BY <1>0 DEF WorkerInit, DoneSoFar
  <2> QED BY <2>1, <2>2, <2>3, <2>4 DEF WorkIsDoneOnce
<1>11. ASSUME EqualAmounts PROVE SharesAreTaken
  <2>1. PICK f \in Entitlements : TRUE
    BY RunAssumption
  <2>2. PICK A \in Nat : \A e \in Entitlements : Amount[e] = A
    BY <1>11, <2>1 DEF EqualAmounts
  <2>3. PICK k \in Nat : k = Cardinality(Entitlements)
    BY FS_CardinalityType
  <2>4. budgetRemaining = k * A
    BY <1>0, <2>2, <2>3, BudgetInShares DEF StoreInit
  <2>5. Debited = {}
    BY <1>0 DEF Debited, PayingDeliveries, StoreInit, WorkerInit
  <2>6. k + Cardinality(Debited) = Cardinality(Entitlements)
    BY <2>3, <2>5, FS_EmptySet
  <2>7. SharesLeft(k)
    BY <2>2, <2>4, <2>6 DEF SharesLeft
  <2>8. \A d \in Deliveries : ~Refused(d)
    BY <1>0 DEF Refused, StoreInit, WorkerInit, NoRow
  <2> QED BY <2>7, <2>8 DEF SharesAreTaken
<1> QED BY <1>8, <1>9, <1>10, <1>11 DEF WorkloadInv

\* and every step of the workers, of a task and of the execution preserves it.
LEMMA WorkloadInductive ==
  ASSUME Workload
  PROVE  WorkloadInv /\ [RunNext]_runVars => WorkloadInv'
<1> SUFFICES ASSUME WorkloadInv, [RunNext]_runVars PROVE WorkloadInv'
  OBVIOUS
<1>0. /\ IInv /\ WorkflowInv /\ WorkIsDoneOnce /\ TypeOK
      /\ EqualAmounts => SharesAreTaken
      /\ PhaseBWaits
  BY DEF WorkloadInv, IInv, WorkflowInv, QueueOK
<1>a. IInv' => BooksOK' /\ TypeOK'
  BY DEF IInv, TypeOK, CountersMatchRows, BooksOK
<1>b. EqualAmounts' <=> EqualAmounts
  BY DEF EqualAmounts
<1>1. CASE ProcessorNext /\ UNCHANGED workflowVars
  <2>1. IInv'
    BY <1>0, <1>1, Inductive DEF Next
  <2>2. QueueMoves /\ TablesMove
    BY <1>0, <1>1, ProcessorMoves
  <2>3. WorkflowInv'
    BY <1>0, <1>1, <1>a, <2>1, <2>2, WorkersKeepRun
  <2>4. WorkIsDoneOnce'
    BY <1>0, <1>1, <1>a, <2>1, ProcessorKeepsWork
  <2>5. EqualAmounts => SharesAreTaken'
    BY <1>0, <1>1, ProcessorKeepsShares
  <2> QED BY <1>b, <2>1, <2>3, <2>4, <2>5 DEF WorkloadInv
<1>2. ASSUME UNCHANGED storeVars, UNCHANGED workerVars, UNCHANGED <<outcome, resends>>,
             UNCHANGED queueVars \/ \E ms : Send(ms), WorkflowInv'
      PROVE  WorkloadInv'
  <2>1. IInv'
    BY <1>0, <1>2, SendingKeepsInv
  <2>2. WorkIsDoneOnce'
    BY <1>0, <1>2, SendingKeepsWork
  <2>3. EqualAmounts => SharesAreTaken'
    BY <1>0, <1>2, SendingKeepsShares
  <2> QED BY <1>2, <1>b, <2>1, <2>2, <2>3 DEF WorkloadInv
<1>3. CASE WorkflowNext /\ UNCHANGED <<outcome, resends>>
  <2>1. UNCHANGED storeVars /\ UNCHANGED workerVars
        /\ (UNCHANGED queueVars \/ \E ms : Send(ms))
    BY <1>0, <1>3, WorkflowOnlySends
  <2>2. WorkflowInv'
    BY <1>0, <1>3, WorkflowKeepsRun
  <2> QED BY <1>2, <1>3, <2>1, <2>2
<1>4. CASE UNCHANGED runVars
  <2>1. /\ TablesUntouched /\ UNCHANGED workflowVars
        /\ UNCHANGED storeVars /\ UNCHANGED workerVars /\ UNCHANGED queueVars
        /\ UNCHANGED <<outcome, resends>>
    BY <1>4 DEF runVars, vars, TablesUntouched
  <2>2. WorkflowInv'
    BY <1>0, <2>1, StutteringKeepsRun
  <2> QED BY <1>2, <2>1, <2>2
<1> QED BY <1>1, <1>3, <1>4 DEF RunNext

-----------------------------------------------------------------------------
(* What a completed run comes to                                           *)

\* When every delivery is recorded nothing is in hand: those that took money
\* are those that paid.
LEMMA NothingInHandAtTheEnd ==
  ASSUME TypeOK, WorkIsDoneOnce, AllRecorded
  PROVE  /\ Debited = PayingDeliveries
         /\ \A d \in Deliveries :
               \/ rows[d] = "COMMITTED" /\ effects[d] = 1
               \/ rows[d] = "BUDGET_EXHAUSTED" /\ effects[d] = 0
<1>1. ASSUME NEW w \in Workers, pc[w] = "PUT_EFFECT" PROVE FALSE
  <2>1. rows[Delivery(w)] = NoRow
    BY <1>1 DEF WorkIsDoneOnce, DoneSoFar, Untouched
  <2>2. Delivery(w) \in Deliveries
    BY <1>1, BusyMeansNotIdle
  <2> QED BY <2>1, <2>2 DEF AllRecorded, RecordedDeliveries
<1>2. Debited = PayingDeliveries
  BY <1>1 DEF Debited
<1>3. ASSUME NEW d \in Deliveries
      PROVE  \/ rows[d] = "COMMITTED" /\ effects[d] = 1
             \/ rows[d] = "BUDGET_EXHAUSTED" /\ effects[d] = 0
  BY DEF WorkIsDoneOnce, RowTells, AllRecorded, RecordedDeliveries
<1> QED BY <1>2, <1>3

\* Then every share is taken, by every delivery of phase A and by others.
LEMMA EveryShareIsTaken ==
  ASSUME TypeOK, WorkIsDoneOnce, SharesAreTaken, AllRecorded
  PROVE  /\ Cardinality(PayingDeliveries) = Cardinality(Entitlements)
         /\ \A d \in PlanPhase("A") : effects[d] = 1
         /\ \A d \in Deliveries : effects[d] \in {0, 1}
<1> USE StoreAssumption
<1>0. /\ Debited = PayingDeliveries
      /\ \A d \in Deliveries : \/ rows[d] = "COMMITTED" /\ effects[d] = 1
                               \/ rows[d] = "BUDGET_EXHAUSTED" /\ effects[d] = 0
  BY NothingInHandAtTheEnd
<1>1. Cardinality(Duplicated) \in Nat \ {0} /\ Cardinality(Entitlements) \in Nat
      /\ Cardinality(Deliveries) = Cardinality(Entitlements) + Cardinality(Duplicated)
  BY RunAssumption, FS_Subset, FS_EmptySet, FS_CardinalityType, PlannedDeliveries
     DEF ExpectedDeliveries
<1>2. PICK d \in Deliveries : d \notin Debited
  <2> SUFFICES ASSUME Deliveries \subseteq Debited PROVE FALSE
    OBVIOUS
  <2>1. Debited = Deliveries
    BY DebitedAreDeliveries
  <2>2. PICK k \in Nat : k + Cardinality(Debited) = Cardinality(Entitlements)
    BY DEF SharesAreTaken, SharesLeft
  <2> QED BY <1>1, <2>1, <2>2
<1>3. rows[d] = "BUDGET_EXHAUSTED"
  BY <1>0, <1>2 DEF PayingDeliveries
<1>4. 0 + Cardinality(Debited) = Cardinality(Entitlements)
  BY <1>3 DEF SharesAreTaken, Refused, SharesLeft
<1>5. Cardinality(Debited) \in Nat
  BY DebitedAreDeliveries
<1>6. ASSUME NEW x \in PlanPhase("A") PROVE effects[x] = 1
  <2>1. x \in Deliveries /\ x \notin PlanPhase("B")
    BY DEF PlanPhase
  <2>2. ~Refused(x)
    BY <2>1 DEF SharesAreTaken
  <2> QED BY <1>0, <2>1, <2>2 DEF Refused
<1> QED BY <1>0, <1>4, <1>5, <1>6

\* The payments of an entitlement, as the evaluator counts them.
LEMMA PaymentsCounted ==
  ASSUME TypeOK, \A d \in PlanPhase("A") : effects[d] = 1,
         \A d \in Deliveries : effects[d] \in {0, 1}, NEW e \in Entitlements
  PROVE  /\ e \in Duplicated => Cardinality(EffectsOf(e)) = 2
         /\ e \notin Duplicated =>
               \E d \in Deliveries :
                  /\ Fibre(EntitlementOf, Deliveries, e) = {d}
                  /\ Cardinality(EffectsOf(e)) = effects[d]
<1> DEFINE mine == Fibre(EntitlementOf, Deliveries, e)
<1>1. IsFiniteSet(mine) /\ Cardinality(mine) = IF e \in Duplicated THEN 2 ELSE 1
  BY DeliveriesOfEach
<1>2. EffectsOf(e) = UNION {{d} \X (1 .. effects[d]) : d \in mine}
  BY DEF EffectsOf, Fibre
<1>3. mine \subseteq Deliveries /\ \A d \in mine : EntitlementOf[d] = e
  BY DEF Fibre
<1> HIDE DEF mine
<1>4. CASE e \in Duplicated
  <2>1. \A d \in mine : effects[d] = 1
    BY <1>3, <1>4 DEF PlanPhase
  <2>2. PICK n \in Nat : n = 1
    OBVIOUS
  <2>3. EffectsOf(e) = mine \X (1 .. n)
    BY <1>2, <2>1, <2>2
  <2>4. IsFiniteSet(1 .. n) /\ Cardinality(1 .. n) = n
    BY FS_Interval
  <2>5. Cardinality(mine \X (1 .. n)) = Cardinality(mine) * Cardinality(1 .. n)
    BY <1>1, <2>4, FS_Product
  <2>6. Cardinality(mine) = 2
    BY <1>1, <1>4
  <2> QED BY <1>4, <2>2, <2>3, <2>4, <2>5, <2>6
<1>5. CASE e \notin Duplicated
  <2>1. PICK d : mine = {d}
    BY <1>1, <1>5, FS_Singleton
  <2>2. PICK n \in Nat : n = effects[d]
    BY <1>3, <2>1
  <2>3. EffectsOf(e) = {d} \X (1 .. n)
    BY <1>2, <2>1, <2>2
  <2>4. Cardinality({d} \X (1 .. n)) = n
    BY AllPaiseOf
  <2> QED BY <1>3, <1>5, <2>1, <2>2, <2>3, <2>4 DEF mine
<1> QED BY <1>4, <1>5

\* The duplicated entitlements are paid twice, and as many others not at all.
LEMMA CompletedStarves ==
  ASSUME WorkloadInv
  PROVE  ExactlyDStarve
<1> SUFFICES ASSUME run.status = "COMPLETED", EqualAmounts
             PROVE  /\ run.report.verdict = "FAIL"
                    /\ DoublePaid(run.report.payments) = Duplicated
                    /\ Cardinality(Unpaid(run.report.payments)) = Cardinality(Duplicated)
  BY DEF ExactlyDStarve
<1> USE StoreAssumption
<1>0. /\ TypeOK /\ WorkIsDoneOnce /\ SharesAreTaken
      /\ AllRecorded /\ run.report = Truth
  BY DEF WorkloadInv, IInv, WorkflowInv, RunOK
<1>1. /\ Cardinality(PayingDeliveries) = Cardinality(Entitlements)
      /\ \A d \in PlanPhase("A") : effects[d] = 1
      /\ \A d \in Deliveries : effects[d] \in {0, 1}
  BY <1>0, EveryShareIsTaken
<1> DEFINE payments == [e \in Entitlements |-> Cardinality(EffectsOf(e))]
<1>2. \A e \in Duplicated : payments[e] = 2
  BY <1>0, <1>1, PaymentsCounted, RunAssumption
<1>3. ASSUME NEW e \in Entitlements \ Duplicated
      PROVE  \E d \in Deliveries : /\ Fibre(EntitlementOf, Deliveries, e) = {d}
                                   /\ payments[e] = effects[d]
  BY <1>0, <1>1, PaymentsCounted
<1>4. LedgerRead.payments = payments
  BY DEF LedgerRead
<1> HIDE DEF payments
<1>5. run.report.payments = payments
  BY <1>0, <1>4 DEF Truth, Evaluated
<1>6. DoublePaid(payments) = Duplicated
  <2>1. ASSUME NEW e \in Entitlements \ Duplicated PROVE ~(payments[e] > 1)
    BY <1>1, <1>3
  <2> QED BY <1>2, <2>1, RunAssumption DEF DoublePaid
<1>7. run.report.verdict = "FAIL"
  <2>1. Duplicated # {}
    BY RunAssumption
  <2> QED BY <1>0, <1>4, <1>6, <2>1 DEF Truth, Evaluated
<1>8. ASSUME NEW e \in Unpaid(payments)
      PROVE  \E d \in Deliveries :
                Fibre(EntitlementOf, Deliveries, e) = {d} /\ effects[d] = 0
  <2>1. e \in Entitlements /\ payments[e] = 0
    BY DEF Unpaid
  <2>2. e \notin Duplicated
    BY <1>2, <2>1
  <2> QED BY <1>3, <2>1, <2>2
<1>9. Preimage(EntitlementOf, Deliveries, Unpaid(payments)) = Deliveries \ PayingDeliveries
  <2>1. ASSUME NEW d \in Deliveries, EntitlementOf[d] \in Unpaid(payments)
        PROVE  effects[d] = 0
    BY <1>8, <2>1 DEF Fibre
  <2>2. ASSUME NEW d \in Deliveries, effects[d] = 0
        PROVE  EntitlementOf[d] \in Unpaid(payments)
    <3>1. d \notin PlanPhase("A")
      BY <1>1, <2>2
    <3>2. EntitlementOf[d] \in Entitlements \ Duplicated
      BY <3>1 DEF PlanPhase
    <3>3. PICK x \in Deliveries : /\ Fibre(EntitlementOf, Deliveries, EntitlementOf[d]) = {x}
                                  /\ payments[EntitlementOf[d]] = effects[x]
      BY <1>3, <3>2
    <3>4. x = d
      BY <3>3 DEF Fibre
    <3> QED BY <2>2, <3>2, <3>3, <3>4 DEF Unpaid
  <2>3. \A d \in Deliveries : d \notin PayingDeliveries <=> effects[d] = 0
    BY <1>1 DEF PayingDeliveries
  <2> QED BY <2>1, <2>2, <2>3 DEF Preimage
<1>10. Cardinality(Deliveries \ PayingDeliveries) = Cardinality(Duplicated)
  <2>1. PayingDeliveries \subseteq Deliveries
    BY DEF PayingDeliveries
  <2>2. Cardinality(Deliveries \ PayingDeliveries)
          = Cardinality(Deliveries) - Cardinality(Deliveries \cap PayingDeliveries)
    BY FS_Difference
  <2>3. Cardinality(Deliveries \cap PayingDeliveries) = Cardinality(Entitlements)
    <3>1. Deliveries \cap PayingDeliveries = PayingDeliveries
      BY <2>1
    <3> QED BY <1>1, <3>1
  <2>4. Cardinality(Deliveries) = Cardinality(Entitlements) + Cardinality(Duplicated)
    BY PlannedDeliveries DEF ExpectedDeliveries
  <2>5. Cardinality(Entitlements) \in Nat /\ Cardinality(Duplicated) \in Nat
    BY RunAssumption, FS_Subset, FS_CardinalityType
  <2> QED BY <2>2, <2>3, <2>4, <2>5
<1>11. Cardinality(Unpaid(payments)) = Cardinality(Duplicated)
  <2>1. IsFiniteSet(Unpaid(payments)) /\ Cardinality(Unpaid(payments)) \in Nat
    <3>1. Unpaid(payments) \subseteq Entitlements
      BY DEF Unpaid
    <3> QED BY <3>1, FS_Subset, FS_CardinalityType
  <2>2. ASSUME NEW e \in Unpaid(payments)
        PROVE  /\ IsFiniteSet(Fibre(EntitlementOf, Deliveries, e))
               /\ Cardinality(Fibre(EntitlementOf, Deliveries, e)) = 1
    <3>1. PICK d : Fibre(EntitlementOf, Deliveries, e) = {d}
      BY <1>8, <2>2
    <3>2. IsFiniteSet({d}) /\ Cardinality({d}) = 1
      BY FS_Singleton
    <3> QED BY <3>1, <3>2
  <2>3. 1 \in Nat
    OBVIOUS
  <2>4. Cardinality(Preimage(EntitlementOf, Deliveries, Unpaid(payments)))
          = Cardinality(Unpaid(payments)) * 1
    BY <2>1, <2>2, <2>3, PreimageCount
  <2> QED BY <1>9, <1>10, <2>1, <2>4
<1> QED BY <1>5, <1>6, <1>7, <1>11

-----------------------------------------------------------------------------
(* The results about the workload                                          *)

\* While no worker fails and every delivery is published once, each is worked on
\* once, and with equal amounts each takes one share of the budget.
THEOREM WorkloadInvariant == ASSUME Workload PROVE RunSpec => []WorkloadInv
<1>1. RunInit => WorkloadInv
  BY WorkloadInitially
<1>2. WorkloadInv /\ [RunNext]_runVars => WorkloadInv'
  BY WorkloadInductive
<1> QED BY <1>1, <1>2, PTL DEF RunSpec

\* A completed run of that workload reports exactly the duplicated entitlements
\* as paid twice and exactly as many others as unpaid, in whatever order the
\* deliveries came, with however many workers, and however often a task of the
\* workflow was repeated.
THEOREM ExactlyDAlwaysStarve == ASSUME Workload PROVE RunSpec => []ExactlyDStarve
<1>1. RunSpec => []WorkloadInv
  BY WorkloadInvariant
<1>2. WorkloadInv => ExactlyDStarve
  BY CompletedStarves
<1> QED BY <1>1, <1>2, PTL

\* What the workflow promises it promises against this processor too: phase B
\* waits, the execution and the run agree on the end, and what a completed run
\* stored and signed is what the tables say.
THEOREM WorkloadIsReportedTruly ==
  ASSUME Workload
  PROVE  RunSpec => [](PhaseBWaits /\ EndsAgree /\ ReportStaysTrue)
<1>1. RunSpec => []WorkloadInv
  BY WorkloadInvariant
<1>2. WorkloadInv => PhaseBWaits /\ EndsAgree /\ ReportStaysTrue
  <2> SUFFICES ASSUME WorkloadInv PROVE PhaseBWaits /\ EndsAgree /\ ReportStaysTrue
    OBVIOUS
  <2>1. EndsAgree
    BY EndsInv DEF WorkloadInv
  <2> QED BY <2>1 DEF WorkloadInv, WorkflowInv, QueueOK, RunOK, ReportStaysTrue
<1> QED BY <1>1, <1>2, PTL
=============================================================================
