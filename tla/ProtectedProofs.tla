--------------------------- MODULE ProtectedProofs ---------------------------
(***************************************************************************)
(* Proofs about the protected processor, and about whole runs against it,  *)
(* for every value of the constants: any number of entitlements,           *)
(* deliveries, messages and workers, any amounts, and any number of        *)
(* redeliveries, retries and crashes.                                      *)
(*                                                                         *)
(* Only two requests change the tables, so the argument is in three parts: *)
(* what each of the two preserves of the tables (StoreInv), that the       *)
(* tables only move forward (MovesForward), and that a decision a worker   *)
(* holds is therefore still right when it acts on it.  Then the processor  *)
(* implements PaymentContract.                                             *)
(*                                                                         *)
(* In a whole run the workflow has abandoned and repeated tasks, and fills *)
(* the queue.  Its part of the invariant comes from WorkflowProofs; what   *)
(* is left to show is that each side moves in the way the other relies on. *)
(***************************************************************************)
EXTENDS ProtectedRun, WorkflowProofs

\* What is invariant of the tables alone.
StoreInv ==
    /\ AtMostOnePayment
    /\ TablesAgree
    /\ RefusedMeansUnpaid
    /\ MoneyConserved
    /\ CountersMatchRows

IInv ==
    /\ TypeOK
    /\ StoreInv
    /\ PendingDecisionsHold
    /\ DeletedMeansRecorded

\* What a request of this processor may do to the tables.
MovesForward ==
    /\ budgetRemaining' <= budgetRemaining
    /\ \A d \in Deliveries : rows[d] # NoRow => rows'[d] = rows[d]
    /\ \A e \in Entitlements : claim[e] # NoClaim => claim'[e] = claim[e]
    /\ ~ReasonsMayBeMasked =>
         \A e \in Entitlements :
            claim[e] = NoClaim /\ budgetRemaining < Amount[e] => claim'[e] = NoClaim

-----------------------------------------------------------------------------
(* The tables                                                              *)

\* A fresh run satisfies the invariant of the tables.
LEMMA StoreInitially == StoreInit => StoreInv
<1> SUFFICES ASSUME StoreInit PROVE StoreInv
  OBVIOUS
<1> USE StoreAssumption DEF StoreInit
<1>1. \A d \in Deliveries : AmountOf(d) \in Nat
  BY DEF AmountOf
<1>2. PaisePaid = {}
  BY <1>1 DEF PaisePaid
<1>3. RecordedDeliveries = {} /\ \A o \in Outcomes : RowsWith(o) = {}
  BY DEF RecordedDeliveries, RowsWith, NoRow, Outcomes
<1>4. MoneyConserved
  BY <1>2, FS_EmptySet DEF MoneyConserved, MoneyPaid
<1>5. CountersMatchRows
  BY <1>3, FS_EmptySet DEF CountersMatchRows
<1>6. AtMostOnePayment
  BY DEF AtMostOnePayment, PayingDeliveries
<1>7. TablesAgree
  BY DEF TablesAgree, NoRow
<1>8. RefusedMeansUnpaid
  BY <1>3 DEF RefusedMeansUnpaid, Outcomes
<1> QED BY <1>4, <1>5, <1>6, <1>7, <1>8 DEF StoreInv

\* The four-item transaction keeps the tables consistent.
LEMMA CommitKeepsTables ==
  ASSUME StoreTypeOK, StoreInv, NEW d \in Deliveries, CommitPayment(d)
  PROVE  /\ StoreTypeOK'
         /\ StoreInv'
         /\ MovesForward
         /\ IsDeliveryRecorded(d)'
<1> DEFINE e == EntitlementOf[d]
<1> USE StoreAssumption
<1>1. /\ e \in Entitlements
      /\ claim[e] = NoClaim
      /\ budgetRemaining >= AmountOf(d)
      /\ rows[d] = NoRow
  <2>1. \A i \in CommitItems : CommitCondition(i, d)
    BY DEF CommitPayment
  <2>2. /\ CommitCondition("IDEMPOTENCY", d)
        /\ CommitCondition("RUN_BUDGET", d)
        /\ CommitCondition("DELIVERY", d)
    BY <2>1 DEF CommitItems
  <2> QED BY <2>2 DEF CommitCondition, IsEntitlementClaimed, IsDeliveryRecorded
<1>2. AmountOf(d) \in Nat \ {0}
  BY DEF AmountOf
<1>3. /\ claim' = [claim EXCEPT ![e] = d]
      /\ budgetRemaining' = budgetRemaining - AmountOf(d)
      /\ effects' = [effects EXCEPT ![d] = @ + 1]
      /\ rows' = [rows EXCEPT ![d] = "COMMITTED"]
      /\ CountDelivery("COMMITTED")
  BY DEF CommitPayment
<1>4. StoreTypeOK'
  BY <1>1, <1>2, <1>3 DEF StoreTypeOK, CountDelivery, Outcomes
<1>5. \A x \in Deliveries : effects[x] \in {0, 1}
  BY DEF StoreInv, AtMostOnePayment, StoreTypeOK
<1>6. effects[d] = 0 /\ \A x \in Deliveries : EntitlementOf[x] = e => effects[x] = 0
  BY <1>1, <1>5 DEF StoreInv, TablesAgree, StoreTypeOK
<1>7. AtMostOnePayment'
  BY <1>3, <1>5, <1>6 DEF StoreInv, AtMostOnePayment, PayingDeliveries, StoreTypeOK
<1>8. TablesAgree'
  BY <1>1, <1>3, <1>5, <1>6 DEF StoreInv, TablesAgree, StoreTypeOK, Outcomes, NoRow
<1>9. \A x \in Deliveries :
        rows'[x] = "BUDGET_EXHAUSTED" =>
           /\ rows[x] = "BUDGET_EXHAUSTED"
           /\ budgetRemaining < AmountOf(x)
           /\ ~ReasonsMayBeMasked => EntitlementOf[x] # e
  BY <1>1, <1>3 DEF StoreInv, RefusedMeansUnpaid, RowsWith, StoreTypeOK, AmountOf
<1>10. RefusedMeansUnpaid'
  <2>1. ASSUME NEW x \in Deliveries, rows'[x] = "BUDGET_EXHAUSTED"
        PROVE  /\ budgetRemaining' < AmountOf(x)
               /\ ~ReasonsMayBeMasked => claim'[EntitlementOf[x]] = NoClaim
    <3>1. AmountOf(x) \in Nat
      BY DEF AmountOf
    <3>2. budgetRemaining' < AmountOf(x)
      BY <1>2, <1>3, <1>9, <2>1, <3>1 DEF StoreTypeOK
    <3>3. ~ReasonsMayBeMasked => claim[EntitlementOf[x]] = NoClaim
      BY <1>9, <2>1 DEF StoreInv, RefusedMeansUnpaid, RowsWith
    <3> QED BY <1>3, <1>9, <2>1, <3>2, <3>3 DEF StoreTypeOK
  <2> QED BY <2>1 DEF RefusedMeansUnpaid, RowsWith, AmountOf
<1>11. MoneyPaid' = MoneyPaid + AmountOf(d)
  BY <1>3, PayingMovesAmount
<1>12. MoneyConserved'
  <2>1. MoneyPaid \in Nat
    BY LedgerIsFinite
  <2> QED BY <1>2, <1>3, <1>11, <2>1 DEF StoreInv, MoneyConserved, StoreTypeOK
<1>13. CountersMatchRows'
  BY <1>1, <1>3, CountingOneRow DEF StoreInv, CountersMatchRows, Outcomes
<1>14. MovesForward
  BY <1>1, <1>2, <1>3 DEF MovesForward, StoreTypeOK, AmountOf
<1>15. IsDeliveryRecorded(d)'
  BY <1>3 DEF IsDeliveryRecorded, StoreTypeOK, NoRow
<1> QED BY <1>4, <1>7, <1>8, <1>10, <1>12, <1>13, <1>14, <1>15 DEF StoreInv

\* A refusal that still holds may be recorded.
LEMMA RecordKeepsTables ==
  ASSUME StoreTypeOK, StoreInv, NEW d \in Deliveries,
         NEW o \in {"DUPLICATE_SUPPRESSED", "BUDGET_EXHAUSTED"},
         o = "DUPLICATE_SUPPRESSED" => claim[EntitlementOf[d]] # NoClaim,
         o = "BUDGET_EXHAUSTED" =>
             /\ budgetRemaining < AmountOf(d)
             /\ ~ReasonsMayBeMasked => claim[EntitlementOf[d]] = NoClaim,
         RecordOutcome(d, o)
  PROVE  /\ StoreTypeOK'
         /\ StoreInv'
         /\ MovesForward
         /\ IsDeliveryRecorded(d)'
<1> USE StoreAssumption
<1>1. rows[d] = NoRow
  BY DEF RecordOutcome, RecordItems, RecordCondition, IsDeliveryRecorded
<1>2. /\ rows' = [rows EXCEPT ![d] = o]
      /\ CountDelivery(o)
      /\ UNCHANGED <<claim, effects, budgetRemaining>>
  BY DEF RecordOutcome
<1>3. StoreTypeOK'
  BY <1>2 DEF StoreTypeOK, CountDelivery, Outcomes
<1>4. AtMostOnePayment'
  BY <1>2 DEF StoreInv, AtMostOnePayment, PayingDeliveries
<1>5. TablesAgree'
  BY <1>1, <1>2 DEF StoreInv, TablesAgree, StoreTypeOK, Outcomes, NoRow
<1>6. RefusedMeansUnpaid'
  BY <1>2 DEF StoreInv, RefusedMeansUnpaid, RowsWith, StoreTypeOK, AmountOf
<1>7. PaisePaid' = PaisePaid
  BY <1>2 DEF PaisePaid, AmountOf
<1>8. MoneyConserved'
  BY <1>2, <1>7 DEF StoreInv, MoneyConserved, MoneyPaid
<1>9. CountersMatchRows'
  BY <1>1, <1>2, CountingOneRow DEF StoreInv, CountersMatchRows, Outcomes
<1>10. MovesForward
  BY <1>1, <1>2 DEF MovesForward, StoreTypeOK
<1>11. IsDeliveryRecorded(d)'
  BY <1>2 DEF IsDeliveryRecorded, StoreTypeOK, NoRow
<1> QED BY <1>3, <1>4, <1>5, <1>6, <1>8, <1>9, <1>10, <1>11 DEF StoreInv

\* A step that leaves the tables alone keeps what is true of them.
LEMMA TablesUnchanged ==
  ASSUME StoreTypeOK, StoreInv, UNCHANGED storeVars
  PROVE  StoreTypeOK' /\ StoreInv' /\ MovesForward
<1>1. StoreTypeOK' /\ MovesForward
  BY DEF storeVars, StoreTypeOK, MovesForward
<1>2. PaisePaid' = PaisePaid
  BY DEF storeVars, PaisePaid, AmountOf
<1>3. (AtMostOnePayment /\ TablesAgree /\ RefusedMeansUnpaid)'
  BY DEF storeVars, StoreInv, AtMostOnePayment, PayingDeliveries, TablesAgree,
         RefusedMeansUnpaid, RowsWith, AmountOf
<1>4. RecordedDeliveries' = RecordedDeliveries
      /\ \A o \in Outcomes : RowsWith(o)' = RowsWith(o)
  BY DEF storeVars, RecordedDeliveries, RowsWith
<1>5. (MoneyConserved /\ CountersMatchRows)'
  BY <1>2, <1>4 DEF storeVars, StoreInv, MoneyConserved, MoneyPaid, CountersMatchRows
<1> QED BY <1>1, <1>2, <1>3, <1>5 DEF StoreInv

-----------------------------------------------------------------------------
(* Types                                                                   *)

\* A busy worker has a message, and so a delivery.
LEMMA BusyProcessor ==
  ASSUME TypeOK, NEW w \in Workers, pc[w] # "IDLE"
  PROVE  job[w] \in Messages /\ Delivery(w) \in Deliveries
BY BusyWorker DEF TypeOK

\* Type correctness is inductive by itself: in particular the conditional
\* debit never takes the budget below zero.
LEMMA TypePreserved == TypeOK /\ [Next]_vars => TypeOK'
<1> SUFFICES ASSUME TypeOK, [Next]_vars PROVE TypeOK'
  OBVIOUS
<1> USE StoreAssumption, QueueAssumption, WorkerAssumption
<1>0. StoreTypeOK /\ QueueTypeOK /\ WorkerTypeOK(Steps)
  BY DEF TypeOK
<1>a. UNCHANGED storeVars => StoreTypeOK'
  BY <1>0 DEF StoreTypeOK, storeVars
<1>b. "COMMIT" \in Steps /\ "IDLE" \notin Steps
  BY DEF Steps
<1>1. ASSUME NEW w \in Workers, Start(w) PROVE TypeOK'
  <2>1. PICK m \in Messages : StartMessage(w, m, "COMMIT")
    BY <1>1 DEF Start
  <2>2. QueueTypeOK' /\ WorkerTypeOK(Steps)' /\ pc[w] = "IDLE"
    BY <1>0, <1>b, <2>1, StartTypes
  <2>3. UNCHANGED <<storeVars, refusal>> /\ pc' = [pc EXCEPT ![w] = "COMMIT"]
    BY <1>1, <2>1 DEF Start, StartMessage, Proceed
  <2> QED BY <1>0, <1>a, <2>2, <2>3 DEF TypeOK, WorkerTypeOK
<1>2. ASSUME NEW w \in Workers, Commit(w) PROVE TypeOK'
  <2>1. pc[w] = "COMMIT" /\ Delivery(w) \in Deliveries
    BY <1>2, BusyProcessor DEF Commit
  <2>2. QueueTypeOK' /\ WorkerTypeOK(Steps)'
    BY <1>0, <1>b, <1>2, <2>1, ProceedTypes DEF Commit
  <2>3. StoreTypeOK'
    <3> DEFINE d == Delivery(w)
    <3>1. budgetRemaining >= AmountOf(d) /\ AmountOf(d) \in Nat
      BY <1>2, <2>1 DEF Commit, CommitPayment, CommitItems, CommitCondition, AmountOf
    <3> HIDE DEF d
    <3>2. d \in Deliveries /\ CommitPayment(d)
      BY <1>2, <2>1 DEF d, Commit
    <3> QED BY <1>0, <3>1, <3>2 DEF StoreTypeOK, CommitPayment, CountDelivery, Outcomes
  <2> QED BY <1>2, <2>1, <2>2, <2>3 DEF TypeOK, Commit, Proceed, WorkerTypeOK
<1>3. ASSUME NEW w \in Workers, AlreadyProcessed(w) PROVE TypeOK'
  <2>1. pc[w] = "COMMIT"
    BY <1>3 DEF AlreadyProcessed, CommitCancelledAs
  <2>2. QueueTypeOK' /\ WorkerTypeOK(Steps)'
    BY <1>0, <1>b, <1>3, <2>1, ProceedTypes DEF AlreadyProcessed
  <2> QED BY <1>0, <1>a, <1>3, <2>1, <2>2
      DEF TypeOK, AlreadyProcessed, Proceed, WorkerTypeOK
<1>4. ASSUME NEW w \in Workers, NEW o \in {"DUPLICATE_SUPPRESSED", "BUDGET_EXHAUSTED"},
             pc[w] = "COMMIT", RefuseAs(w, o)
      PROVE  TypeOK'
  <2>2. QueueTypeOK' /\ WorkerTypeOK(Steps)'
    BY <1>0, <1>b, <1>4, ProceedTypes DEF RefuseAs, Steps
  <2> QED BY <1>0, <1>a, <1>4, <2>2 DEF TypeOK, RefuseAs, Proceed, WorkerTypeOK, NoRow
<1>5. ASSUME NEW w \in Workers, Record(w) PROVE TypeOK'
  <2>1. pc[w] = "RECORD" /\ Delivery(w) \in Deliveries
    BY <1>5, BusyProcessor DEF Record
  <2>2. QueueTypeOK' /\ WorkerTypeOK(Steps)'
    BY <1>0, <1>b, <1>5, <2>1, ProceedTypes DEF Record
  <2>3. refusal[w] \in Outcomes
    BY <2>1 DEF TypeOK, Outcomes
  <2>4. StoreTypeOK'
    BY <1>0, <1>5, <2>1, <2>3 DEF Record, RecordOutcome, StoreTypeOK, CountDelivery
  <2> QED BY <1>5, <2>1, <2>2, <2>4 DEF TypeOK, Record, Proceed, WorkerTypeOK
<1>6. ASSUME NEW w \in Workers, RecordedByAnother(w) PROVE TypeOK'
  <2>1. pc[w] = "RECORD"
    BY <1>6 DEF RecordedByAnother
  <2>2. QueueTypeOK' /\ WorkerTypeOK(Steps)'
    BY <1>0, <1>b, <1>6, <2>1, ProceedTypes DEF RecordedByAnother
  <2> QED BY <1>0, <1>a, <1>6, <2>1, <2>2
      DEF TypeOK, RecordedByAnother, Proceed, WorkerTypeOK
<1>7. ASSUME NEW w \in Workers, FailMessage(w),
             refusal' = [refusal EXCEPT ![w] = NoRow]
      PROVE  TypeOK'
  <2>1. QueueTypeOK' /\ WorkerTypeOK(Steps)' /\ pc'[w] = "IDLE"
    BY <1>0, <1>7, FailTypes
  <2> QED BY <1>a, <1>7, <2>1 DEF TypeOK, FailMessage, Proceed, WorkerTypeOK
<1>8. ASSUME NEW w \in Workers, Conflict(w) PROVE TypeOK'
  <2>1. CASE failures[w] + 1 < MaxAttempts
    <3>1. /\ failures' = [failures EXCEPT ![w] = @ + 1]
          /\ UNCHANGED <<pc, queueVars, storeVars>>
          /\ refusal' = [refusal EXCEPT ![w] = IF pc'[w] = "IDLE" THEN NoRow ELSE @]
          /\ pc[w] # "IDLE"
      BY <1>8, <2>1 DEF Conflict, RetryConflict, Steps
    <3>2. refusal' = refusal
      BY <3>1 DEF TypeOK
    <3>3. QueueTypeOK' /\ WorkerTypeOK(Steps)'
      BY <1>0, <2>1, <3>1, RetryTypes
    <3> QED BY <1>a, <3>1, <3>2, <3>3 DEF TypeOK
  <2>2. CASE ~(failures[w] + 1 < MaxAttempts)
    <3>1. FailMessage(w)
      BY <1>8, <2>2 DEF Conflict, RetryConflict
    <3>2. pc'[w] = "IDLE"
      BY <1>0, <3>1, FailTypes
    <3>3. refusal' = [refusal EXCEPT ![w] = NoRow]
      BY <1>8, <3>2 DEF Conflict
    <3> QED BY <1>7, <3>1, <3>3
  <2> QED BY <2>1, <2>2
<1>9. ASSUME NEW w \in Workers, Finish(w) PROVE TypeOK'
  <2>1. QueueTypeOK' /\ WorkerTypeOK(Steps)'
    BY <1>0, <1>9, FinishTypes DEF Finish
  <2> QED BY <1>a, <1>9, <2>1 DEF TypeOK, Finish, FinishMessage, Proceed, WorkerTypeOK
<1>10. ASSUME NEW m \in Messages, VisibilityTimeout(m) PROVE TypeOK'
  <2>1. QueueTypeOK' /\ WorkerTypeOK(Steps)'
    BY <1>0, <1>10, ReappearTypes DEF VisibilityTimeout
  <2> QED BY <1>a, <1>10, <2>1 DEF TypeOK, VisibilityTimeout, workerVars
<1>11. CASE UNCHANGED vars
  <2>1. QueueTypeOK' /\ WorkerTypeOK(Steps)'
    BY <1>0, <1>11 DEF vars, queueVars, workerVars, QueueTypeOK, WorkerTypeOK, Idle
  <2> QED BY <1>a, <1>11, <2>1 DEF TypeOK, vars, workerVars
<1>12. ASSUME NEW w \in Workers, Suppress(w) \/ Exhaust(w) PROVE TypeOK'
  BY <1>4, <1>12 DEF Suppress, Exhaust, CommitCancelledAs
<1>13. ASSUME NEW w \in Workers, Interrupt(w) PROVE TypeOK'
  BY <1>7, <1>13 DEF Interrupt
<1> QED BY <1>1, <1>2, <1>3, <1>5, <1>6, <1>8, <1>9, <1>10, <1>11, <1>12, <1>13
    DEF Next, ProcessorNext, WorkerStep, Terminating

-----------------------------------------------------------------------------
(* The inductive invariant                                                 *)

\* A decision another worker holds survives any step that only moves the
\* tables forward.
LEMMA DecisionSurvives ==
  ASSUME TypeOK, StoreTypeOK', MovesForward,
         NEW w \in Workers, DecisionHolds(w),
         job'[w] = job[w], pc'[w] = pc[w], refusal'[w] = refusal[w]
  PROVE  DecisionHolds(w)'
<1> USE StoreAssumption
<1>1. CASE pc[w] = "IDLE"
  BY <1>1 DEF TypeOK, WorkerTypeOK, DecisionHolds, NoRow
<1>2. CASE pc[w] # "IDLE"
  <2> DEFINE d == Delivery(w)
  <2>1. d \in Deliveries /\ EntitlementOf[d] \in Entitlements
    BY <1>2, BusyProcessor
  <2>2. Delivery(w)' = d
    BY DEF Delivery
  <2>3. AmountOf(d) \in Nat /\ AmountOf(d) = Amount[EntitlementOf[d]]
    BY <2>1 DEF AmountOf
  <2> HIDE DEF d
  <2>4. claim[EntitlementOf[d]] # NoClaim => claim'[EntitlementOf[d]] # NoClaim
    BY <2>1 DEF MovesForward
  <2>5. budgetRemaining < AmountOf(d) => budgetRemaining' < AmountOf(d)
    BY <2>3 DEF MovesForward, TypeOK, StoreTypeOK
  <2>6. ~ReasonsMayBeMasked /\ claim[EntitlementOf[d]] = NoClaim
        /\ budgetRemaining < AmountOf(d) => claim'[EntitlementOf[d]] = NoClaim
    BY <2>1, <2>3 DEF MovesForward
  <2>7. IsDeliveryRecorded(Delivery(w))' <=> rows'[d] # NoRow
    BY <2>2 DEF IsDeliveryRecorded
  <2>8. AmountOf(Delivery(w))' = AmountOf(d)
    BY <2>2 DEF AmountOf
  <2>9. IsDeliveryRecorded(d) => rows'[d] # NoRow
    BY <2>1 DEF MovesForward, IsDeliveryRecorded
  <2> QED BY <2>2, <2>4, <2>5, <2>6, <2>7, <2>8, <2>9 DEF DecisionHolds, d
<1> QED BY <1>1, <1>2

\* What a step of one worker must show, the tables having moved forward.
LEMMA WorkerStepKeepsInv ==
  ASSUME IInv, TypeOK', StoreInv', MovesForward, NEW w \in Workers,
         \A v \in Workers \ {w} :
            job'[v] = job[v] /\ pc'[v] = pc[v] /\ refusal'[v] = refusal[v],
         DecisionHolds(w)',
         \A m \in Messages :
            queue'[m] = "DELETED" =>
                queue[m] = "DELETED" \/ IsDeliveryRecorded(DeliveryOf[m])'
  PROVE  IInv'
<1>1. PendingDecisionsHold'
  <2>1. ASSUME NEW v \in Workers PROVE DecisionHolds(v)'
    <3>1. CASE v = w
      BY <3>1
    <3>2. CASE v # w
      BY <3>2, DecisionSurvives DEF IInv, PendingDecisionsHold, TypeOK
    <3> QED BY <3>1, <3>2
  <2> QED BY <2>1 DEF PendingDecisionsHold
<1>2. DeletedMeansRecorded'
  BY WorkerAssumption DEF IInv, DeletedMeansRecorded, MovesForward, IsDeliveryRecorded
<1> QED BY <1>1, <1>2 DEF IInv

\* A worker that holds neither a refusal nor a finished message holds nothing
\* that could go stale.
LEMMA NothingPending ==
  ASSUME NEW w \in Workers, refusal'[w] = NoRow, pc'[w] # "ACK"
  PROVE  DecisionHolds(w)'
BY DEF DecisionHolds, NoRow

\* A fresh run, queue and pool of workers satisfy the inductive invariant,
\* whether the messages have been sent or not.
LEMMA FreshInv ==
  ASSUME StoreInit, NEW place \in {"UNSENT", "VISIBLE"}, QueueInit(place), ProcessorInit
  PROVE  IInv
<1> USE StoreAssumption, QueueAssumption, WorkerAssumption
<1>1. StoreInv
  BY StoreInitially
<1>2. StoreTypeOK
  BY DEF StoreInit, StoreTypeOK, NoRow
<1>3. QueueTypeOK /\ WorkerTypeOK(Steps)
  BY FreshTypes DEF ProcessorInit
<1>4. TypeOK
  BY <1>2, <1>3 DEF ProcessorInit, WorkerInit, TypeOK, NoRow
<1>5. PendingDecisionsHold
  BY DEF ProcessorInit, WorkerInit, PendingDecisionsHold, DecisionHolds, NoRow
<1>6. DeletedMeansRecorded
  BY DEF QueueInit, DeletedMeansRecorded
<1> QED BY <1>1, <1>4, <1>5, <1>6 DEF IInv

LEMMA Initially == Init => IInv
BY FreshInv DEF Init

\* Every step of a worker, of the queue or of a crash preserves it: one step of
\* the proof for each action, and the lemmas above for what the action shares.
LEMMA Inductive == IInv /\ [Next]_vars => IInv'
<1> SUFFICES ASSUME IInv, [Next]_vars PROVE IInv'
  OBVIOUS
<1> USE StoreAssumption, WorkerAssumption
<1>0. TypeOK /\ StoreTypeOK /\ StoreInv /\ PendingDecisionsHold /\ TypeOK' /\ StoreTypeOK'
  BY TypePreserved DEF IInv, TypeOK
<1>a. UNCHANGED storeVars => StoreInv' /\ MovesForward
  BY <1>0, TablesUnchanged
<1>b. ASSUME NEW w \in Workers, NEW step, Proceed(w, step)
      PROVE  pc'[w] = step /\ \A v \in Workers \ {w} : pc'[v] = pc[v]
  BY <1>0, <1>b DEF Proceed, TypeOK, WorkerTypeOK
<1>1. ASSUME NEW w \in Workers, Start(w) PROVE IInv'
  <2>1. PICK m \in Messages : StartMessage(w, m, "COMMIT")
    BY <1>1 DEF Start
  <2>2. /\ queue' = [queue EXCEPT ![m] = "IN_FLIGHT"]
        /\ job' = [job EXCEPT ![w] = m]
        /\ Proceed(w, "COMMIT")
        /\ UNCHANGED storeVars
        /\ UNCHANGED refusal
        /\ job[w] = NoMessage
    BY <1>1, <2>1 DEF Start, StartMessage, Receive, Idle
  <2>3. refusal'[w] = NoRow
    BY <1>0, <2>2 DEF TypeOK, WorkerTypeOK, Idle
  <2>4. DecisionHolds(w)'
    BY <1>b, <2>2, <2>3, NothingPending
  <2> QED BY <1>0, <1>a, <1>b, <2>2, <2>4, WorkerStepKeepsInv
      DEF TypeOK, QueueTypeOK
<1>2. ASSUME NEW w \in Workers, Commit(w) PROVE IInv'
  <2>1. pc[w] = "COMMIT" /\ Delivery(w) \in Deliveries /\ CommitPayment(Delivery(w))
    BY <1>0, <1>2, BusyProcessor DEF Commit
  <2>2. StoreInv' /\ MovesForward /\ rows'[Delivery(w)] # NoRow
    BY <1>0, <2>1, CommitKeepsTables DEF IsDeliveryRecorded
  <2>3. Proceed(w, "ACK") /\ UNCHANGED queueVars /\ UNCHANGED refusal
    BY <1>2 DEF Commit
  <2>4. refusal'[w] = NoRow
    BY <1>0, <2>1, <2>3 DEF TypeOK
  <2>5. DecisionHolds(w)'
    BY <2>2, <2>3, <2>4 DEF DecisionHolds, IsDeliveryRecorded, Delivery, queueVars, NoRow
  <2> QED BY <1>0, <1>b, <2>2, <2>3, <2>5, WorkerStepKeepsInv DEF queueVars
<1>3. ASSUME NEW w \in Workers, AlreadyProcessed(w) PROVE IInv'
  <2>1. pc[w] = "COMMIT" /\ Delivery(w) \in Deliveries
    BY <1>0, <1>3, BusyProcessor DEF AlreadyProcessed, CommitCancelledAs
  <2>2. rows[Delivery(w)] # NoRow
    BY <1>3 DEF AlreadyProcessed, CommitCancelledAs, CommitCancellations, Cancellations,
                ClassifyCommitCancellation, CommitCondition, IsDeliveryRecorded
  <2>3. Proceed(w, "ACK") /\ UNCHANGED storeVars /\ UNCHANGED queueVars /\ UNCHANGED refusal
    BY <1>3 DEF AlreadyProcessed
  <2>4. refusal'[w] = NoRow
    BY <1>0, <2>1, <2>3 DEF TypeOK
  <2>5. DecisionHolds(w)'
    BY <2>2, <2>3, <2>4
       DEF DecisionHolds, IsDeliveryRecorded, Delivery, queueVars, storeVars, NoRow
  <2> QED BY <1>0, <1>a, <1>b, <2>3, <2>5, WorkerStepKeepsInv DEF queueVars
<1>4. ASSUME NEW w \in Workers, Suppress(w) PROVE IInv'
  <2>1. claim[EntitlementOf[Delivery(w)]] # NoClaim
    BY <1>4 DEF Suppress, CommitCancelledAs, CommitCancellations, Cancellations,
                ClassifyCommitCancellation, CommitCondition, IsEntitlementClaimed
  <2>2. /\ Proceed(w, "RECORD")
        /\ UNCHANGED storeVars
        /\ UNCHANGED queueVars
        /\ refusal' = [refusal EXCEPT ![w] = "DUPLICATE_SUPPRESSED"]
    BY <1>4 DEF Suppress, RefuseAs
  <2>3. DecisionHolds(w)'
    BY <1>0, <1>b, <2>1, <2>2 DEF DecisionHolds, Delivery, queueVars, storeVars, TypeOK
  <2> QED BY <1>0, <1>a, <1>b, <2>2, <2>3, WorkerStepKeepsInv DEF queueVars, TypeOK
<1>5. ASSUME NEW w \in Workers, Exhaust(w) PROVE IInv'
  <2>1. PICK r \in CommitCancellations(Delivery(w)) :
          ClassifyCommitCancellation(r) = "InsufficientBudget"
    BY <1>5 DEF Exhaust, CommitCancelledAs
  <2>2. /\ "RUN_BUDGET" \in r.failed
        /\ "IDEMPOTENCY" \notin r.failed
        /\ r.failed \subseteq {i \in CommitItems : ~CommitCondition(i, Delivery(w))}
        /\ ~ReasonsMayBeMasked =>
             r.failed = {i \in CommitItems : ~CommitCondition(i, Delivery(w))}
    BY <2>1 DEF CommitCancellations, Cancellations, ClassifyCommitCancellation
  <2>3. ~(budgetRemaining >= AmountOf(Delivery(w)))
    BY <2>2 DEF CommitCondition
  <2>4. ~ReasonsMayBeMasked => claim[EntitlementOf[Delivery(w)]] = NoClaim
    BY <2>2 DEF CommitCondition, CommitItems, IsEntitlementClaimed
  <2>5. Delivery(w) \in Deliveries
    BY <1>0, <1>5, BusyProcessor DEF Exhaust, CommitCancelledAs
  <2>6. budgetRemaining < AmountOf(Delivery(w))
    BY <1>0, <2>3, <2>5 DEF AmountOf, StoreTypeOK
  <2>7. /\ Proceed(w, "RECORD")
        /\ UNCHANGED storeVars
        /\ UNCHANGED queueVars
        /\ refusal' = [refusal EXCEPT ![w] = "BUDGET_EXHAUSTED"]
    BY <1>5 DEF Exhaust, RefuseAs
  <2>8. Delivery(w)' = Delivery(w) /\ AmountOf(Delivery(w))' = AmountOf(Delivery(w))
    BY <2>7 DEF Delivery, AmountOf, queueVars
  <2>9. pc'[w] = "RECORD" /\ refusal'[w] = "BUDGET_EXHAUSTED"
        /\ UNCHANGED <<claim, budgetRemaining>>
    BY <1>0, <1>b, <2>7 DEF TypeOK, storeVars
  <2>10. DecisionHolds(w)'
    BY <2>4, <2>6, <2>8, <2>9 DEF DecisionHolds
  <2> QED BY <1>0, <1>a, <1>b, <2>7, <2>10, WorkerStepKeepsInv DEF queueVars, TypeOK
<1>6. ASSUME NEW w \in Workers, Record(w) PROVE IInv'
  <2> DEFINE d == Delivery(w)
  <2>1. pc[w] = "RECORD" /\ d \in Deliveries
    BY <1>0, <1>6, BusyProcessor DEF Record
  <2>2. refusal[w] \in {"DUPLICATE_SUPPRESSED", "BUDGET_EXHAUSTED"}
    BY <1>0, <2>1 DEF TypeOK
  <2>3. RecordOutcome(d, refusal[w]) /\ DecisionHolds(w)
    BY <1>0, <1>6 DEF Record, PendingDecisionsHold
  <2>4. StoreInv' /\ MovesForward /\ rows'[d] # NoRow
    <3>0. PICK x, o : x = d /\ o = refusal[w]
      OBVIOUS
    <3> HIDE DEF d
    <3>1. /\ refusal[w] = "DUPLICATE_SUPPRESSED" => claim[EntitlementOf[d]] # NoClaim
          /\ refusal[w] = "BUDGET_EXHAUSTED" =>
               /\ budgetRemaining < AmountOf(d)
               /\ ~ReasonsMayBeMasked => claim[EntitlementOf[d]] = NoClaim
      BY <2>3 DEF DecisionHolds, d
    <3>2. StoreInv' /\ MovesForward /\ IsDeliveryRecorded(x)'
      BY <1>0, <2>1, <2>2, <2>3, <3>0, <3>1, RecordKeepsTables
    <3> QED BY <3>0, <3>2 DEF IsDeliveryRecorded
  <2>5. Proceed(w, "ACK") /\ UNCHANGED queueVars
        /\ refusal' = [refusal EXCEPT ![w] = NoRow]
    BY <1>6 DEF Record
  <2>6. DecisionHolds(w)'
    BY <1>0, <2>4, <2>5
       DEF DecisionHolds, IsDeliveryRecorded, Delivery, queueVars, NoRow, TypeOK
  <2> QED BY <1>0, <1>b, <2>4, <2>5, <2>6, WorkerStepKeepsInv DEF queueVars, TypeOK
<1>7. ASSUME NEW w \in Workers, RecordedByAnother(w) PROVE IInv'
  <2>1. rows[Delivery(w)] # NoRow
    BY <1>7 DEF RecordedByAnother, RecordCancellations, Cancellations,
                ClassifyRecordCancellation, RecordCondition, IsDeliveryRecorded
  <2>2. Proceed(w, "ACK") /\ UNCHANGED storeVars /\ UNCHANGED queueVars
        /\ refusal' = [refusal EXCEPT ![w] = NoRow]
    BY <1>7 DEF RecordedByAnother
  <2>3. DecisionHolds(w)'
    BY <1>0, <2>1, <2>2
       DEF DecisionHolds, IsDeliveryRecorded, Delivery, queueVars, storeVars, NoRow, TypeOK
  <2> QED BY <1>0, <1>a, <1>b, <2>2, <2>3, WorkerStepKeepsInv DEF queueVars, TypeOK
<1>8. ASSUME NEW w \in Workers, FailMessage(w),
             refusal' = [refusal EXCEPT ![w] = NoRow]
      PROVE  IInv'
  <2>1. /\ Proceed(w, "IDLE")
        /\ UNCHANGED storeVars
        /\ job' = [job EXCEPT ![w] = NoMessage]
        /\ UNCHANGED queue
    BY <1>8 DEF FailMessage, Abandon
  <2>2. DecisionHolds(w)'
    BY <1>0, <1>b, <1>8, <2>1, NothingPending DEF TypeOK
  <2> QED BY <1>0, <1>a, <1>b, <1>8, <2>1, <2>2, WorkerStepKeepsInv DEF TypeOK, QueueTypeOK
<1>9. ASSUME NEW w \in Workers, Conflict(w) PROVE IInv'
  <2>1. CASE failures[w] + 1 < MaxAttempts
    <3>1. /\ UNCHANGED pc
          /\ UNCHANGED queueVars
          /\ UNCHANGED storeVars
          /\ refusal' = [refusal EXCEPT ![w] = IF pc'[w] = "IDLE" THEN NoRow ELSE @]
          /\ pc[w] # "IDLE"
      BY <1>9, <2>1 DEF Conflict, RetryConflict, Steps
    <3>2. refusal' = refusal
      BY <1>0, <3>1 DEF TypeOK
    <3>3. DecisionHolds(w)'
      BY <1>0, <1>a, <3>1, <3>2, DecisionSurvives DEF PendingDecisionsHold, queueVars
    <3> QED BY <1>0, <1>a, <3>1, <3>2, <3>3, WorkerStepKeepsInv DEF queueVars
  <2>2. CASE ~(failures[w] + 1 < MaxAttempts)
    <3>1. FailMessage(w)
      BY <1>9, <2>2 DEF Conflict, RetryConflict
    <3>2. pc'[w] = "IDLE"
      BY <1>b, <3>1 DEF FailMessage
    <3> QED BY <1>8, <1>9, <3>1, <3>2 DEF Conflict
  <2> QED BY <2>1, <2>2
<1>10. ASSUME NEW w \in Workers, Finish(w) PROVE IInv'
  <2>1. /\ pc[w] = "ACK"
        /\ Proceed(w, "IDLE")
        /\ UNCHANGED storeVars
        /\ UNCHANGED refusal
        /\ job' = [job EXCEPT ![w] = NoMessage]
        /\ queue' = [queue EXCEPT ![job[w]] = IF @ = "DEAD" THEN "DEAD" ELSE "DELETED"]
    BY <1>10 DEF Finish, FinishMessage, Acknowledge
  <2>2. rows[DeliveryOf[job[w]]] # NoRow
    BY <1>0, <2>1 DEF PendingDecisionsHold, DecisionHolds, Delivery, IsDeliveryRecorded
  <2>3. refusal'[w] = NoRow
    BY <1>0, <2>1 DEF TypeOK
  <2>4. DecisionHolds(w)'
    BY <1>b, <2>1, <2>3, NothingPending
  <2>5. \A m \in Messages :
           queue'[m] = "DELETED" =>
              queue[m] = "DELETED" \/ IsDeliveryRecorded(DeliveryOf[m])'
    BY <1>0, <2>1, <2>2 DEF IsDeliveryRecorded, storeVars, TypeOK, QueueTypeOK
  <2> QED BY <1>0, <1>a, <1>b, <2>1, <2>4, <2>5, WorkerStepKeepsInv DEF TypeOK, QueueTypeOK
<1>11. ASSUME NEW m \in Messages, VisibilityTimeout(m) PROVE IInv'
  <2>1. /\ queue' = [queue EXCEPT
                        ![m] = IF receives[m] < MaxReceives THEN "VISIBLE" ELSE "DEAD"]
        /\ UNCHANGED job
        /\ UNCHANGED storeVars
        /\ UNCHANGED pc
        /\ UNCHANGED refusal
    BY <1>11 DEF VisibilityTimeout, Reappear, workerVars
  <2>2. PendingDecisionsHold'
    BY <1>0, <1>a, <2>1, DecisionSurvives DEF PendingDecisionsHold
  <2>3. DeletedMeansRecorded'
    BY <1>0, <2>1 DEF IInv, DeletedMeansRecorded, IsDeliveryRecorded, storeVars,
                      TypeOK, QueueTypeOK
  <2> QED BY <1>0, <1>a, <2>1, <2>2, <2>3 DEF IInv
<1>12. CASE UNCHANGED vars
  <2>1. UNCHANGED <<job, queue, pc, refusal>> /\ UNCHANGED storeVars
    BY <1>12 DEF vars, queueVars, workerVars
  <2>2. PendingDecisionsHold'
    BY <1>0, <1>a, <2>1, DecisionSurvives DEF PendingDecisionsHold
  <2>3. DeletedMeansRecorded'
    BY <2>1 DEF IInv, DeletedMeansRecorded, IsDeliveryRecorded, storeVars
  <2> QED BY <1>0, <1>a, <2>1, <2>2, <2>3 DEF IInv
<1>13. ASSUME NEW w \in Workers, Interrupt(w) PROVE IInv'
  BY <1>8, <1>13 DEF Interrupt
<1> QED BY <1>1, <1>2, <1>3, <1>4, <1>5, <1>6, <1>7, <1>9, <1>10, <1>11, <1>12, <1>13
    DEF Next, ProcessorNext, WorkerStep, Terminating

-----------------------------------------------------------------------------
(* The results                                                             *)

\* The strengthened invariant holds in every reachable state.
THEOREM InductiveInvariant == Spec => []IInv
<1>1. Init => IInv
  BY Initially
<1>2. IInv /\ [Next]_vars => IInv'
  BY Inductive
<1> QED BY <1>1, <1>2, PTL DEF Spec

\* Every variable keeps its type; the budget is never overdrawn.
THEOREM TypeCorrect == Spec => []TypeOK
<1>1. IInv => TypeOK
  BY DEF IInv
<1> QED BY <1>1, InductiveInvariant, PTL

\* No entitlement is paid twice.
THEOREM NeverPaidTwice == Spec => []AtMostOnePayment
<1>1. IInv => AtMostOnePayment
  BY DEF IInv, StoreInv
<1> QED BY <1>1, InductiveInvariant, PTL

\* Every paisa that left the budget is in the ledger.
THEOREM MoneyIsConserved == Spec => []MoneyConserved
<1>1. IInv => MoneyConserved
  BY DEF IInv, StoreInv
<1> QED BY <1>1, InductiveInvariant, PTL

\* The run's counters count the rows of the Deliveries table.
THEOREM CountersAreExact == Spec => []CountersMatchRows
<1>1. IInv => CountersMatchRows
  BY DEF IInv, StoreInv
<1> QED BY <1>1, InductiveInvariant, PTL

\* Claims, payments and recorded outcomes agree.
THEOREM TablesAlwaysAgree == Spec => [](TablesAgree /\ RefusedMeansUnpaid)
<1>1. IInv => TablesAgree /\ RefusedMeansUnpaid
  BY DEF IInv, StoreInv
<1> QED BY <1>1, InductiveInvariant, PTL

\* A message is deleted only after its delivery is recorded.
THEOREM NothingIsLost == Spec => []DeletedMeansRecorded
<1>1. IInv => DeletedMeansRecorded
  BY DEF IInv
<1> QED BY <1>1, InductiveInvariant, PTL

\* A refusal that a worker has been told, and is about to record, is still the
\* right decision when it records it, whatever the others did in between.
THEOREM DecisionsStayTrue == Spec => []PendingDecisionsHold
<1>1. IInv => PendingDecisionsHold
  BY DEF IInv
<1> QED BY <1>1, InductiveInvariant, PTL

-----------------------------------------------------------------------------
(* What the tables promise to whoever reads them: they implement the       *)
(* payment contract, what they say is final, and a run with enough money   *)
(* refuses nobody.  The argument is that a step writes nothing, or is one  *)
(* of two requests whose decision is right at the instant it is written.   *)

\* A refusal that is right now: its reason holds in the tables as they are.
RefusalIsRight(d, o) ==
    /\ o = "DUPLICATE_SUPPRESSED" => claim[EntitlementOf[d]] # NoClaim
    /\ o = "BUDGET_EXHAUSTED" =>
          /\ budgetRemaining < AmountOf(d)
          /\ ~ReasonsMayBeMasked => claim[EntitlementOf[d]] = NoClaim

\* Whatever a worker, the queue or a crash does, the tables stay as they are,
\* or one delivery is paid, or one refusal that is right is recorded.
LEMMA StepsThatWrite ==
  ASSUME IInv, [Next]_vars
  PROVE  \/ UNCHANGED storeVars
         \/ \E d \in Deliveries : CommitPayment(d)
         \/ \E d \in Deliveries, o \in {"DUPLICATE_SUPPRESSED", "BUDGET_EXHAUSTED"} :
               RefusalIsRight(d, o) /\ RecordOutcome(d, o)
<1>0. TypeOK /\ PendingDecisionsHold
  BY DEF IInv
<1>1. ASSUME NEW w \in Workers, Commit(w)
      PROVE  \E d \in Deliveries : CommitPayment(d)
  BY <1>0, <1>1, BusyProcessor DEF Commit
<1>2. ASSUME NEW w \in Workers, Record(w)
      PROVE  \E d \in Deliveries, o \in {"DUPLICATE_SUPPRESSED", "BUDGET_EXHAUSTED"} :
                RefusalIsRight(d, o) /\ RecordOutcome(d, o)
  <2>1. pc[w] = "RECORD" /\ Delivery(w) \in Deliveries
        /\ RecordOutcome(Delivery(w), refusal[w])
    BY <1>0, <1>2, BusyProcessor DEF Record
  <2>2. refusal[w] \in {"DUPLICATE_SUPPRESSED", "BUDGET_EXHAUSTED"}
    BY <1>0, <2>1 DEF TypeOK
  <2>3. RefusalIsRight(Delivery(w), refusal[w])
    BY <1>0 DEF PendingDecisionsHold, DecisionHolds, RefusalIsRight
  <2> QED BY <2>1, <2>2, <2>3
<1>3. ASSUME NEW w \in Workers,
             \/ Start(w) \/ AlreadyProcessed(w) \/ Suppress(w) \/ Exhaust(w)
             \/ RecordedByAnother(w) \/ Finish(w) \/ Interrupt(w)
      PROVE  UNCHANGED storeVars
  BY <1>3 DEF Start, StartMessage, AlreadyProcessed, Suppress, Exhaust, RefuseAs,
              RecordedByAnother, Finish, FinishMessage, Interrupt, FailMessage
<1>4. ASSUME NEW w \in Workers, Conflict(w) PROVE UNCHANGED storeVars
  BY <1>4 DEF Conflict, RetryConflict, FailMessage
<1>5. ASSUME NEW m \in Messages, VisibilityTimeout(m) PROVE UNCHANGED storeVars
  BY <1>5 DEF VisibilityTimeout
<1>6. UNCHANGED vars => UNCHANGED storeVars
  BY DEF vars
<1> QED BY <1>1, <1>2, <1>3, <1>4, <1>5, <1>6
    DEF Next, ProcessorNext, WorkerStep, Terminating

\* The conditions of the commit transaction, all four of which held.
LEMMA CommitConditions ==
  ASSUME NEW d \in Deliveries, CommitPayment(d)
  PROVE  /\ claim[EntitlementOf[d]] = NoClaim
         /\ budgetRemaining >= AmountOf(d)
         /\ rows[d] = NoRow
<1>1. \A i \in CommitItems : CommitCondition(i, d)
  BY DEF CommitPayment
<1>2. /\ CommitCondition("IDEMPOTENCY", d)
      /\ CommitCondition("RUN_BUDGET", d)
      /\ CommitCondition("DELIVERY", d)
  BY <1>1 DEF CommitItems
<1> QED BY <1>2 DEF CommitCondition, IsEntitlementClaimed, IsDeliveryRecorded

-----------------------------------------------------------------------------
(* Records are final                                                       *)

\* No row, payment or claim ever changes once it is there, although messages
\* are redelivered, invocations overlap and requests are retried: the condition
\* on the row guards all three.
THEOREM RecordsNeverChange == Spec => RecordsAreFinal
<1> DEFINE Final ==
      /\ \A d \in Deliveries :
            rows[d] # NoRow => rows'[d] = rows[d] /\ effects'[d] = effects[d]
      /\ \A e \in Entitlements : claim[e] # NoClaim => claim'[e] = claim[e]
<1>1. IInv /\ [Next]_vars => Final
  <2> SUFFICES ASSUME IInv, [Next]_vars PROVE Final
    OBVIOUS
  <2> USE StoreAssumption
  <2>0. StoreTypeOK
    BY DEF IInv, TypeOK
  <2>1. CASE UNCHANGED storeVars
    BY <2>1 DEF storeVars
  <2>2. ASSUME NEW d \in Deliveries, CommitPayment(d) PROVE Final
    <3>1. claim[EntitlementOf[d]] = NoClaim /\ rows[d] = NoRow
      BY <2>2, CommitConditions
    <3> QED BY <2>0, <2>2, <3>1 DEF CommitPayment, StoreTypeOK
  <2>3. ASSUME NEW d \in Deliveries, NEW o, RecordOutcome(d, o) PROVE Final
    <3>1. rows[d] = NoRow
      BY <2>3 DEF RecordOutcome, RecordItems, RecordCondition, IsDeliveryRecorded
    <3> QED BY <2>0, <2>3, <3>1 DEF RecordOutcome, StoreTypeOK
  <2> HIDE DEF Final
  <2> QED BY <2>1, <2>2, <2>3, StepsThatWrite
<1>2. IInv /\ [Next]_vars => [Final]_vars
  BY <1>1
<1> QED BY <1>2, InductiveInvariant, PTL DEF Spec, RecordsAreFinal

-----------------------------------------------------------------------------
(* The payment contract                                                    *)

\* A fresh run is a fresh contract.
LEMMA ContractInitially == Init => Contract!Init
BY DEF Init, StoreInit, Contract!Init, Contract!Undecided, NoRow

\* Each step of the workers, the queue and the crashes is a payment, a
\* suppression or a refusal of the contract, decided on the tables of that very
\* instant, or it is a step the contract does not see.
LEMMA ContractStep ==
  IInv /\ [Next]_vars => [Contract!Next]_(Contract!contractVars)
<1> SUFFICES ASSUME IInv, [Next]_vars
             PROVE  [Contract!Next]_(Contract!contractVars)
  OBVIOUS
<1> USE StoreAssumption DEF Contract!Decide, Contract!Undecided
<1>0. StoreTypeOK
  BY DEF IInv, TypeOK
<1>1. CASE UNCHANGED storeVars
  BY <1>1 DEF storeVars, Contract!contractVars
<1>2. ASSUME NEW d \in Deliveries, CommitPayment(d) PROVE Contract!Pay(d)
  <2>1. claim[EntitlementOf[d]] = NoClaim /\ rows[d] = NoRow
        /\ budgetRemaining >= AmountOf(d)
    BY <1>2, CommitConditions
  <2> QED BY <1>2, <2>1 DEF CommitPayment, AmountOf, Contract!Pay, NoRow
<1>3. ASSUME NEW d \in Deliveries,
             NEW o \in {"DUPLICATE_SUPPRESSED", "BUDGET_EXHAUSTED"},
             RefusalIsRight(d, o), RecordOutcome(d, o)
      PROVE  Contract!Suppress(d) \/ Contract!Refuse(d)
  <2>1. rows[d] = NoRow
    BY <1>3 DEF RecordOutcome, RecordItems, RecordCondition, IsDeliveryRecorded
  <2>2. CASE o = "DUPLICATE_SUPPRESSED"
    BY <1>3, <2>1, <2>2 DEF RefusalIsRight, RecordOutcome, Contract!Suppress, NoRow
  <2>3. CASE o = "BUDGET_EXHAUSTED"
    <3>1. claim[EntitlementOf[d]] = NoClaim \/ ReasonsMayBeMasked
      BY <1>3, <2>3 DEF RefusalIsRight
    <3> QED BY <1>3, <2>1, <2>3, <3>1
        DEF RefusalIsRight, RecordOutcome, AmountOf, Contract!Refuse, NoRow
  <2> QED BY <2>2, <2>3
<1> QED BY <1>1, <1>2, <1>3, StepsThatWrite DEF Contract!Next

\* The protected processor, with all its requests, redeliveries, retries and
\* crashes, implements the contract: each delivery gets one outcome, decided
\* and recorded at one instant.
THEOREM ImplementsContract == Spec => ContractSpec
<1>1. Init => Contract!Init
  BY ContractInitially
<1>2. IInv /\ [Next]_vars => [Contract!Next]_(Contract!contractVars)
  BY ContractStep
<1> QED BY <1>1, <1>2, InductiveInvariant, PTL DEF Spec, ContractSpec, Contract!Spec

-----------------------------------------------------------------------------
(* A funded run                                                            *)

\* What everybody is owed is a finite amount of money.
LEMMA PaiseOwedIsFinite == IsFiniteSet(PaiseOwed)
<1> USE StoreAssumption
<1> DEFINE owed == [e \in Entitlements |-> {e} \X (1 .. Amount[e])]
<1>1. ASSUME NEW e \in Entitlements PROVE IsFiniteSet(owed[e])
  <2>1. Amount[e] \in Nat
    OBVIOUS
  <2> QED BY <2>1, AllPaiseOf
<1>2. PaiseOwed = UNION {owed[e] : e \in Entitlements}
  BY DEF PaiseOwed
<1>3. DOMAIN owed = Entitlements
  OBVIOUS
<1> HIDE DEF owed
<1> QED BY <1>1, <1>2, <1>3, FiniteFamily

\* While nobody has been paid for an entitlement, the money that is gone and
\* what that entitlement is owed fit together into what everybody is owed:
\* each paisa paid is charged to the entitlement it was paid for.
LEMMA RoomForTheUnpaid ==
  ASSUME StoreTypeOK, StoreInv, NEW e \in Entitlements, claim[e] = NoClaim
  PROVE  MoneyPaid + Amount[e] <= Cardinality(PaiseOwed)
<1> USE StoreAssumption
<1> DEFINE Mine == {e} \X (1 .. Amount[e])
           Others == PaiseOwed \ Mine
           charge == [p \in PaisePaid |-> <<EntitlementOf[p[1]], p[2]>>]
<1>1. ASSUME NEW p \in PaisePaid
      PROVE  /\ p[1] \in PayingDeliveries /\ p = <<p[1], p[2]>>
             /\ EntitlementOf[p[1]] # e
             /\ p[2] \in 1 .. Amount[EntitlementOf[p[1]]]
  <2>1. PICK d \in Deliveries : p \in {d} \X (1 .. effects[d] * AmountOf(d))
    BY DEF PaisePaid
  <2>2. p[1] = d /\ p[2] \in 1 .. effects[d] * AmountOf(d) /\ p = <<p[1], p[2]>>
    BY <2>1
  <2>3. effects[d] = 1
    <3>1. effects[d] = 0 \/ effects[d] = 1
      BY DEF StoreInv, AtMostOnePayment, StoreTypeOK
    <3>2. AmountOf(d) \in Nat
      BY DEF AmountOf
    <3> QED BY <2>2, <3>1, <3>2
  <2>4. AmountOf(d) \in Nat /\ AmountOf(d) = Amount[EntitlementOf[d]]
    BY DEF AmountOf
  <2>5. EntitlementOf[d] # e
    BY <2>3 DEF StoreInv, TablesAgree
  <2>6. d \in PayingDeliveries
    BY <2>3 DEF PayingDeliveries
  <2> QED BY <2>2, <2>3, <2>4, <2>5, <2>6
<1>2. charge \in Injection(PaisePaid, Others)
  <2>1. ASSUME NEW p \in PaisePaid PROVE charge[p] \in Others
    <3>1. p[1] \in Deliveries
      BY <1>1 DEF PayingDeliveries
    <3> QED BY <1>1, <3>1 DEF PaiseOwed
  <2>2. ASSUME NEW p \in PaisePaid, NEW q \in PaisePaid, charge[p] = charge[q]
        PROVE  p = q
    <3>1. EntitlementOf[p[1]] = EntitlementOf[q[1]] /\ p[2] = q[2]
      BY <2>2
    <3>2. p[1] = q[1]
      BY <1>1, <3>1 DEF StoreInv, AtMostOnePayment
    <3> QED BY <1>1, <3>1, <3>2
  <2>3. charge \in [PaisePaid -> Others] /\ DOMAIN charge = PaisePaid
    BY <2>1
  <2> HIDE DEF Others, charge
  <2> QED BY <2>2, <2>3 DEF Injection, IsInjective
<1>3. IsFiniteSet(Mine) /\ Cardinality(Mine) = Amount[e]
  <2>1. Amount[e] \in Nat
    OBVIOUS
  <2> QED BY <2>1, AllPaiseOf
<1>4. IsFiniteSet(Others)
  <2> HIDE DEF Mine
  <2> QED BY PaiseOwedIsFinite, FS_Subset
<1>5. Cardinality(PaiseOwed) = Cardinality(Others) + Amount[e]
  <2>1. PaiseOwed = Others \cup Mine /\ Others \cap Mine = {}
    BY DEF PaiseOwed
  <2> HIDE DEF Others, Mine
  <2>2. Cardinality(Others \cup Mine) = Cardinality(Others) + Cardinality(Mine)
    BY <1>3, <1>4, <2>1, DisjointUnion
  <2> QED BY <1>3, <2>1, <2>2
<1>6. Cardinality(PaisePaid) <= Cardinality(Others)
  <2> HIDE DEF Others, charge
  <2> QED BY <1>2, <1>4, FS_Injection
<1>7. Cardinality(PaisePaid) \in Nat /\ Cardinality(Others) \in Nat
  <2> HIDE DEF Others
  <2> QED BY <1>4, FS_CardinalityType, LedgerIsFinite DEF MoneyPaid
<1> QED BY <1>5, <1>6, <1>7 DEF MoneyPaid

\* Money runs out only when somebody is paid who is not owed it.
LEMMA FundedInv == IInv => FundedRunPaysEveryone
<1> SUFFICES ASSUME IInv, Funded
             PROVE  /\ ~ReasonsMayBeMasked => RowsWith("BUDGET_EXHAUSTED") = {}
                    /\ \A d \in RecordedDeliveries : claim[EntitlementOf[d]] # NoClaim
  BY DEF FundedRunPaysEveryone
<1> USE StoreAssumption
<1>0. StoreTypeOK /\ StoreInv
  BY DEF IInv, TypeOK
<1>1. ASSUME NEW d \in RowsWith("BUDGET_EXHAUSTED")
      PROVE  claim[EntitlementOf[d]] # NoClaim
  <2> SUFFICES ASSUME claim[EntitlementOf[d]] = NoClaim PROVE FALSE
    OBVIOUS
  <2>1. d \in Deliveries /\ AmountOf(d) = Amount[EntitlementOf[d]]
    BY DEF RowsWith, AmountOf
  <2>2. budgetRemaining < AmountOf(d)
    BY <1>0 DEF StoreInv, RefusedMeansUnpaid
  <2>3. MoneyPaid + AmountOf(d) <= Cardinality(PaiseOwed)
    BY <1>0, <2>1, <2>2, RoomForTheUnpaid
  <2>4. /\ MoneyPaid \in Nat /\ Cardinality(PaiseOwed) \in Nat
        /\ AmountOf(d) \in Nat /\ budgetRemaining \in Nat
    BY <1>0, <2>1, FS_CardinalityType, PaiseOwedIsFinite, LedgerIsFinite
       DEF StoreTypeOK
  <2> QED BY <1>0, <2>2, <2>3, <2>4 DEF StoreInv, MoneyConserved, Funded
<1>2. ASSUME NEW d \in RecordedDeliveries PROVE claim[EntitlementOf[d]] # NoClaim
  <2>1. d \in Deliveries /\ rows[d] \in Outcomes
    BY <1>0 DEF RecordedDeliveries, RowsWith, StoreTypeOK, Outcomes
  <2>2. rows[d] = "COMMITTED" => claim[EntitlementOf[d]] = d
    BY <1>0, <2>1 DEF StoreInv, TablesAgree
  <2>3. rows[d] = "BUDGET_EXHAUSTED" => claim[EntitlementOf[d]] # NoClaim
    BY <1>1, <2>1 DEF RowsWith
  <2> QED BY <1>0, <2>1, <2>2, <2>3 DEF StoreInv, TablesAgree, Outcomes
<1>3. ~ReasonsMayBeMasked => RowsWith("BUDGET_EXHAUSTED") = {}
  BY <1>0, <1>1 DEF StoreInv, RefusedMeansUnpaid
<1> QED BY <1>2, <1>3

\* With the budget of the batch no delivery is refused for lack of money, not
\* even a duplicate that comes when everything is spent, unless a conflict has
\* masked its claim; and whoever has a recorded delivery has been paid.
THEOREM FundedRunRefusesNobody == Spec => []FundedRunPaysEveryone
BY FundedInv, InductiveInvariant, PTL

-----------------------------------------------------------------------------
(* Whole runs                                                              *)

RInv == IInv /\ WorkflowInv

\* The processor's invariant says what the workflow relies on.
LEMMA BooksAreOK == IInv => BooksOK
BY DEF IInv, TypeOK, StoreInv, CountersMatchRows, BooksOK

\* Sending messages takes nothing from the processor's invariant.
LEMMA SendingKeepsInv ==
  ASSUME IInv, NEW ms, Send(ms), UNCHANGED storeVars, UNCHANGED workerVars,
         UNCHANGED refusal
  PROVE  IInv'
<1>0. TypeOK /\ StoreTypeOK /\ StoreInv /\ QueueTypeOK /\ WorkerTypeOK(Steps)
  BY DEF IInv, TypeOK
<1>1. QueueTypeOK' /\ WorkerTypeOK(Steps)'
  BY <1>0, SendTypes
<1>2. StoreTypeOK' /\ StoreInv' /\ MovesForward
  BY <1>0, TablesUnchanged
<1>3. TypeOK'
  BY <1>1, <1>2 DEF IInv, TypeOK, workerVars
<1>4. ASSUME NEW w \in Workers PROVE DecisionHolds(w)'
  <2>1. DecisionHolds(w) /\ job'[w] = job[w] /\ pc'[w] = pc[w] /\ refusal'[w] = refusal[w]
    BY DEF IInv, PendingDecisionsHold, Send, workerVars
  <2> QED BY <1>0, <1>2, <2>1, DecisionSurvives
<1>5. DeletedMeansRecorded'
  BY DEF IInv, DeletedMeansRecorded, Send, IsDeliveryRecorded, storeVars
<1> QED BY <1>2, <1>3, <1>4, <1>5 DEF IInv, PendingDecisionsHold

\* Once every delivery is recorded no worker can write any more, and until then
\* what is recorded stays.
LEMMA ProcessorReading ==
  ASSUME IInv, [Next]_vars
  PROVE  /\ RecordedDeliveries \subseteq RecordedDeliveries'
         /\ AllRecorded => UNCHANGED storeVars
<1>0. StoreTypeOK
  BY DEF IInv, TypeOK
<1>1. CASE UNCHANGED storeVars
  BY <1>1, SameReading
<1>2. ASSUME NEW d \in Deliveries, CommitPayment(d)
      PROVE  RecordedDeliveries \subseteq RecordedDeliveries' /\ ~AllRecorded
  BY <1>0, <1>2, CommitConditions
     DEF CommitPayment, RecordedDeliveries, AllRecorded, StoreTypeOK
<1>3. ASSUME NEW d \in Deliveries, NEW o, RecordOutcome(d, o)
      PROVE  RecordedDeliveries \subseteq RecordedDeliveries' /\ ~AllRecorded
  BY <1>0, <1>3 DEF RecordOutcome, RecordItems, RecordCondition, IsDeliveryRecorded,
                    RecordedDeliveries, AllRecorded, StoreTypeOK
<1> QED BY <1>1, <1>2, <1>3, StepsThatWrite

\* A row is written by the worker that has the delivery's message.
LEMMA RowsAreReceived ==
  ASSUME IInv, [Next]_vars, NEW d \in Deliveries, rows[d] = NoRow, rows'[d] # NoRow
  PROVE  \E w \in Workers : ~Idle(w) /\ job[w] \in Messages /\ DeliveryOf[job[w]] = d
<1>0. TypeOK /\ StoreTypeOK
  BY DEF IInv, TypeOK
<1>1. ASSUME NEW w \in Workers, Commit(w) \/ Record(w)
      PROVE  ~Idle(w) /\ job[w] \in Messages /\ DeliveryOf[job[w]] = d
  <2>1. pc[w] # "IDLE"
    BY <1>1 DEF Commit, Record
  <2>2. job[w] \in Messages /\ Delivery(w) \in Deliveries /\ ~Idle(w)
    BY <1>0, <2>1, BusyProcessor, QueueAssumption DEF Idle
  <2>3. rows' = [rows EXCEPT ![Delivery(w)] = rows'[Delivery(w)]]
    BY <1>0, <1>1 DEF Commit, CommitPayment, Record, RecordOutcome, StoreTypeOK
  <2>4. Delivery(w) = d
    BY <1>0, <2>3 DEF StoreTypeOK
  <2> QED BY <2>2, <2>4 DEF Delivery
<1>2. ASSUME NEW w \in Workers,
             \/ Start(w) \/ AlreadyProcessed(w) \/ Suppress(w) \/ Exhaust(w)
             \/ RecordedByAnother(w) \/ Conflict(w) \/ Finish(w) \/ Interrupt(w)
      PROVE  UNCHANGED rows
  BY <1>2 DEF Start, StartMessage, AlreadyProcessed, Suppress, Exhaust, RefuseAs,
              RecordedByAnother, Conflict, RetryConflict, Finish, FinishMessage,
              Interrupt, FailMessage, storeVars
<1>3. ASSUME NEW m \in Messages, VisibilityTimeout(m) PROVE UNCHANGED rows
  BY <1>3 DEF VisibilityTimeout, storeVars
<1>4. UNCHANGED vars => UNCHANGED rows
  BY DEF vars, storeVars
<1> QED BY <1>1, <1>2, <1>3, <1>4 DEF Next, ProcessorNext, WorkerStep, Terminating

\* What the workers do to the queue and to the tables is what the workflow
\* expects of them.
LEMMA ProcessorMoves ==
  ASSUME RInv, ProcessorNext
  PROVE  QueueMoves /\ TablesMove
<1>0. IInv /\ TypeOK /\ [Next]_vars
  BY DEF RInv, IInv, Next
<1>1. QueueMoves
  BY DEF ProcessorNext, WorkerStep, QueueMoves, Start, StartMessage, Finish,
         FinishMessage, Interrupt, FailMessage, Conflict, RetryConflict, Commit,
         AlreadyProcessed, Suppress, Exhaust, RefuseAs, Record, RecordedByAnother,
         VisibilityTimeout
<1>2. /\ RecordedDeliveries \subseteq RecordedDeliveries'
      /\ AllRecorded => UNCHANGED storeVars
  BY <1>0, ProcessorReading
<1>3. ASSUME NEW d \in RecordedDeliveries' \ RecordedDeliveries
      PROVE  \E w \in Workers : ~Idle(w) /\ DeliveryOf[job[w]] = d
  <2>1. d \in Deliveries /\ rows[d] = NoRow /\ rows'[d] # NoRow
    BY <1>3 DEF RecordedDeliveries
  <2> QED BY <1>0, <2>1, RowsAreReceived
<1>4. (\A w \in Workers : Idle(w)) => UNCHANGED storeVars
  <2>1. ASSUME NEW w \in Workers, Commit(w) \/ Record(w) PROVE ~Idle(w)
    <3>1. pc[w] # "IDLE"
      BY <2>1 DEF Commit, Record
    <3> QED BY <1>0, <3>1 DEF TypeOK, WorkerTypeOK
  <2>2. \/ UNCHANGED storeVars
        \/ \E w \in Workers : Commit(w) \/ Record(w)
    BY DEF ProcessorNext, WorkerStep, Start, StartMessage, Finish,
           FinishMessage, Interrupt, FailMessage, Conflict, RetryConflict,
           AlreadyProcessed, Suppress, Exhaust, RefuseAs, RecordedByAnother,
           VisibilityTimeout
  <2> QED BY <2>1, <2>2
<1> QED BY <1>1, <1>2, <1>3, <1>4 DEF TablesMove

\* A run that has not been started satisfies the invariant.
LEMMA RunInitially == RunInit => RInv
<1> SUFFICES ASSUME RunInit PROVE RInv
  OBVIOUS
<1>1. IInv
  BY FreshInv DEF RunInit
<1> QED BY <1>1, BooksAreOK, WorkflowInitially DEF RunInit, RInv

\* Every step preserves it: of the workers, of a task, of the execution.
LEMMA RunInductive == RInv /\ [RunNext]_runVars => RInv'
<1> SUFFICES ASSUME RInv, [RunNext]_runVars PROVE RInv'
  OBVIOUS
<1>0. IInv /\ WorkflowInv
  BY DEF RInv
<1>a. IInv' => BooksOK'
  BY DEF IInv, TypeOK, StoreInv, CountersMatchRows, BooksOK
<1>1. CASE ProcessorNext /\ UNCHANGED workflowVars
  <2>1. IInv'
    BY <1>0, <1>1, Inductive DEF Next
  <2>2. QueueMoves /\ TablesMove
    BY <1>1, ProcessorMoves
  <2> QED BY <1>0, <1>1, <1>a, <2>1, <2>2, WorkersKeepRun DEF RInv
<1>2. CASE WorkflowNext /\ UNCHANGED refusal
  <2>1. UNCHANGED storeVars /\ UNCHANGED workerVars
        /\ (UNCHANGED queueVars \/ \E ms : Send(ms))
    BY <1>0, <1>2, WorkflowOnlySends
  <2>2. CASE UNCHANGED queueVars
    BY <1>0, <1>2, <2>1, <2>2, Inductive, WorkflowKeepsRun DEF vars, RInv
  <2>3. CASE \E ms : Send(ms)
    BY <1>0, <1>2, <2>1, <2>3, SendingKeepsInv, WorkflowKeepsRun DEF RInv
  <2> QED BY <2>1, <2>2, <2>3
<1>3. CASE UNCHANGED runVars
  <2>1. UNCHANGED vars /\ TablesUntouched /\ UNCHANGED workflowVars
    BY <1>3 DEF runVars, vars, TablesUntouched
  <2> QED BY <1>0, <2>1, Inductive, StutteringKeepsRun DEF RInv
<1> QED BY <1>1, <1>2, <1>3 DEF RunNext

-----------------------------------------------------------------------------
(* The results                                                             *)

\* The strengthened invariant holds in every reachable state of a run.
THEOREM RunInvariant == RunSpec => []RInv
<1>1. RunInit => RInv
  BY RunInitially
<1>2. RInv /\ [RunNext]_runVars => RInv'
  BY RunInductive
<1> QED BY <1>1, <1>2, PTL DEF RunSpec

\* Phase B waits for phase A, although an injection that was given up may still
\* be sending and nobody looks at the queue.
THEOREM PhaseBIsHeldBack == RunSpec => []PhaseBWaits
<1>1. RInv => PhaseBWaits
  BY DEF RInv, WorkflowInv, QueueOK
<1> QED BY <1>1, RunInvariant, PTL

\* The execution and the Runs item keep their types and agree on the end.
THEOREM EndsAlwaysAgree == RunSpec => []EndsAgree
<1>1. RInv => EndsAgree
  BY EndsInv DEF RInv
<1> QED BY <1>1, RunInvariant, PTL

\* What a completed run stored and signed is what the tables say.
THEOREM ReportIsTrueForEver == RunSpec => []ReportStaysTrue
<1>1. RInv => ReportStaysTrue
  BY DEF RInv, WorkflowInv, RunOK, ReportStaysTrue
<1> QED BY <1>1, RunInvariant, PTL

\* No task, however late, takes a run out of a terminal status.
THEOREM TerminalStatusIsFinal == RunSpec => TerminalIsFinal
<1> DEFINE Final == run.status \in {"COMPLETED", "FAILED"} => run'.status = run.status
<1>1. RInv /\ [RunNext]_runVars => Final
  <2> SUFFICES ASSUME RInv, [RunNext]_runVars, run.status \in {"COMPLETED", "FAILED"}
               PROVE  run'.status = run.status
    OBVIOUS
  <2>0. run.status \notin {"QUEUED", "RUNNING"} /\ RunOK
    BY DEF RInv, WorkflowInv
  <2>1. CASE UNCHANGED run
    BY <2>1
  <2>2. ASSUME NEW c \in Calls, TaskStep(c) PROVE run'.status = run.status
    <3>1. \/ UNCHANGED run \/ MarkFailed(c)
      BY <2>0, <2>2 DEF TaskStep, InitRun, MarkPhase, Publish, CheckDrain, CheckFor,
         BeginEvaluate, ReadRun, ReadRunUnless, ListEffects, ListDeliveries,
         StoreReport, PutReceipt, Complete, UpdateRejected
    <3>2. CASE MarkFailed(c)
      BY <2>0, <3>2 DEF MarkFailed, MarkFailedUnless, RunOK
    <3> QED BY <3>1, <3>2
  <2>3. ASSUME NEW c \in Calls, TaskFails(c) \/ Vanish(c) PROVE UNCHANGED run
    BY <2>3 DEF TaskFails, Vanish
  <2>4. Answered \/ AnswerLost => UNCHANGED run
    BY DEF Answered, AnswerLost
  <2>5. UNCHANGED workflowVars \/ UNCHANGED runVars => UNCHANGED run
    BY DEF workflowVars, runVars
  <2> QED BY <2>1, <2>2, <2>3, <2>4, <2>5 DEF RunNext, WorkflowNext
<1>2. RInv /\ [RunNext]_runVars => [Final]_runVars
  BY <1>1
<1> QED BY <1>2, RunInvariant, PTL DEF RunSpec, TerminalIsFinal

\* In a whole run, as for the processor alone, nobody is paid twice, the money
\* adds up, the counters count the rows, and with the budget of the batch
\* nobody is refused.
THEOREM RunsKeepTheBooks ==
  RunSpec => [](/\ AtMostOnePayment /\ MoneyConserved /\ CountersMatchRows
                /\ TablesAgree /\ DeletedMeansRecorded /\ PendingDecisionsHold
                /\ FundedRunPaysEveryone)
<1>1. RInv => /\ AtMostOnePayment /\ MoneyConserved /\ CountersMatchRows
              /\ TablesAgree /\ DeletedMeansRecorded /\ PendingDecisionsHold
              /\ FundedRunPaysEveryone
  BY FundedInv DEF RInv, IInv, StoreInv
<1> QED BY <1>1, RunInvariant, PTL

\* The payment contract holds of whole runs: the reset of the live counters,
\* which comes once per run, takes nothing from it.
THEOREM RunsImplementContract == RunSpec => ContractSpec
<1>1. RunInit => Contract!Init
  BY DEF RunInit, StoreInit, Contract!Init, Contract!Undecided, NoRow
<1>2. RInv /\ [RunNext]_runVars => [Contract!Next]_(Contract!contractVars)
  <2> SUFFICES ASSUME RInv, [RunNext]_runVars
               PROVE  [Contract!Next]_(Contract!contractVars)
    OBVIOUS
  <2>1. CASE ProcessorNext
    BY <2>1, ContractStep DEF RInv, Next
  <2>2. CASE WorkflowNext
    BY <2>2, WorkflowOnlySends DEF RInv, storeVars, Contract!contractVars
  <2>3. CASE UNCHANGED runVars
    BY <2>3 DEF runVars, vars, storeVars, Contract!contractVars
  <2> QED BY <2>1, <2>2, <2>3 DEF RunNext
<1> QED BY <1>1, <1>2, RunInvariant, PTL DEF RunSpec, ContractSpec, Contract!Spec

\* A run that is completed has paid everyone once.
LEMMA CompletedInv ==
  ASSUME RInv
  PROVE  CompletedRunPaidEveryone
<1> SUFFICES ASSUME run.status = "COMPLETED"
             PROVE  /\ run.report.verdict = "PASS"
                    /\ \A e \in Entitlements : Cardinality(EffectsOf(e)) = 1
  BY DEF CompletedRunPaidEveryone
<1> USE StoreAssumption
<1>0. StoreTypeOK /\ StoreInv /\ IInv /\ AllRecorded /\ run.report = Truth
  BY DEF RInv, WorkflowInv, IInv, TypeOK, RunOK
<1>1. Funded
  <2>1. Cardinality(PaiseOwed) \in Nat
    BY PaiseOwedIsFinite, FS_CardinalityType
  <2> QED BY <2>1, RunAssumption DEF Funded, PaiseOwed
<1>2. ASSUME NEW e \in Entitlements PROVE claim[e] # NoClaim
  <2>1. PICK d \in Deliveries : EntitlementOf[d] = e
    <3>1. Fibre(EntitlementOf, Deliveries, e) # {}
      BY DeliveriesOfEach, FS_EmptySet
    <3> QED BY <3>1 DEF Fibre
  <2> QED BY <1>0, <1>1, <2>1, FundedInv DEF FundedRunPaysEveryone, AllRecorded
<1>3. ASSUME NEW e \in Entitlements PROVE Cardinality(EffectsOf(e)) = 1
  <2>1. PICK d \in Deliveries : d = claim[e]
    BY <1>0, <1>2 DEF StoreTypeOK
  <2>2. EntitlementOf[d] = e /\ effects[d] = 1
    BY <1>0, <1>2, <2>1 DEF StoreInv, TablesAgree
  <2>3. \A x \in Deliveries : EntitlementOf[x] = e /\ x # d => effects[x] = 0
    <3>1. \A x \in Deliveries : effects[x] \in {0, 1}
      BY <1>0 DEF StoreInv, AtMostOnePayment, StoreTypeOK
    <3> QED BY <1>0, <2>1, <3>1 DEF StoreInv, TablesAgree
  <2>4. PICK n \in Nat : n = 1
    OBVIOUS
  <2>5. EffectsOf(e) = {d} \X (1 .. n)
    BY <2>2, <2>3, <2>4 DEF EffectsOf
  <2>6. Cardinality({d} \X (1 .. n)) = n
    BY AllPaiseOf
  <2> QED BY <2>4, <2>5, <2>6
<1>4. run.report.verdict = "PASS"
  <2> DEFINE payments == [e \in Entitlements |-> Cardinality(EffectsOf(e))]
  <2>1. DoublePaid(payments) = {} /\ Unpaid(payments) = {}
    BY <1>3 DEF DoublePaid, Unpaid
  <2>2. MoneyPaid <= Budget
    BY <1>0, LedgerIsFinite DEF StoreInv, MoneyConserved, StoreTypeOK
  <2>3. LedgerRead.payments = payments /\ LedgerRead.spent = MoneyPaid
    BY DEF LedgerRead
  <2> HIDE DEF payments
  <2> QED BY <1>0, <2>1, <2>2, <2>3 DEF Truth, Evaluated
<1> QED BY <1>3, <1>4

\* A completed run has paid every entitlement exactly once and its verdict says
\* so, whatever was redelivered, retried, given up, masked or crashed on the way.
THEOREM CompletedRunsPaidEveryone == RunSpec => []CompletedRunPaidEveryone
<1>1. RInv => CompletedRunPaidEveryone
  BY CompletedInv
<1> QED BY <1>1, RunInvariant, PTL
=============================================================================
