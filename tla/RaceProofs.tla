----------------------------- MODULE RaceProofs -----------------------------
(***************************************************************************)
(* Proofs about a race of the Race Lab, for any number of copies, workers,  *)
(* repeated invocations and invocations of finish_race.  The processor      *)
(* races, so its invariant says how far each copy that was invoked once     *)
(* has come; what follows for the payments, the result and the race's end   *)
(* is what the copies and the workflow can still do from there.             *)
(***************************************************************************)
EXTENDS RaceLab, WorkerProofs

PaidFor(e) == \E p \in PayingDeliveries : EntitlementOf[p] = e

\* What a worker is about to write, or has paid, is true of the ledger.
DecisionHolds(w) ==
    /\ pc[w] = "PUT_CLAIM" \/ outcome[w] = "COMMITTED" => effects[Delivery(w)] > 0
    /\ outcome[w] = "DUPLICATE_SUPPRESSED" => PaidFor(EntitlementOf[Delivery(w)])

DecisionsHold == \A w \in Workers : DecisionHolds(w)

\* A delivery that is done, and one that the only invocation of its copy is at.
Settled(d) == rows[d] # NoRow /\ effects[d] = (IF rows[d] = "COMMITTED" THEN 1 ELSE 0)
InWork(w, d) ==
    /\ rows[d] = NoRow
    /\ effects[d] = (IF pc[w] = "PUT_CLAIM" \/ outcome[w] = "COMMITTED" THEN 1 ELSE 0)
OneAtWork(w, m) ==
    /\ receives[m] = 1 /\ queue[m] # "DELETED"
    /\ \A v \in Workers : job[v] = m => v = w
    /\ IF pc[w] = "ACK" THEN Settled(DeliveryOf[m]) ELSE InWork(w, DeliveryOf[m])

\* A copy that has been invoked once at most.
OneTry(m) ==
    /\ effects[DeliveryOf[m]] <= 1
    /\ receives[m] = 0 => rows[DeliveryOf[m]] = NoRow /\ effects[DeliveryOf[m]] = 0
    /\ queue[m] = "DELETED" => Settled(DeliveryOf[m])
    /\ \A w \in Workers : job[w] = m => OneAtWork(w, m)
CopiesOK == \A m \in Messages : receives[m] <= 1 => OneTry(m)

\* Who has paid for an entitlement, or has passed the check and will pay.
Paying == {"DEBIT", "PUT_EFFECT"}
Payers(e) ==
    {d \in Deliveries : /\ EntitlementOf[d] = e
                        /\ effects[d] > 0 \/ \E w \in Workers : pc[w] \in Paying /\ Delivery(w) = d}
AtWindow(w) == pc[w] \in Paying \cup {"PUT_CLAIM"}
WindowBounded(e) ==
    /\ Cardinality(Payers(e)) <= Cardinality(Workers)
    /\ claim[e] = NoClaim =>
          \A d \in Payers(e) :
             \E w \in Workers : AtWindow(w) /\ Delivery(w) = d

\* The deliveries that nothing has been debited for.
Undebited ==
    {d \in Deliveries : effects[d] = 0 /\ ~\E w \in Workers : pc[w] = "PUT_EFFECT" /\ Delivery(w) = d}
Price == Amount[CHOOSE e \in Entitlements : TRUE]
RestCovered == budgetRemaining >= Price * Cardinality(Undebited)

CopyIsCalm(m) ==
    /\ receives[m] <= (IF queue[m] \in {"UNSENT", "VISIBLE"} THEN 0 ELSE 1)
    /\ queue[m] = "IN_FLIGHT" => Invoked(m)

\* While nothing has gone wrong every copy is invoked once, and its money is there.
CalmOK ==
    Calm =>
        /\ \A m \in Messages : CopyIsCalm(m)
        /\ \A e \in Entitlements : WindowBounded(e)
        /\ RestCovered
        /\ RowsWith("BUDGET_EXHAUSTED") = {}
        /\ \A w \in Workers : outcome[w] # "BUDGET_EXHAUSTED"

NaiveInv ==
    TypeOK /\ MoneyCovered /\ ClaimMeansPaid /\ DecisionsHold /\ CopiesOK /\ CalmOK

\* Every copy has been answered for; and each by its only invocation.
AllOver == \A m \in Messages : queue[m] \in {"DELETED", "DEAD"}
Quiet == \A m \in Messages : receives[m] = 1 /\ queue[m] = "DELETED"
Tally == Count(ListEffects, Cardinality(RecordedDeliveries),
               Cardinality(RowsWith("DUPLICATE_SUPPRESSED")))

RaceOK ==
    /\ race \in [status : {Nothing, "RUNNING", "COMPLETED", "FAILED"},
                 counted : [payments : Nat, recorded : Nat, suppressed : Nat]]
    /\ effectsRead \in Nat
    /\ handler \in {"idle", "create"} => race.status = Nothing /\ execution = Nothing
    /\ execution \notin {Nothing, "RaceCopies"} => AllOver
    /\ execution = "FinishRace: deliveries" /\ Quiet => effectsRead = ListEffects
    /\ race.status = "COMPLETED" => AllOver /\ (Quiet => race.counted = Tally)

RInv == NaiveInv /\ RaceTypeOK /\ RaceOK

-----------------------------------------------------------------------------
(* Types                                                                   *)

LEMMA TypePreserved == TypeOK /\ NaiveStep => TypeOK'
<1> SUFFICES ASSUME TypeOK, NaiveStep PROVE TypeOK'
  OBVIOUS
<1> USE StoreAssumption, NaiveAssumption
<1>0. StoreTypeOK /\ QueueTypeOK /\ WorkerTypeOK(Steps) /\ mishaps \in 0 .. MaxMishaps
  BY DEF TypeOK
<1>a. UNCHANGED storeVars => StoreTypeOK'
  BY <1>0 DEF StoreTypeOK, storeVars
<1>b. "CHECK_DELIVERY" \in Steps \ {"IDLE"} /\ "IDLE" \notin Steps
  BY DEF Steps
<1>c. Mishap \/ UNCHANGED mishaps => mishaps' \in 0 .. MaxMishaps
  BY <1>0 DEF Mishap
<1>d. ASSUME NEW w \in Workers, pc[w] # "IDLE"
      PROVE  Delivery(w) \in Deliveries /\ AmountOf(Delivery(w)) \in Nat
  <2>1. Delivery(w) \in Deliveries
    BY <1>0, <1>d, BusyWorker
  <2> QED BY <2>1 DEF AmountOf
\* A request of a worker that goes on, with the outcome it has in mind.
<1>e. ASSUME NEW w \in Workers, pc[w] # "IDLE", NEW s \in Steps \cup {"ACK"},
             Proceed(w, s), UNCHANGED queueVars, StoreTypeOK',
             mishaps' \in 0 .. MaxMishaps,
             NEW o \in Outcomes \cup {NoRow}, outcome' = [outcome EXCEPT ![w] = o],
             s = "RECORD" <=> o # NoRow
      PROVE  TypeOK'
  <2>1. QueueTypeOK' /\ WorkerTypeOK(Steps)'
    BY <1>0, <1>b, <1>e, ProceedTypes
  <2> QED BY <1>0, <1>e, <2>1 DEF TypeOK, Proceed, WorkerTypeOK
<1>f. ASSUME NEW w \in Workers, pc[w] # "RECORD", UNCHANGED outcome
      PROVE  outcome' = [outcome EXCEPT ![w] = NoRow]
  BY <1>f DEF TypeOK
<1>g. ASSUME NEW w \in Workers, pc[w] = "RECORD", Proceed(w, "ACK"), UNCHANGED queueVars,
             outcome' = [outcome EXCEPT ![w] = NoRow], StoreTypeOK', UNCHANGED mishaps
      PROVE  TypeOK'
  <2>1. /\ "ACK" \in Steps \cup {"ACK"} /\ NoRow \in Outcomes \cup {NoRow}
        /\ "ACK" = "RECORD" <=> NoRow # NoRow
    OBVIOUS
  <2>2. pc[w] # "IDLE" /\ mishaps' \in 0 .. MaxMishaps
    BY <1>c, <1>g
  <2> QED BY ONLY <1>e, <1>g, <2>1, <2>2
<1>1. ASSUME NEW w \in Workers, Start(w), UNCHANGED mishaps PROVE TypeOK'
  <2>1. PICK m \in Messages : StartMessage(w, m, "CHECK_DELIVERY")
    BY <1>1 DEF Start
  <2>2. QueueTypeOK' /\ WorkerTypeOK(Steps)' /\ pc[w] = "IDLE"
    BY <1>0, <1>b, <2>1, StartTypes
  <2>3. UNCHANGED storeVars /\ UNCHANGED outcome
        /\ pc' = [pc EXCEPT ![w] = "CHECK_DELIVERY"]
    BY <1>1, <2>1 DEF Start, StartMessage, Proceed
  <2> QED BY <1>0, <1>a, <1>1, <2>2, <2>3 DEF TypeOK, WorkerTypeOK
<1>2. ASSUME NEW w \in Workers, CheckDelivery(w), UNCHANGED mishaps PROVE TypeOK'
  <2>1. PICK s \in {"ACK", "CHECK_CLAIM"} : Proceed(w, s)
    BY <1>2 DEF CheckDelivery
  <2> QED BY <1>a, <1>c, <1>e, <1>f, <1>2, <2>1 DEF CheckDelivery, Steps
<1>3. ASSUME NEW w \in Workers, Suppress(w), UNCHANGED mishaps PROVE TypeOK'
  BY <1>a, <1>c, <1>e, <1>3 DEF Suppress, GoRecord, Steps, Outcomes, NoRow
<1>4. ASSUME NEW w \in Workers, OpenWindow(w), UNCHANGED mishaps PROVE TypeOK'
  BY <1>a, <1>c, <1>e, <1>f, <1>4 DEF OpenWindow, Steps
<1>5. ASSUME NEW w \in Workers, Debit(w), UNCHANGED mishaps PROVE TypeOK'
  <2>1. StoreTypeOK'
    BY <1>0, <1>d, <1>5 DEF Debit, DebitBudget, DebitAccepted, StoreTypeOK
  <2> QED BY <1>c, <1>e, <1>f, <1>5, <2>1 DEF Debit, Steps
<1>6. ASSUME NEW w \in Workers, DebitResent(w) PROVE TypeOK'
  <2>1. PICK lost \in 1 .. 2 :
           /\ budgetRemaining >= lost * AmountOf(Delivery(w))
           /\ budgetRemaining' = budgetRemaining - lost * AmountOf(Delivery(w))
    BY <1>6 DEF DebitResent
  <2>2. lost * AmountOf(Delivery(w)) \in Nat
    BY <1>d, <1>6 DEF DebitResent
  <2>3. StoreTypeOK'
    BY <1>0, <1>6, <2>1, <2>2 DEF DebitResent, StoreTypeOK
  <2>4. QueueTypeOK' /\ WorkerTypeOK(Steps)'
    BY <1>0, <1>6 DEF DebitResent, queueVars, workerVars, QueueTypeOK, WorkerTypeOK, Idle
  <2> QED BY <1>c, <1>6, <2>3, <2>4 DEF TypeOK, DebitResent, workerVars
<1>7. ASSUME NEW w \in Workers, DebitRefused(w), UNCHANGED mishaps PROVE TypeOK'
  BY <1>a, <1>c, <1>e, <1>7 DEF DebitRefused, GoRecord, Steps, Outcomes, NoRow
<1>8. ASSUME NEW w \in Workers, Pay(w), UNCHANGED mishaps PROVE TypeOK'
  <2>1. StoreTypeOK'
    BY <1>0, <1>8, <1>d DEF Pay, PutEffect, StoreTypeOK
  <2> QED BY <1>c, <1>e, <1>f, <1>8, <2>1 DEF Pay, Steps
<1>9. ASSUME NEW w \in Workers, Claim(w), UNCHANGED mishaps PROVE TypeOK'
  <2>1. StoreTypeOK'
    BY <1>0, <1>9, <1>d DEF Claim, PutClaimUnconditionally, StoreTypeOK
  <2> QED BY <1>c, <1>e, <1>9, <2>1 DEF Claim, GoRecord, Steps, Outcomes, NoRow
<1>10. ASSUME NEW w \in Workers, Record(w), UNCHANGED mishaps PROVE TypeOK'
  <2>1. outcome[w] \in Outcomes /\ pc[w] = "RECORD"
    BY <1>10 DEF Record, TypeOK
  <2>2. StoreTypeOK'
    BY <1>0, <1>10, <1>d, <2>1 DEF Record, RecordOutcome, StoreTypeOK, CountDelivery
  <2> QED BY <1>g, <1>10, <2>2 DEF Record
<1>11. ASSUME NEW w \in Workers, RecordedByAnother(w), UNCHANGED mishaps PROVE TypeOK'
  BY <1>a, <1>g, <1>11 DEF RecordedByAnother
<1>12. ASSUME NEW w \in Workers, FailMessage(w), outcome' = [outcome EXCEPT ![w] = NoRow],
              mishaps' \in 0 .. MaxMishaps
       PROVE  TypeOK'
  <2>1. QueueTypeOK' /\ WorkerTypeOK(Steps)'
    BY <1>0, <1>12, FailTypes
  <2> QED BY <1>a, <1>12, <2>1 DEF TypeOK, FailMessage, Proceed, WorkerTypeOK
<1>13. ASSUME NEW w \in Workers, Conflict(w) PROVE TypeOK'
  <2>1. mishaps' \in 0 .. MaxMishaps
    BY <1>c, <1>13 DEF Conflict
  <2>2. CASE failures[w] + 1 < MaxAttempts
    <3>1. /\ failures' = [failures EXCEPT ![w] = @ + 1]
          /\ UNCHANGED <<pc, queueVars>>
          /\ UNCHANGED storeVars
          /\ pc'[w] # "IDLE"
      BY <1>13, <2>2 DEF Conflict, RetryConflict
    <3>2. outcome' = outcome
      BY <1>13, <3>1 DEF Conflict, TypeOK
    <3>3. QueueTypeOK' /\ WorkerTypeOK(Steps)'
      BY <1>0, <2>2, <3>1, RetryTypes
    <3> QED BY <1>a, <2>1, <3>1, <3>2, <3>3 DEF TypeOK
  <2>3. CASE ~(failures[w] + 1 < MaxAttempts)
    <3>1. FailMessage(w)
      BY <1>13, <2>3 DEF Conflict, RetryConflict
    <3>2. pc'[w] = "IDLE"
      BY <1>0, <3>1, FailTypes
    <3>3. outcome' = [outcome EXCEPT ![w] = NoRow]
      BY <1>13, <3>2 DEF Conflict
    <3> QED BY <1>12, <2>1, <3>1, <3>3
  <2> QED BY <2>2, <2>3
<1>14. ASSUME NEW w \in Workers, Finish(w), UNCHANGED mishaps PROVE TypeOK'
  <2>1. QueueTypeOK' /\ WorkerTypeOK(Steps)'
    BY <1>0, <1>14, FinishTypes DEF Finish
  <2> QED BY <1>a, <1>c, <1>14, <2>1 DEF TypeOK, Finish, FinishMessage, Proceed, WorkerTypeOK
<1>15. ASSUME NEW w \in Workers, Interrupt(w) PROVE TypeOK'
  BY <1>c, <1>12, <1>15 DEF Interrupt
<1>16. ASSUME NEW m \in Messages, Reinvoke(m) \/ NoAnswer(m) PROVE TypeOK'
  <2>1. UNCHANGED storeVars /\ UNCHANGED workerVars /\ UNCHANGED outcome
        /\ mishaps' \in 0 .. MaxMishaps
    BY <1>c, <1>16 DEF Reinvoke, NoAnswer
  <2>2. QueueTypeOK' /\ WorkerTypeOK(Steps)'
    <3>1. CASE Reappear(m)
      BY <1>0, <2>1, <3>1, ReappearTypes
    <3>2. CASE ~Reappear(m)
      <4>1. queue' = [queue EXCEPT ![m] = "DEAD"] /\ UNCHANGED <<receives, job>>
        BY <1>16, <3>2 DEF Reinvoke, NoAnswer
      <4> QED BY <1>0, <2>1, <4>1 DEF QueueTypeOK, WorkerTypeOK, workerVars, Idle, Places
    <3> QED BY <3>1, <3>2
  <2> QED BY <1>a, <2>1, <2>2 DEF TypeOK, workerVars
<1> QED BY <1>1, <1>2, <1>3, <1>4, <1>5, <1>6, <1>7, <1>8, <1>9, <1>10, <1>11, <1>13, <1>14,
           <1>15, <1>16
    DEF NaiveStep, WorkerStep

-----------------------------------------------------------------------------
(* What a step of one invocation must show                                 *)

\* It is about one copy, and undoes no payment;
OneMoves(w, m) ==
    /\ \A v \in Workers \ {w} :
          job'[v] = job[v] /\ pc'[v] = pc[v] /\ outcome'[v] = outcome[v]
    /\ \A n \in Messages \ {m} : queue'[n] = queue[n] /\ receives'[n] = receives[n]
    /\ job[w] \in {m, NoMessage} /\ job'[w] \in {m, NoMessage}
    /\ \A d \in Deliveries :
          /\ effects'[d] >= effects[d]
          /\ d # DeliveryOf[m] => effects'[d] = effects[d] /\ rows'[d] = rows[d]

\* a claim has its payment, and a suppressed copy one of its entitlement;
WritesTruth ==
    /\ \A e \in Entitlements :
          claim'[e] # claim[e] => EntitlementOf[claim'[e]] = e /\ effects'[claim'[e]] > 0
    /\ \A d \in Deliveries :
          rows'[d] = "DUPLICATE_SUPPRESSED" =>
              rows[d] = "DUPLICATE_SUPPRESSED" \/ PaidFor(EntitlementOf[d])'

\* no money is made;
MoneyKept(w) ==
    /\ MoneyPaid' \in Nat
    /\ MoneyPaid' + HeldBy(w)' + budgetRemaining'
          <= MoneyPaid + HeldBy(w) + budgetRemaining

\* and of a copy that is invoked once, how far it has come.
CopyOK(m) == receives[m] <= 1 => OneTry(m)

LEMMA PaidForStays ==
  ASSUME TypeOK, TypeOK', \A d \in Deliveries : effects'[d] >= effects[d],
         NEW e, PaidFor(e)
  PROVE  PaidFor(e)'
BY DEF PaidFor, PayingDeliveries, TypeOK, StoreTypeOK

LEMMA OthersDecisions ==
  ASSUME TypeOK, TypeOK', NEW w \in Workers, NEW m \in Messages, OneMoves(w, m),
         DecisionsHold, NEW v \in Workers, v # w
  PROVE  DecisionHolds(v)'
<1>1. /\ job'[v] = job[v] /\ pc'[v] = pc[v] /\ outcome'[v] = outcome[v]
      /\ Delivery(v)' = Delivery(v)
  BY DEF OneMoves, Delivery
<1>2. CASE pc[v] = "IDLE"
  BY <1>1, <1>2 DEF TypeOK, DecisionHolds, NoRow
<1>3. CASE pc[v] # "IDLE"
  <2>1. Delivery(v) \in Deliveries
    BY <1>3, BusyWorker DEF TypeOK
  <2>2. effects[Delivery(v)] > 0 => effects'[Delivery(v)] > 0
    BY <2>1 DEF OneMoves, TypeOK, StoreTypeOK
  <2>3. PaidFor(EntitlementOf[Delivery(v)]) => PaidFor(EntitlementOf[Delivery(v)])'
    <3>1. SUFFICES ASSUME PaidFor(EntitlementOf[Delivery(v)])
                   PROVE  PaidFor(EntitlementOf[Delivery(v)])'
      OBVIOUS
    <3>2. PICK e : e = EntitlementOf[Delivery(v)]
      OBVIOUS
    <3>3. PaidFor(e)'
      BY <3>1, <3>2, PaidForStays DEF OneMoves
    <3> QED BY <1>1, <3>2, <3>3
  <2>4. EntitlementOf[Delivery(v)]' = EntitlementOf[Delivery(v)]
    BY <1>1
  <2> QED BY <1>1, <2>2, <2>3, <2>4 DEF DecisionHolds, DecisionsHold
<1> QED BY <1>2, <1>3

\* Different messages are different copies, so the others stay where they were.
LEMMA OtherCopies ==
  ASSUME NEW w \in Workers, NEW m \in Messages, OneMoves(w, m),
         CopiesOK, NEW n \in Messages, n # m
  PROVE  CopyOK(n)'
<1> SUFFICES ASSUME receives'[n] <= 1 PROVE OneTry(n)'
  BY DEF CopyOK
<1>1. /\ DeliveryOf[n] \in Deliveries /\ DeliveryOf[n] # DeliveryOf[m]
      /\ n # NoMessage
  BY RaceLabAssumption, WorkerAssumption, QueueAssumption
<1>2. /\ queue'[n] = queue[n] /\ receives'[n] = receives[n]
      /\ effects'[DeliveryOf[n]] = effects[DeliveryOf[n]]
      /\ rows'[DeliveryOf[n]] = rows[DeliveryOf[n]]
  BY <1>1 DEF OneMoves
<1>3. OneTry(n)
  BY <1>2 DEF CopiesOK
<1>4. \A v \in Workers :
         job'[v] = n => job[v] = n /\ pc'[v] = pc[v] /\ outcome'[v] = outcome[v]
  BY <1>1 DEF OneMoves
<1>5. ASSUME NEW v \in Workers, job'[v] = n PROVE OneAtWork(v, n)'
  <2>1. OneAtWork(v, n)
    BY <1>3, <1>4, <1>5 DEF OneTry
  <2>2. pc'[v] = pc[v] /\ outcome'[v] = outcome[v]
    BY <1>4, <1>5
  <2> QED BY <1>2, <1>4, <2>1, <2>2 DEF OneAtWork, Settled, InWork
<1> QED BY <1>2, <1>3, <1>5 DEF OneTry, Settled

LEMMA MoveKeepsInv ==
  ASSUME NaiveInv, TypeOK', NEW w \in Workers, NEW m \in Messages, OneMoves(w, m),
         WritesTruth, MoneyKept(w), DecisionHolds(w)', CopyOK(m)', CalmOK'
  PROVE  NaiveInv'
<1>0. TypeOK /\ StoreTypeOK /\ MoneyCovered /\ DecisionsHold /\ CopiesOK
  BY DEF NaiveInv, TypeOK
<1>1. MoneyCovered'
  <2>1. HeldBy(w) \in Nat /\ HeldBy(w)' \in Nat
    BY HeldIsMoney, HeldStaysMoney DEF NaiveInv, TypeOK
  <2>2. budgetRemaining' \in Nat /\ MoneyPaid' \in Nat
    BY DEF TypeOK, StoreTypeOK, MoneyKept
  <2>3. MoneyPaid' + HeldBy(w)' + budgetRemaining' <= MoneyPaid + HeldBy(w) + budgetRemaining
    BY DEF MoneyKept
  <2>4. \A v \in Workers \ {w} : pc'[v] = pc[v] /\ job'[v] = job[v]
    BY DEF OneMoves
  <2> QED BY <1>0, <2>1, <2>2, <2>3, <2>4, MoneyFlows
<1>2. ClaimMeansPaid'
  <2>1. ASSUME NEW e \in Entitlements, claim'[e] # NoClaim
        PROVE  EntitlementOf[claim'[e]] = e /\ effects'[claim'[e]] > 0
    <3>1. CASE claim'[e] # claim[e]
      BY <3>1 DEF WritesTruth
    <3>2. CASE claim'[e] = claim[e]
      <4>1. claim[e] \in Deliveries /\ EntitlementOf[claim[e]] = e /\ effects[claim[e]] > 0
        BY <2>1, <3>2 DEF NaiveInv, ClaimMeansPaid, TypeOK, StoreTypeOK
      <4>2. effects'[claim[e]] >= effects[claim[e]] /\ effects[claim[e]] \in Nat
            /\ effects'[claim[e]] \in Nat
        BY <4>1, <1>0 DEF OneMoves, TypeOK, StoreTypeOK
      <4> QED BY <3>2, <4>1, <4>2
    <3> QED BY <3>1, <3>2
  <2>2. ASSUME NEW d \in Deliveries, rows'[d] = "DUPLICATE_SUPPRESSED"
        PROVE  PaidFor(EntitlementOf[d])'
    <3>1. CASE rows[d] = "DUPLICATE_SUPPRESSED"
      <4>1. PaidFor(EntitlementOf[d])
        BY <3>1 DEF NaiveInv, ClaimMeansPaid, RowsWith, PaidFor
      <4>2. \A x \in Deliveries : effects'[x] >= effects[x]
        BY DEF OneMoves
      <4> QED BY <1>0, <4>1, <4>2, PaidForStays
    <3>2. CASE rows[d] # "DUPLICATE_SUPPRESSED"
      BY <2>2, <3>2 DEF WritesTruth
    <3> QED BY <3>1, <3>2
  <2> QED BY <2>1, <2>2 DEF ClaimMeansPaid, RowsWith, PaidFor
<1>3. DecisionsHold'
  BY <1>0, OthersDecisions DEF DecisionsHold
<1>4. CopiesOK'
  BY <1>0, OtherCopies DEF CopiesOK, CopyOK
<1> QED BY <1>1, <1>2, <1>3, <1>4 DEF NaiveInv

-----------------------------------------------------------------------------
(* While nothing has gone wrong                                            *)

\* A worker that has passed the check goes on to the claim, which ends it.
SameWindow(w) ==
    /\ pc'[w] \in Paying => pc[w] \in Paying /\ job'[w] = job[w]
    /\ \A d \in Deliveries :
          effects'[d] > 0 => effects[d] > 0 \/ (pc[w] \in Paying /\ d = Delivery(w))
    /\ \A e \in Entitlements : claim'[e] = NoClaim => claim[e] = NoClaim
    /\ AtWindow(w) =>
          \/ AtWindow(w)' /\ job'[w] = job[w]
          \/ claim'[EntitlementOf[Delivery(w)]] # NoClaim

\* What has been debited is paid for.
SameDebits(w) ==
    /\ budgetRemaining' = budgetRemaining
    /\ pc[w] = "PUT_EFFECT" => effects'[Delivery(w)] > 0

RefusesNone(w) ==
    /\ outcome'[w] # "BUDGET_EXHAUSTED"
    /\ \A d \in Deliveries : rows'[d] = "BUDGET_EXHAUSTED" => rows[d] = "BUDGET_EXHAUSTED"

LEMMA WindowsKept ==
  ASSUME TypeOK, NEW w \in Workers, NEW m \in Messages, OneMoves(w, m), SameWindow(w),
         NEW e \in Entitlements, WindowBounded(e)
  PROVE  WindowBounded(e)'
<1>1. \A v \in Workers \ {w} :
         pc'[v] = pc[v] /\ Delivery(v)' = Delivery(v) /\ AtWindow(v)' = AtWindow(v)
  BY DEF OneMoves, Delivery, AtWindow
<1>2. job'[w] = job[w] => Delivery(w)' = Delivery(w)
  BY DEF Delivery
<1>3. Payers(e)' \subseteq Payers(e)
  <2> SUFFICES ASSUME NEW d \in Deliveries, EntitlementOf[d] = e,
                      effects'[d] > 0
                        \/ \E v \in Workers : pc'[v] \in Paying /\ Delivery(v)' = d
               PROVE  effects[d] > 0 \/ \E v \in Workers : pc[v] \in Paying /\ Delivery(v) = d
    BY DEF Payers
  <2>1. CASE effects'[d] > 0
    BY <2>1 DEF SameWindow
  <2>2. ASSUME NEW v \in Workers, pc'[v] \in Paying, Delivery(v)' = d
        PROVE  pc[v] \in Paying /\ Delivery(v) = d
    <3>1. CASE v = w
      BY <1>2, <2>2, <3>1 DEF SameWindow
    <3>2. CASE v # w
      BY <1>1, <2>2, <3>2
    <3> QED BY <3>1, <3>2
  <2> QED BY <2>1, <2>2
<1>4. IsFiniteSet(Payers(e))
  BY StoreAssumption, FS_Subset DEF Payers
<1>5. Cardinality(Payers(e)') <= Cardinality(Workers)
  <2>1. Cardinality(Payers(e)') <= Cardinality(Payers(e))
        /\ IsFiniteSet(Payers(e)')
    BY <1>3, <1>4, FS_Subset
  <2>2. /\ Cardinality(Payers(e)') \in Nat /\ Cardinality(Payers(e)) \in Nat
        /\ Cardinality(Workers) \in Nat
    BY <1>4, <2>1, FS_CardinalityType, RaceLabAssumption
  <2> QED BY <2>1, <2>2 DEF WindowBounded
<1>6. ASSUME claim'[e] = NoClaim, NEW d \in Payers(e)'
      PROVE  \E v \in Workers : AtWindow(v)' /\ Delivery(v)' = d
  <2>1. PICK v \in Workers : AtWindow(v) /\ Delivery(v) = d
    BY <1>3, <1>6 DEF WindowBounded, SameWindow
  <2>2. EntitlementOf[d] = e
    BY <1>6 DEF Payers
  <2>3. CASE v = w
    BY <1>2, <1>6, <2>1, <2>2, <2>3 DEF SameWindow
  <2>4. CASE v # w
    BY <1>1, <2>1, <2>4
  <2> QED BY <2>3, <2>4
<1> QED BY <1>5, <1>6 DEF WindowBounded

\* The copies whose payment is not yet debited only get fewer.
LEMMA FewerUndebited ==
  ASSUME TypeOK, TypeOK', NEW w \in Workers, NEW m \in Messages, OneMoves(w, m),
         pc[w] = "PUT_EFFECT" => effects'[Delivery(w)] > 0
  PROVE  /\ Undebited' \subseteq Undebited
         /\ IsFiniteSet(Undebited) /\ IsFiniteSet(Undebited')
         /\ Cardinality(Undebited') <= Cardinality(Undebited)
         /\ Cardinality(Undebited) \in Nat /\ Cardinality(Undebited') \in Nat
<1>1. \A v \in Workers \ {w} : pc'[v] = pc[v] /\ Delivery(v)' = Delivery(v)
  BY DEF OneMoves, Delivery
<1>2. Undebited' \subseteq Undebited
  <2> SUFFICES ASSUME NEW d \in Deliveries, effects'[d] = 0,
                      ~\E v \in Workers : pc'[v] = "PUT_EFFECT" /\ Delivery(v)' = d
               PROVE  /\ effects[d] = 0
                      /\ ~\E v \in Workers : pc[v] = "PUT_EFFECT" /\ Delivery(v) = d
    BY DEF Undebited
  <2>1. effects[d] = 0
    BY DEF OneMoves, TypeOK, StoreTypeOK
  <2>2. ASSUME NEW v \in Workers, pc[v] = "PUT_EFFECT", Delivery(v) = d PROVE FALSE
    <3>1. CASE v = w
      BY <2>2, <3>1
    <3>2. CASE v # w
      BY <1>1, <2>2, <3>2
    <3> QED BY <3>1, <3>2
  <2> QED BY <2>1, <2>2
<1>3. IsFiniteSet(Undebited)
  BY StoreAssumption, FS_Subset DEF Undebited
<1> QED BY <1>2, <1>3, FS_Subset, FS_CardinalityType

\* One entitlement, one price.
LEMMA OnePrice ==
  /\ Price \in Nat
  /\ \A d \in Deliveries : AmountOf(d) = Price
  /\ \A n \in Nat : Price * n \in Nat
  /\ \A k, n \in Nat : k <= n => Price * k <= Price * n
<1>1. PICK e \in Entitlements : Entitlements = {e}
  BY RaceLabAssumption
<1>2. Price = Amount[e] /\ Price \in Nat
  BY <1>1, StoreAssumption DEF Price
<1>3. \A d \in Deliveries : AmountOf(d) = Price
  BY <1>1, <1>2, StoreAssumption DEF AmountOf
<1>4. PICK p \in Nat : p = Price
  BY <1>2
<1>5. ASSUME NEW k \in Nat, NEW n \in Nat, k <= n PROVE p * k <= p * n
  <2>1. PICK j \in Nat : n = k + j
    BY <1>5
  <2>2. p * (k + j) = p * k + p * j /\ p * k \in Nat /\ p * j \in Nat
    BY SMT
  <2> QED BY <2>1, <2>2
<1>6. \A n \in Nat : p * n \in Nat
  BY SMT
<1> QED BY <1>2, <1>3, <1>4, <1>5, <1>6

LEMMA DebitsKept ==
  ASSUME TypeOK, TypeOK', NEW w \in Workers, NEW m \in Messages, OneMoves(w, m),
         SameDebits(w), RestCovered
  PROVE  RestCovered'
<1>1. /\ Cardinality(Undebited') <= Cardinality(Undebited)
      /\ Cardinality(Undebited) \in Nat /\ Cardinality(Undebited') \in Nat
  BY FewerUndebited DEF SameDebits
<1>2. /\ Price * Cardinality(Undebited') <= Price * Cardinality(Undebited)
      /\ Price * Cardinality(Undebited') \in Nat /\ Price * Cardinality(Undebited) \in Nat
  BY <1>1, OnePrice
<1>3. budgetRemaining' = budgetRemaining /\ budgetRemaining \in Nat
  BY DEF SameDebits, TypeOK, StoreTypeOK
<1> HIDE DEF Price
<1> QED BY <1>2, <1>3 DEF RestCovered

\* What a step in a calm race must show: its copy is invoked once.
LEMMA CalmKept ==
  ASSUME NaiveInv, TypeOK', NEW w \in Workers, NEW m \in Messages, OneMoves(w, m),
         Calm' => Calm,
         Calm' => CopyIsCalm(m)',
         Calm' => SameWindow(w) \/ \A e \in Entitlements : WindowBounded(e)',
         Calm' => SameDebits(w) \/ RestCovered',
         Calm' => RefusesNone(w)
  PROVE  CalmOK'
<1> SUFFICES ASSUME Calm'
             PROVE  /\ \A n \in Messages : CopyIsCalm(n)'
                    /\ \A e \in Entitlements : WindowBounded(e)'
                    /\ RestCovered'
                    /\ RowsWith("BUDGET_EXHAUSTED")' = {}
                    /\ \A v \in Workers : outcome'[v] # "BUDGET_EXHAUSTED"
  BY DEF CalmOK
<1>0. TypeOK /\ CalmOK /\ Calm
  BY DEF NaiveInv
<1>1. ASSUME NEW n \in Messages PROVE CopyIsCalm(n)'
  <2>1. CASE n = m
    BY <2>1
  <2>2. CASE n # m
    <3>1. queue'[n] = queue[n] /\ receives'[n] = receives[n]
      BY <2>2 DEF OneMoves
    <3>2. Invoked(n) => Invoked(n)'
      BY <2>2, QueueAssumption DEF Invoked, OneMoves
    <3>3. CopyIsCalm(n)
      BY <1>0 DEF CalmOK
    <3> QED BY <3>1, <3>2, <3>3 DEF CopyIsCalm
  <2> QED BY <2>1, <2>2
<1>2. ASSUME NEW e \in Entitlements PROVE WindowBounded(e)'
  <2>1. WindowBounded(e)
    BY <1>0 DEF CalmOK
  <2> QED BY <1>0, <2>1, WindowsKept
<1>3. RestCovered'
  <2>1. RestCovered
    BY <1>0 DEF CalmOK
  <2> QED BY <1>0, <2>1, DebitsKept
<1>4. RowsWith("BUDGET_EXHAUSTED")' = {}
  BY <1>0 DEF CalmOK, RefusesNone, RowsWith
<1>5. \A v \in Workers : outcome'[v] # "BUDGET_EXHAUSTED"
  BY <1>0 DEF CalmOK, RefusesNone, OneMoves
<1> QED BY <1>1, <1>2, <1>3, <1>4, <1>5

-----------------------------------------------------------------------------
(* The inductive invariant of the copies                                   *)

\* Where a worker is: with a message, and if it is the copy's only invocation,
\* as far as the invariant says.
LEMMA AtWork ==
  ASSUME NaiveInv, NEW w \in Workers, pc[w] # "IDLE", NEW m, job[w] = m
  PROVE  /\ m \in Messages /\ DeliveryOf[m] \in Deliveries
         /\ Delivery(w) = DeliveryOf[m]
         /\ AmountOf(DeliveryOf[m]) \in Nat
         /\ Calm => receives[m] <= 1
         /\ receives[m] <= 1 => OneAtWork(w, m)
<1>1. m \in Messages /\ Delivery(w) = DeliveryOf[m] /\ DeliveryOf[m] \in Deliveries
  BY BusyWorker DEF NaiveInv, TypeOK, Delivery
<1>2. AmountOf(DeliveryOf[m]) \in Nat
  BY <1>1, StoreAssumption DEF AmountOf
<1>3. Calm => receives[m] <= 1
  BY <1>1 DEF NaiveInv, CalmOK, CopyIsCalm, TypeOK, QueueTypeOK
<1>4. receives[m] <= 1 => OneAtWork(w, m)
  BY <1>1 DEF NaiveInv, CopiesOK, OneTry
<1> QED BY <1>1, <1>2, <1>3, <1>4

\* A request of it moves its copy on.
LEMMA CopyGoesOn ==
  ASSUME NaiveInv, NEW w \in Workers, pc[w] # "IDLE", NEW m, job[w] = m,
         OneMoves(w, m), UNCHANGED <<queue, receives, job>>,
         OneAtWork(w, m) =>
             IF pc'[w] = "ACK" THEN Settled(DeliveryOf[m])' ELSE InWork(w, DeliveryOf[m])'
  PROVE  CopyOK(m)'
<1> SUFFICES ASSUME receives'[m] <= 1 PROVE OneTry(m)'
  BY DEF CopyOK
<1>1. OneAtWork(w, m)
  BY AtWork
<1>2. OneAtWork(w, m)'
  BY <1>1 DEF OneAtWork
<1>3. effects'[DeliveryOf[m]] <= 1
  BY <1>2 DEF OneAtWork, Settled, InWork
<1>4. receives'[m] # 0 /\ queue'[m] # "DELETED"
  BY <1>2 DEF OneAtWork
<1>5. \A v \in Workers : job'[v] = m => v = w
  BY <1>2 DEF OneAtWork
<1> QED BY <1>2, <1>3, <1>4, <1>5 DEF OneTry

\* What is left to show of a request that writes nothing, and of an answer.
LEMMA ThinkKeepsInv ==
  ASSUME NaiveInv, TypeOK', NEW w \in Workers, pc[w] # "IDLE", NEW m, job[w] = m,
         \A v \in Workers \ {w} : pc'[v] = pc[v] /\ outcome'[v] = outcome[v],
         UNCHANGED <<queue, receives, job>>, UNCHANGED storeVars,
         pc[w] # "PUT_EFFECT", pc'[w] # "PUT_EFFECT", DecisionHolds(w)',
         OneAtWork(w, m) =>
             IF pc'[w] = "ACK" THEN Settled(DeliveryOf[m])' ELSE InWork(w, DeliveryOf[m])',
         Calm' => Calm,
         Calm' => SameWindow(w) \/ \A e \in Entitlements : WindowBounded(e)',
         Calm' => outcome'[w] # "BUDGET_EXHAUSTED"
  PROVE  NaiveInv'
<1>0. TypeOK /\ StoreTypeOK /\ m \in Messages /\ CalmOK
  BY AtWork DEF NaiveInv, TypeOK
<1>1. UNCHANGED <<claim, effects, rows, budgetRemaining>>
  BY DEF storeVars
<1>2. OneMoves(w, m)
  BY <1>0, <1>1 DEF OneMoves, StoreTypeOK
<1>3. WritesTruth
  BY <1>1 DEF WritesTruth
<1>4. MoneyKept(w)
  <2>1. MoneyPaid' = MoneyPaid /\ MoneyPaid' \in Nat
    BY <1>0, <1>1, NoPayment
  <2>2. HeldBy(w) = 0 /\ HeldBy(w)' = 0
    BY DEF HeldBy
  <2>3. budgetRemaining' = budgetRemaining /\ budgetRemaining \in Nat
    BY <1>0, <1>1 DEF StoreTypeOK
  <2> QED BY <2>1, <2>2, <2>3 DEF MoneyKept
<1>5. CopyOK(m)'
  BY <1>2, CopyGoesOn
<1>6. CalmOK'
  <2>1. Calm' => CopyIsCalm(m)'
    <3>1. CopyIsCalm(m) => CopyIsCalm(m)'
      BY DEF CopyIsCalm, Invoked
    <3> QED BY <1>0, <3>1 DEF CalmOK
  <2>2. Calm' => SameDebits(w)
    BY <1>1 DEF SameDebits
  <2>3. Calm' => RefusesNone(w)
    BY <1>1 DEF RefusesNone
  <2> QED BY <1>0, <1>2, <2>1, <2>2, <2>3, CalmKept
<1> QED BY <1>0, <1>2, <1>3, <1>4, <1>5, <1>6, MoveKeepsInv

\* A worker that decides outside the window leaves the window alone.
LEMMA OutsideWindow ==
  ASSUME NEW w \in Workers, UNCHANGED storeVars, ~AtWindow(w), ~AtWindow(w)'
  PROVE  SameWindow(w)
BY DEF SameWindow, AtWindow, storeVars

\* An invocation that ends, finished or not, leaves its message.
LEMMA LeavingKeepsInv ==
  ASSUME NaiveInv, TypeOK', NEW w \in Workers, pc[w] # "IDLE", NEW m, job[w] = m,
         \A v \in Workers \ {w} :
            job'[v] = job[v] /\ pc'[v] = pc[v] /\ outcome'[v] = outcome[v],
         \A n \in Messages \ {m} : queue'[n] = queue[n],
         UNCHANGED receives, UNCHANGED storeVars,
         pc'[w] = "IDLE", job'[w] = NoMessage, outcome'[w] = NoRow,
         queue'[m] = queue[m] \/ (pc[w] = "ACK" /\ queue'[m] \in {"DELETED", "DEAD"}),
         Calm' => Calm /\ pc[w] = "ACK" /\ queue'[m] \in {"DELETED", "DEAD"}
  PROVE  NaiveInv'
<1>0. /\ TypeOK /\ StoreTypeOK /\ m \in Messages /\ CalmOK
      /\ DeliveryOf[m] \in Deliveries /\ m # NoMessage
  BY AtWork, QueueAssumption DEF NaiveInv, TypeOK
<1>1. UNCHANGED <<claim, effects, rows, budgetRemaining>>
  BY DEF storeVars
<1>2. OneMoves(w, m)
  BY <1>0, <1>1 DEF OneMoves, StoreTypeOK
<1>3. WritesTruth
  BY <1>1 DEF WritesTruth
<1>4. MoneyKept(w)
  <2>1. MoneyPaid' = MoneyPaid /\ MoneyPaid' \in Nat
    BY <1>0, <1>1, NoPayment
  <2>2. HeldBy(w) \in Nat /\ HeldBy(w)' = 0
    BY HeldIsMoney DEF HeldBy, NaiveInv, TypeOK
  <2>3. budgetRemaining' = budgetRemaining /\ budgetRemaining \in Nat
    BY <1>0, <1>1 DEF StoreTypeOK
  <2> QED BY <2>1, <2>2, <2>3 DEF MoneyKept
<1>5. CopyOK(m)'
  <2> SUFFICES ASSUME receives'[m] <= 1 PROVE OneTry(m)'
    BY DEF CopyOK
  <2>1. OneAtWork(w, m)
    BY AtWork
  <2>2. effects'[DeliveryOf[m]] <= 1 /\ receives'[m] # 0
    BY <1>1, <2>1 DEF OneAtWork, Settled, InWork
  <2>3. queue'[m] = "DELETED" => Settled(DeliveryOf[m])'
    BY <1>1, <2>1 DEF OneAtWork, Settled
  <2>4. \A v \in Workers : job'[v] # m
    BY <1>0, <2>1 DEF OneAtWork
  <2> QED BY <2>2, <2>3, <2>4 DEF OneTry
<1>6. DecisionHolds(w)'
  BY DEF DecisionHolds, NoRow
<1>7. CalmOK'
  <2>1. Calm' => CopyIsCalm(m)'
    <3>1. CopyIsCalm(m) /\ queue'[m] \in {"DELETED", "DEAD"} => CopyIsCalm(m)'
      BY <1>0 DEF CopyIsCalm, TypeOK, QueueTypeOK
    <3> QED BY <1>0, <3>1 DEF CalmOK
  <2>2. Calm' => SameDebits(w)
    BY <1>1 DEF SameDebits
  <2>3. Calm' => RefusesNone(w)
    BY <1>1 DEF RefusesNone, NoRow
  <2>4. Calm' => SameWindow(w)
    BY OutsideWindow DEF AtWindow, Paying
  <2> QED BY <1>0, <1>2, <2>1, <2>2, <2>3, <2>4, CalmKept
<1> QED BY <1>0, <1>2, <1>3, <1>4, <1>5, <1>6, <1>7, MoveKeepsInv

\* The invoker and the race only move messages.
LEMMA QueueKeepsInv ==
  ASSUME NaiveInv, TypeOK', UNCHANGED <<pc, job, outcome, receives>>, UNCHANGED storeVars,
         \A m \in Messages : queue'[m] = "DELETED" => queue[m] = "DELETED",
         Calm' => Calm /\ \A m \in Messages :
                    /\ queue'[m] = "IN_FLIGHT" => queue[m] = "IN_FLIGHT"
                    /\ queue'[m] \in {"UNSENT", "VISIBLE"} => queue[m] \in {"UNSENT", "VISIBLE"}
  PROVE  NaiveInv'
<1>0. TypeOK /\ StoreTypeOK
  BY DEF NaiveInv, TypeOK
<1>1. UNCHANGED <<claim, effects, rows, budgetRemaining>>
  BY DEF storeVars
<1>2. MoneyCovered'
  <2>1. MoneyPaid' = MoneyPaid
    BY <1>0, <1>1, NoPayment
  <2>2. PaiseInHand' = PaiseInHand
    BY DEF PaiseInHand, AmountOf, Delivery
  <2> QED BY <1>1, <2>1, <2>2 DEF NaiveInv, MoneyCovered
<1>3. ClaimMeansPaid' /\ DecisionsHold'
  BY <1>1 DEF NaiveInv, ClaimMeansPaid, DecisionsHold, DecisionHolds, PaidFor, RowsWith,
              PayingDeliveries, Delivery
<1>4. CopiesOK'
  <2> SUFFICES ASSUME NEW m \in Messages, receives'[m] <= 1 PROVE OneTry(m)'
    BY DEF CopiesOK
  <2>1. OneTry(m)
    BY DEF NaiveInv, CopiesOK
  <2>2. ASSUME NEW w \in Workers, job[w] = m PROVE OneAtWork(w, m)'
    <3>1. OneAtWork(w, m)
      BY <2>1, <2>2 DEF OneTry
    <3> QED BY <1>1, <3>1 DEF OneAtWork, Settled, InWork
  <2> QED BY <1>1, <2>1, <2>2 DEF OneTry, Settled
<1>5. CalmOK'
  <2> SUFFICES ASSUME Calm' PROVE CalmOK'
    BY DEF CalmOK
  <2>1. CalmOK /\ Calm
    BY DEF NaiveInv
  <2>2. \A m \in Messages : CopyIsCalm(m)'
    BY <1>0, <2>1, QueueAssumption DEF CalmOK, CopyIsCalm, Invoked, TypeOK, QueueTypeOK
  <2>3. \A e \in Entitlements : Payers(e)' = Payers(e)
    BY <1>1 DEF Payers, Delivery
  <2>4. \A e \in Entitlements : WindowBounded(e)'
    BY <1>1, <2>1, <2>3 DEF CalmOK, WindowBounded, AtWindow, Delivery
  <2>5. Undebited' = Undebited
    BY <1>1 DEF Undebited, Delivery
  <2>6. RestCovered'
    BY <1>1, <2>1, <2>5 DEF CalmOK, RestCovered
  <2>7. RowsWith("BUDGET_EXHAUSTED")' = {} /\ \A w \in Workers : outcome'[w] # "BUDGET_EXHAUSTED"
    BY <1>1, <2>1 DEF CalmOK, RowsWith
  <2> QED BY <2>2, <2>4, <2>6, <2>7 DEF CalmOK
<1> QED BY <1>2, <1>3, <1>4, <1>5 DEF NaiveInv

\* In a calm race nobody has debited for a copy that is about to, and its money
\* is there.
LEMMA CalmDebitIsAccepted ==
  ASSUME NaiveInv, Calm, NEW w \in Workers, pc[w] = "DEBIT"
  PROVE  Delivery(w) \in Undebited /\ DebitAccepted(Delivery(w))
<1> DEFINE d == Delivery(w)
<1>1. PICK m : m = job[w]
  OBVIOUS
<1>2. /\ m \in Messages /\ d = DeliveryOf[m] /\ d \in Deliveries
      /\ OneAtWork(w, m)
  BY <1>1, AtWork
<1>3. effects[d] = 0
  <2>1. outcome[w] = NoRow
    BY DEF NaiveInv, TypeOK
  <2> QED BY <1>2, <2>1 DEF OneAtWork, InWork, NoRow
<1>4. ASSUME NEW v \in Workers, pc[v] = "PUT_EFFECT", Delivery(v) = d PROVE FALSE
  <2>1. job[v] \in Messages
    BY <1>4, BusyWorker DEF NaiveInv, TypeOK
  <2>2. job[v] = m
    BY <1>2, <1>4, <2>1, RaceLabAssumption DEF Delivery
  <2>3. v = w
    BY <1>2, <2>2 DEF OneAtWork
  <2> QED BY <1>4, <2>3
<1>5. d \in Undebited
  BY <1>2, <1>3, <1>4 DEF Undebited
<1>6. IsFiniteSet(Undebited)
  BY StoreAssumption, FS_Subset DEF Undebited
<1>7. Cardinality(Undebited) \in Nat /\ Cardinality(Undebited) # 0
  BY <1>5, <1>6, FS_CardinalityType, FS_EmptySet
<1>8. Price * 1 <= Price * Cardinality(Undebited) /\ Price * Cardinality(Undebited) \in Nat
      /\ Price \in Nat /\ AmountOf(d) = Price
  BY <1>2, <1>7, OnePrice
<1>9. budgetRemaining >= Price * Cardinality(Undebited) /\ budgetRemaining \in Nat
  BY DEF NaiveInv, CalmOK, RestCovered, TypeOK, StoreTypeOK
<1>10. budgetRemaining >= AmountOf(d)
  <2> HIDE DEF Price, d
  <2> QED BY <1>8, <1>9
<1> QED BY <1>5, <1>10 DEF DebitAccepted

\* A copy is invoked.
LEMMA StartKeepsInv ==
  ASSUME NaiveInv, TypeOK', NEW w \in Workers, Start(w), UNCHANGED mishaps
  PROVE  NaiveInv'
<1>0. TypeOK /\ StoreTypeOK /\ CalmOK /\ CopiesOK
  BY DEF NaiveInv, TypeOK
<1>1. PICK m \in Messages : StartMessage(w, m, "CHECK_DELIVERY")
  BY DEF Start
<1>2. /\ queue[m] = "VISIBLE" /\ job[w] = NoMessage /\ pc[w] = "IDLE"
      /\ queue' = [queue EXCEPT ![m] = "IN_FLIGHT"]
      /\ receives' = [receives EXCEPT ![m] = @ + 1]
      /\ job' = [job EXCEPT ![w] = m]
      /\ pc' = [pc EXCEPT ![w] = "CHECK_DELIVERY"]
      /\ UNCHANGED storeVars /\ UNCHANGED outcome
  BY <1>0, <1>1 DEF Start, StartMessage, Receive, Idle, Proceed, TypeOK, WorkerTypeOK
<1>3. UNCHANGED <<claim, effects, rows, budgetRemaining>>
  BY <1>2 DEF storeVars
<1>4. OneMoves(w, m)
  BY <1>0, <1>2, <1>3 DEF OneMoves, TypeOK, StoreTypeOK, QueueTypeOK, WorkerTypeOK
<1>5. /\ pc'[w] = "CHECK_DELIVERY" /\ job'[w] = m /\ queue'[m] = "IN_FLIGHT"
      /\ outcome'[w] = NoRow
      /\ receives[m] \in Nat /\ receives'[m] = receives[m] + 1
  BY <1>0, <1>2 DEF TypeOK, QueueTypeOK, WorkerTypeOK
<1>6. WritesTruth
  BY <1>3 DEF WritesTruth
<1>7. MoneyKept(w)
  <2>1. MoneyPaid' = MoneyPaid /\ MoneyPaid' \in Nat
    BY <1>0, <1>3, NoPayment
  <2>2. HeldBy(w) = 0 /\ HeldBy(w)' = 0
    BY <1>2, <1>5 DEF HeldBy
  <2>3. budgetRemaining' = budgetRemaining /\ budgetRemaining \in Nat
    BY <1>0, <1>3 DEF StoreTypeOK
  <2> QED BY <2>1, <2>2, <2>3 DEF MoneyKept
<1>8. DecisionHolds(w)'
  BY <1>5 DEF DecisionHolds, NoRow
<1>9. CopyOK(m)'
  <2> SUFFICES ASSUME receives'[m] <= 1 PROVE OneTry(m)'
    BY DEF CopyOK
  <2>1. receives[m] = 0 /\ receives'[m] = 1
    BY <1>5
  <2>2. OneTry(m)
    BY <1>0, <2>1 DEF CopiesOK
  <2>3. /\ rows'[DeliveryOf[m]] = NoRow /\ effects'[DeliveryOf[m]] = 0
        /\ \A v \in Workers : job[v] # m
    BY <1>3, <2>1, <2>2 DEF OneTry, OneAtWork
  <2>4. \A v \in Workers : job'[v] = m => v = w
    BY <1>2, <2>3 DEF NaiveInv, TypeOK, QueueTypeOK
  <2>5. OneAtWork(w, m)'
    BY <1>5, <2>1, <2>3, <2>4 DEF OneAtWork, InWork, NoRow
  <2> QED BY <1>5, <2>1, <2>3, <2>4, <2>5 DEF OneTry
<1>10. CalmOK'
  <2>1. Calm' => Calm
    BY DEF Calm
  <2>2. Calm' => CopyIsCalm(m)'
    BY <1>0, <1>2, <1>5, <2>1 DEF CalmOK, CopyIsCalm, Invoked
  <2>3. SameDebits(w)
    BY <1>2, <1>3 DEF SameDebits
  <2>4. SameWindow(w)
    BY <1>2, <1>5, OutsideWindow DEF AtWindow, Paying
  <2>5. RefusesNone(w)
    BY <1>3, <1>5 DEF RefusesNone, NoRow
  <2> QED BY <1>0, <1>4, <2>1, <2>2, <2>3, <2>4, <2>5, CalmKept
<1> QED BY <1>0, <1>4, <1>6, <1>7, <1>8, <1>9, <1>10, MoveKeepsInv

\* What a request that writes must show.
LEMMA WriteKeepsInv ==
  ASSUME NaiveInv, TypeOK', NEW w \in Workers, pc[w] # "IDLE", NEW m, job[w] = m,
         UNCHANGED <<queue, receives, job>>,
         OneMoves(w, m), WritesTruth, MoneyKept(w), DecisionHolds(w)',
         OneAtWork(w, m) =>
             IF pc'[w] = "ACK" THEN Settled(DeliveryOf[m])' ELSE InWork(w, DeliveryOf[m])',
         Calm' => Calm,
         Calm' => SameWindow(w),
         Calm' => SameDebits(w) \/ RestCovered',
         Calm' => RefusesNone(w)
  PROVE  NaiveInv'
<1>1. m \in Messages /\ CalmOK
  BY AtWork DEF NaiveInv
<1>2. CopyOK(m)'
  BY CopyGoesOn
<1>3. Calm' => CopyIsCalm(m)'
  <2>1. CopyIsCalm(m) => CopyIsCalm(m)'
    BY DEF CopyIsCalm, Invoked
  <2> QED BY <1>1, <2>1 DEF CalmOK
<1>4. CalmOK'
  BY <1>1, <1>3, CalmKept
<1> QED BY <1>1, <1>2, <1>4, MoveKeepsInv

LEMMA DebitKeepsInv ==
  ASSUME NaiveInv, TypeOK', NEW w \in Workers, Debit(w), UNCHANGED mishaps
  PROVE  NaiveInv'
<1>0. TypeOK /\ TypeOK' /\ StoreTypeOK
  BY DEF NaiveInv, TypeOK
<1>1. PICK m : m = job[w]
  OBVIOUS
<1>2. PICK d : d = DeliveryOf[m]
  OBVIOUS
<1>3. /\ pc[w] = "DEBIT"
      /\ pc' = [pc EXCEPT ![w] = "PUT_EFFECT"]
      /\ UNCHANGED <<queue, receives, job>> /\ UNCHANGED outcome
      /\ UNCHANGED <<claim, effects, rows>>
      /\ Delivery(w) = d
      /\ budgetRemaining >= AmountOf(d)
      /\ budgetRemaining' = budgetRemaining - AmountOf(d)
  BY <1>1, <1>2 DEF Debit, DebitBudget, DebitAccepted, Proceed, queueVars, Delivery
<1>4. m \in Messages /\ d \in Deliveries /\ AmountOf(d) \in Nat
  BY <1>1, <1>2, <1>3, AtWork
<1>5. /\ pc'[w] = "PUT_EFFECT" /\ outcome'[w] = NoRow /\ outcome[w] = NoRow
      /\ Delivery(w)' = d /\ AmountOf(d)' = AmountOf(d)
  BY <1>0, <1>3 DEF TypeOK, WorkerTypeOK, Delivery, AmountOf
<1>6. OneMoves(w, m)
  BY <1>0, <1>1, <1>3 DEF OneMoves, TypeOK, StoreTypeOK, WorkerTypeOK
<1>7. WritesTruth
  BY <1>3 DEF WritesTruth
<1>8. MoneyKept(w)
  <2>1. MoneyPaid' = MoneyPaid /\ MoneyPaid' \in Nat
    BY <1>0, <1>3, NoPayment
  <2>2. HeldBy(w) = 0 /\ HeldBy(w)' = AmountOf(d)
    BY <1>3, <1>5 DEF HeldBy
  <2>3. budgetRemaining \in Nat
    BY <1>0 DEF StoreTypeOK
  <2> QED BY <1>3, <1>4, <2>1, <2>2, <2>3 DEF MoneyKept
<1>9. DecisionHolds(w)'
  BY <1>5 DEF DecisionHolds, NoRow
<1>10. OneAtWork(w, m) =>
          IF pc'[w] = "ACK" THEN Settled(DeliveryOf[m])' ELSE InWork(w, DeliveryOf[m])'
  BY <1>2, <1>3, <1>5 DEF OneAtWork, InWork, NoRow
<1>11. SameWindow(w)
  BY <1>3, <1>5 DEF SameWindow, AtWindow, Paying
<1>12. Calm' => RestCovered'
  <2> SUFFICES ASSUME Calm PROVE RestCovered'
    BY DEF Calm
  <2>1. d \in Undebited
    BY <1>3, CalmDebitIsAccepted
  <2>2. Undebited' \subseteq Undebited /\ IsFiniteSet(Undebited) /\ IsFiniteSet(Undebited')
    BY <1>0, <1>3, <1>4, <1>6, FewerUndebited
  <2>3. d \notin Undebited'
    BY <1>5 DEF Undebited
  <2>4. /\ IsFiniteSet(Undebited \ {d})
        /\ Cardinality(Undebited \ {d}) = Cardinality(Undebited) - 1
        /\ Cardinality(Undebited) \in Nat
    BY <2>1, <2>2, FS_RemoveElement, FS_CardinalityType
  <2>5. Undebited' \subseteq Undebited \ {d}
    BY <2>2, <2>3
  <2>6. Cardinality(Undebited') <= Cardinality(Undebited \ {d})
        /\ Cardinality(Undebited') \in Nat
    BY <2>2, <2>4, <2>5, FS_Subset, FS_CardinalityType
  <2>7. PICK k, n \in Nat :
           k = Cardinality(Undebited') /\ n = Cardinality(Undebited) /\ k + 1 <= n
    BY <2>4, <2>6
  <2>8. PICK p \in Nat : p = Price /\ AmountOf(d) = p /\ p * (k + 1) <= p * n
    BY <1>4, <2>7, OnePrice
  <2>9. p * (k + 1) = p * k + p /\ p * k \in Nat /\ p * n \in Nat
    BY <2>7, <2>8, SMT
  <2>10. budgetRemaining >= p * n /\ budgetRemaining \in Nat
    BY <2>7, <2>8 DEF NaiveInv, CalmOK, RestCovered, TypeOK, StoreTypeOK
  <2>11. budgetRemaining' >= p * k
    BY <1>3, <2>8, <2>9, <2>10
  <2>12. Price' = Price
    BY DEF Price
  <2> QED BY <2>7, <2>8, <2>11, <2>12 DEF RestCovered
<1>13. RefusesNone(w)
  BY <1>3, <1>5 DEF RefusesNone, NoRow
<1>14. Calm' => Calm
  BY DEF Calm
<1> QED BY <1>0, <1>1, <1>3, <1>6, <1>7, <1>8, <1>9, <1>10, <1>11, <1>12, <1>13, <1>14,
           WriteKeepsInv

LEMMA ResentDebitKeepsInv ==
  ASSUME NaiveInv, TypeOK', NEW w \in Workers, DebitResent(w)
  PROVE  NaiveInv'
<1>0. TypeOK /\ StoreTypeOK /\ mishaps \in 0 .. MaxMishaps /\ MaxMishaps \in Nat
  BY NaiveAssumption DEF NaiveInv, TypeOK
<1>1. PICK m : m = job[w]
  OBVIOUS
<1>2. PICK lost \in 1 .. 2 : budgetRemaining' = budgetRemaining - lost * AmountOf(Delivery(w))
  BY DEF DebitResent
<1>3. /\ pc[w] = "DEBIT" /\ mishaps' = mishaps - 1
      /\ UNCHANGED <<queue, receives, job>> /\ UNCHANGED <<pc, outcome>>
      /\ UNCHANGED <<claim, effects, rows>>
  BY DEF DebitResent, Mishap, queueVars, workerVars
<1>4. m \in Messages /\ Delivery(w) = DeliveryOf[m] /\ AmountOf(Delivery(w)) \in Nat
  BY <1>1, <1>3, AtWork
<1>5. OneMoves(w, m)
  BY <1>0, <1>1, <1>3 DEF OneMoves, StoreTypeOK
<1>6. WritesTruth
  BY <1>3 DEF WritesTruth
<1>7. MoneyKept(w)
  <2>1. MoneyPaid' = MoneyPaid /\ MoneyPaid' \in Nat
    BY <1>0, <1>3, NoPayment
  <2>2. HeldBy(w) = 0 /\ HeldBy(w)' = 0
    BY <1>3 DEF HeldBy
  <2>3. budgetRemaining \in Nat /\ lost * AmountOf(Delivery(w)) \in Nat
    BY <1>0, <1>4 DEF StoreTypeOK
  <2> QED BY <1>2, <2>1, <2>2, <2>3 DEF MoneyKept
<1>8. DecisionHolds(w)'
  BY <1>0, <1>3 DEF DecisionHolds, TypeOK, NoRow
<1>9. OneAtWork(w, m) =>
         IF pc'[w] = "ACK" THEN Settled(DeliveryOf[m])' ELSE InWork(w, DeliveryOf[m])'
  BY <1>3 DEF OneAtWork, InWork
<1>10. ~Calm'
  BY <1>0, <1>3 DEF Calm
<1> QED BY <1>1, <1>3, <1>5, <1>6, <1>7, <1>8, <1>9, <1>10, WriteKeepsInv

LEMMA PayKeepsInv ==
  ASSUME NaiveInv, TypeOK', NEW w \in Workers, Pay(w), UNCHANGED mishaps
  PROVE  NaiveInv'
<1>0. TypeOK /\ StoreTypeOK
  BY DEF NaiveInv, TypeOK
<1>1. PICK m : m = job[w]
  OBVIOUS
<1>2. PICK d : d = DeliveryOf[m]
  OBVIOUS
<1>3. /\ pc[w] = "PUT_EFFECT"
      /\ pc' = [pc EXCEPT ![w] = "PUT_CLAIM"]
      /\ UNCHANGED <<queue, receives, job>> /\ UNCHANGED outcome
      /\ UNCHANGED <<claim, rows, budgetRemaining>>
      /\ Delivery(w) = d
      /\ effects' = [effects EXCEPT ![d] = @ + 1]
  BY <1>1, <1>2 DEF Pay, PutEffect, Proceed, queueVars, Delivery
<1>4. m \in Messages /\ d \in Deliveries /\ AmountOf(d) \in Nat
  BY <1>1, <1>2, <1>3, AtWork
<1>5. /\ pc'[w] = "PUT_CLAIM" /\ outcome'[w] = NoRow /\ outcome[w] = NoRow
      /\ Delivery(w)' = d
      /\ effects[d] \in Nat /\ effects'[d] = effects[d] + 1
      /\ \A x \in Deliveries \ {d} : effects'[x] = effects[x] /\ effects[x] \in Nat
  BY <1>0, <1>3, <1>4 DEF TypeOK, StoreTypeOK, WorkerTypeOK, Delivery
<1>6. OneMoves(w, m)
  BY <1>0, <1>1, <1>2, <1>3, <1>5 DEF OneMoves, TypeOK, WorkerTypeOK
<1>7. WritesTruth
  BY <1>3 DEF WritesTruth
<1>8. MoneyKept(w)
  <2>1. MoneyPaid' = MoneyPaid + AmountOf(d) /\ MoneyPaid \in Nat
    BY <1>0, <1>3, <1>4, PayingMovesAmount, LedgerIsFinite
  <2>2. HeldBy(w) = AmountOf(d) /\ HeldBy(w)' = 0
    BY <1>3, <1>5 DEF HeldBy
  <2>3. budgetRemaining' = budgetRemaining /\ budgetRemaining \in Nat
    BY <1>0, <1>3 DEF StoreTypeOK
  <2> QED BY <1>4, <2>1, <2>2, <2>3 DEF MoneyKept
<1>9. DecisionHolds(w)'
  BY <1>5 DEF DecisionHolds, NoRow
<1>10. OneAtWork(w, m) =>
          IF pc'[w] = "ACK" THEN Settled(DeliveryOf[m])' ELSE InWork(w, DeliveryOf[m])'
  BY <1>2, <1>3, <1>5 DEF OneAtWork, InWork, NoRow
<1>11. SameWindow(w)
  BY <1>3, <1>5 DEF SameWindow, AtWindow, Paying
<1>12. SameDebits(w)
  BY <1>3, <1>5 DEF SameDebits
<1>13. RefusesNone(w)
  BY <1>3, <1>5 DEF RefusesNone, NoRow
<1>14. Calm' => Calm
  BY DEF Calm
<1> QED BY <1>1, <1>3, <1>6, <1>7, <1>8, <1>9, <1>10, <1>11, <1>12, <1>13, <1>14,
           WriteKeepsInv

LEMMA ClaimKeepsInv ==
  ASSUME NaiveInv, TypeOK', NEW w \in Workers, Claim(w), UNCHANGED mishaps
  PROVE  NaiveInv'
<1>0. TypeOK /\ StoreTypeOK /\ DecisionsHold
  BY DEF NaiveInv, TypeOK
<1>1. PICK m : m = job[w]
  OBVIOUS
<1>2. PICK d : d = DeliveryOf[m]
  OBVIOUS
<1>3. /\ pc[w] = "PUT_CLAIM"
      /\ pc' = [pc EXCEPT ![w] = "RECORD"]
      /\ outcome' = [outcome EXCEPT ![w] = "COMMITTED"]
      /\ UNCHANGED <<queue, receives, job>>
      /\ UNCHANGED <<effects, rows, budgetRemaining>>
      /\ Delivery(w) = d
      /\ claim' = [claim EXCEPT ![EntitlementOf[d]] = d]
  BY <1>1, <1>2 DEF Claim, PutClaimUnconditionally, GoRecord, Proceed, queueVars, Delivery
<1>4. /\ m \in Messages /\ d \in Deliveries /\ d # NoClaim
      /\ EntitlementOf[d] \in Entitlements
  BY <1>1, <1>2, <1>3, AtWork, StoreAssumption
<1>5. /\ pc'[w] = "RECORD" /\ outcome'[w] = "COMMITTED"
      /\ Delivery(w)' = d /\ effects[d] > 0
      /\ claim'[EntitlementOf[d]] = d
      /\ \A e \in Entitlements : e # EntitlementOf[d] => claim'[e] = claim[e]
  BY <1>0, <1>3, <1>4
     DEF TypeOK, StoreTypeOK, WorkerTypeOK, Delivery, DecisionsHold, DecisionHolds
<1>6. OneMoves(w, m)
  BY <1>0, <1>1, <1>3 DEF OneMoves, TypeOK, StoreTypeOK, WorkerTypeOK
<1>7. WritesTruth
  BY <1>3, <1>5 DEF WritesTruth
<1>8. MoneyKept(w)
  <2>1. MoneyPaid' = MoneyPaid /\ MoneyPaid' \in Nat
    BY <1>0, <1>3, NoPayment
  <2>2. HeldBy(w) = 0 /\ HeldBy(w)' = 0
    BY <1>3, <1>5 DEF HeldBy
  <2>3. budgetRemaining' = budgetRemaining /\ budgetRemaining \in Nat
    BY <1>0, <1>3 DEF StoreTypeOK
  <2> QED BY <2>1, <2>2, <2>3 DEF MoneyKept
<1>9. DecisionHolds(w)'
  BY <1>3, <1>5 DEF DecisionHolds
<1>10. OneAtWork(w, m) =>
          IF pc'[w] = "ACK" THEN Settled(DeliveryOf[m])' ELSE InWork(w, DeliveryOf[m])'
  BY <1>2, <1>3, <1>5 DEF OneAtWork, InWork
<1>11. SameWindow(w)
  BY <1>3, <1>4, <1>5 DEF SameWindow, AtWindow, Paying
<1>12. SameDebits(w)
  BY <1>3 DEF SameDebits
<1>13. RefusesNone(w)
  BY <1>3, <1>5 DEF RefusesNone
<1>14. Calm' => Calm
  BY DEF Calm
<1> QED BY <1>1, <1>3, <1>6, <1>7, <1>8, <1>9, <1>10, <1>11, <1>12, <1>13, <1>14,
           WriteKeepsInv

LEMMA RecordKeepsInv ==
  ASSUME NaiveInv, TypeOK', NEW w \in Workers, Record(w), UNCHANGED mishaps
  PROVE  NaiveInv'
<1>0. TypeOK /\ StoreTypeOK /\ DecisionsHold /\ CalmOK
  BY DEF NaiveInv, TypeOK
<1>1. PICK m : m = job[w]
  OBVIOUS
<1>2. PICK d, o : d = DeliveryOf[m] /\ o = outcome[w]
  OBVIOUS
<1>3. /\ pc[w] = "RECORD"
      /\ pc' = [pc EXCEPT ![w] = "ACK"]
      /\ outcome' = [outcome EXCEPT ![w] = NoRow]
      /\ UNCHANGED <<queue, receives, job>>
      /\ UNCHANGED <<claim, effects, budgetRemaining>>
      /\ Delivery(w) = d
      /\ rows' = [rows EXCEPT ![d] = o]
  BY <1>1, <1>2 DEF Record, RecordOutcome, Proceed, queueVars, Delivery
<1>4. m \in Messages /\ d \in Deliveries
  BY <1>1, <1>2, <1>3, AtWork
<1>5. /\ pc'[w] = "ACK" /\ outcome'[w] = NoRow
      /\ o # NoRow /\ rows'[d] = o
      /\ \A x \in Deliveries \ {d} : rows'[x] = rows[x]
  BY <1>0, <1>2, <1>3, <1>4 DEF TypeOK, StoreTypeOK, WorkerTypeOK
<1>6. OneMoves(w, m)
  BY <1>0, <1>1, <1>2, <1>3 DEF OneMoves, TypeOK, StoreTypeOK, WorkerTypeOK
<1>7. WritesTruth
  <2>1. o = "DUPLICATE_SUPPRESSED" => PaidFor(EntitlementOf[d])
    BY <1>0, <1>2, <1>3 DEF DecisionsHold, DecisionHolds
  <2>2. PaidFor(EntitlementOf[d]) => PaidFor(EntitlementOf[d])'
    BY <1>3 DEF PaidFor, PayingDeliveries
  <2> QED BY <1>3, <1>5, <2>1, <2>2 DEF WritesTruth
<1>8. MoneyKept(w)
  <2>1. MoneyPaid' = MoneyPaid /\ MoneyPaid' \in Nat
    BY <1>0, <1>3, NoPayment
  <2>2. HeldBy(w) = 0 /\ HeldBy(w)' = 0
    BY <1>3, <1>5 DEF HeldBy
  <2>3. budgetRemaining' = budgetRemaining /\ budgetRemaining \in Nat
    BY <1>0, <1>3 DEF StoreTypeOK
  <2> QED BY <2>1, <2>2, <2>3 DEF MoneyKept
<1>9. DecisionHolds(w)'
  BY <1>5 DEF DecisionHolds, NoRow
<1>10. OneAtWork(w, m) =>
          IF pc'[w] = "ACK" THEN Settled(DeliveryOf[m])' ELSE InWork(w, DeliveryOf[m])'
  BY <1>2, <1>3, <1>5 DEF OneAtWork, InWork, Settled
<1>11. SameWindow(w)
  BY <1>3, <1>5 DEF SameWindow, AtWindow, Paying
<1>12. SameDebits(w)
  BY <1>3 DEF SameDebits
<1>13. Calm' => RefusesNone(w)
  BY <1>0, <1>2, <1>5 DEF RefusesNone, CalmOK, Calm, NoRow
<1>14. Calm' => Calm
  BY DEF Calm
<1> QED BY <1>1, <1>3, <1>6, <1>7, <1>8, <1>9, <1>10, <1>11, <1>12, <1>13, <1>14,
           WriteKeepsInv

\* Those who find no claim are all at work: no more than there are workers.
LEMMA OpeningBounded ==
  ASSUME NaiveInv, Calm, NEW w \in Workers, OpenWindow(w), NEW e \in Entitlements
  PROVE  WindowBounded(e)'
<1>0. TypeOK /\ WindowBounded(e)
  BY DEF NaiveInv, CalmOK
<1>1. PICK d : d = Delivery(w)
  OBVIOUS
<1>2. /\ pc[w] = "CHECK_CLAIM" /\ claim[EntitlementOf[d]] = NoClaim
      /\ pc'[w] = "DEBIT" /\ \A v \in Workers \ {w} : pc'[v] = pc[v]
      /\ UNCHANGED <<claim, effects, job>>
  BY <1>0, <1>1
     DEF OpenWindow, IsEntitlementClaimed, Proceed, storeVars, queueVars, TypeOK, WorkerTypeOK
<1>3. \A v \in Workers : Delivery(v)' = Delivery(v)
  BY <1>2 DEF Delivery
<1>4. \A v \in Workers : AtWindow(v) => AtWindow(v)'
  BY <1>2 DEF AtWindow, Paying
<1>5. \A x \in Payers(e)' : x \in Payers(e) \/ (x = d /\ EntitlementOf[d] = e)
  BY <1>1, <1>2, <1>3 DEF Payers, Paying
<1>6. ASSUME claim[e] = NoClaim, NEW x \in Payers(e)'
      PROVE  \E v \in Workers : AtWindow(v)' /\ Delivery(v)' = x
  <2>1. CASE x \in Payers(e)
    BY <1>0, <1>3, <1>4, <1>6, <2>1 DEF WindowBounded
  <2>2. CASE x = d
    BY <1>1, <1>2, <1>3, <2>2 DEF AtWindow, Paying
  <2> QED BY <1>5, <1>6, <2>1, <2>2
<1>7. Cardinality(Payers(e)') <= Cardinality(Workers)
  <2>1. CASE claim[e] = NoClaim
    <3> DEFINE at == [v \in Workers |-> Delivery(v)']
               All == {at[v] : v \in Workers}
    <3>1. at \in Surjection(Workers, All)
      BY DEF Surjection
    <3>2. Payers(e)' \subseteq All
      BY <1>6, <2>1
    <3> HIDE DEF at, All
    <3>3. IsFiniteSet(All) /\ Cardinality(All) <= Cardinality(Workers)
      BY <3>1, FS_Surjection, RaceLabAssumption
    <3>4. IsFiniteSet(Payers(e)') /\ Cardinality(Payers(e)') <= Cardinality(All)
      BY <3>2, <3>3, FS_Subset
    <3> QED BY <3>3, <3>4, FS_CardinalityType, RaceLabAssumption
  <2>2. CASE claim[e] # NoClaim
    <3>1. Payers(e)' \subseteq Payers(e)
      BY <1>2, <1>5, <2>2
    <3>2. IsFiniteSet(Payers(e))
      BY StoreAssumption, FS_Subset DEF Payers
    <3>3. IsFiniteSet(Payers(e)') /\ Cardinality(Payers(e)') <= Cardinality(Payers(e))
      BY <3>1, <3>2, FS_Subset
    <3>4. /\ Cardinality(Payers(e)') \in Nat /\ Cardinality(Payers(e)) \in Nat
          /\ Cardinality(Workers) \in Nat
      BY <3>2, <3>3, FS_CardinalityType, RaceLabAssumption
    <3> QED BY <1>0, <3>3, <3>4 DEF WindowBounded
  <2> QED BY <2>1, <2>2
<1> QED BY <1>2, <1>6, <1>7 DEF WindowBounded

LEMMA NaiveStepKeepsInv == NaiveInv /\ NaiveStep => NaiveInv'
<1> SUFFICES ASSUME NaiveInv, NaiveStep PROVE NaiveInv'
  OBVIOUS
<1>0. /\ TypeOK /\ TypeOK' /\ StoreTypeOK /\ QueueTypeOK /\ WorkerTypeOK(Steps)
      /\ DecisionsHold /\ ClaimMeansPaid /\ CalmOK
      /\ mishaps \in 0 .. MaxMishaps /\ MaxMishaps \in Nat
  BY TypePreserved, NaiveAssumption DEF NaiveInv, TypeOK
<1>a. Mishap => ~Calm'
  BY <1>0 DEF Mishap, Calm
<1>b. UNCHANGED mishaps => (Calm' => Calm)
  BY DEF Calm
<1>c. ASSUME NEW w \in Workers, NEW s, Proceed(w, s)
      PROVE  pc'[w] = s /\ \A v \in Workers \ {w} : pc'[v] = pc[v]
  BY <1>0, <1>c DEF Proceed, WorkerTypeOK
<1>d. ASSUME NEW w \in Workers, NEW o, outcome' = [outcome EXCEPT ![w] = o]
      PROVE  outcome'[w] = o /\ \A v \in Workers \ {w} : outcome'[v] = outcome[v]
  BY <1>0, <1>d DEF TypeOK
<1>e. ASSUME NEW w \in Workers, UNCHANGED job PROVE Delivery(w)' = Delivery(w)
  BY <1>e DEF Delivery
<1>f. ASSUME NEW w \in Workers, pc[w] # "RECORD" PROVE outcome[w] = NoRow
  BY <1>0, <1>f DEF TypeOK
<1>1. ASSUME NEW w \in Workers, CheckDelivery(w), UNCHANGED mishaps PROVE NaiveInv'
  <2>1. PICK m : m = job[w]
    OBVIOUS
  <2>2. /\ pc[w] = "CHECK_DELIVERY" /\ Delivery(w) = DeliveryOf[m]
        /\ pc'[w] = (IF rows[DeliveryOf[m]] # NoRow THEN "ACK" ELSE "CHECK_CLAIM")
        /\ UNCHANGED <<queue, receives, job>> /\ UNCHANGED storeVars /\ UNCHANGED outcome
        /\ UNCHANGED <<effects, rows>>
        /\ \A v \in Workers \ {w} : pc'[v] = pc[v]
        /\ outcome[w] = NoRow
    BY <1>1, <1>c, <1>f, <2>1
       DEF CheckDelivery, IsDeliveryRecorded, queueVars, storeVars, Delivery
  <2>3. DecisionHolds(w)'
    BY <2>2 DEF DecisionHolds, NoRow
  <2>4. OneAtWork(w, m) =>
           IF pc'[w] = "ACK" THEN Settled(DeliveryOf[m])' ELSE InWork(w, DeliveryOf[m])'
    BY <2>2 DEF OneAtWork, InWork
  <2>5. SameWindow(w)
    BY <2>2, OutsideWindow DEF AtWindow, Paying
  <2>6. outcome'[w] # "BUDGET_EXHAUSTED"
    BY <2>2 DEF NoRow
  <2> QED BY <1>0, <1>1, <1>b, <2>1, <2>2, <2>3, <2>4, <2>5, <2>6, ThinkKeepsInv
<1>2. ASSUME NEW w \in Workers, Suppress(w), UNCHANGED mishaps PROVE NaiveInv'
  <2>1. PICK m : m = job[w]
    OBVIOUS
  <2>2. /\ pc[w] = "CHECK_CLAIM" /\ pc'[w] = "RECORD" /\ outcome'[w] = "DUPLICATE_SUPPRESSED"
        /\ claim[EntitlementOf[Delivery(w)]] # NoClaim
        /\ UNCHANGED <<queue, receives, job>> /\ UNCHANGED storeVars
        /\ UNCHANGED <<effects, rows>>
        /\ \A v \in Workers \ {w} : pc'[v] = pc[v] /\ outcome'[v] = outcome[v]
        /\ outcome[w] = NoRow
    BY <1>2, <1>c, <1>d, <1>f
       DEF Suppress, GoRecord, IsEntitlementClaimed, queueVars, storeVars
  <2>3. Delivery(w) \in Deliveries /\ EntitlementOf[Delivery(w)] \in Entitlements
    BY <1>0, <2>2, BusyWorker, StoreAssumption
  <2>4. PaidFor(EntitlementOf[Delivery(w)])
    BY <1>0, <2>2, <2>3 DEF ClaimMeansPaid, PaidFor, PayingDeliveries, StoreTypeOK
  <2>5. DecisionHolds(w)'
    <3>1. Delivery(w)' = Delivery(w)
      BY <1>e, <2>2
    <3> QED BY <2>2, <2>4, <3>1 DEF DecisionHolds, PaidFor, PayingDeliveries
  <2>6. OneAtWork(w, m) =>
           IF pc'[w] = "ACK" THEN Settled(DeliveryOf[m])' ELSE InWork(w, DeliveryOf[m])'
    BY <2>2 DEF OneAtWork, InWork, NoRow
  <2>7. SameWindow(w)
    BY <2>2, OutsideWindow DEF AtWindow, Paying
  <2>8. outcome'[w] # "BUDGET_EXHAUSTED"
    BY <2>2
  <2> QED BY <1>0, <1>2, <1>b, <2>1, <2>2, <2>5, <2>6, <2>7, <2>8, ThinkKeepsInv
<1>3. ASSUME NEW w \in Workers, OpenWindow(w), UNCHANGED mishaps PROVE NaiveInv'
  <2>1. PICK m : m = job[w]
    OBVIOUS
  <2>2. /\ pc[w] = "CHECK_CLAIM" /\ pc'[w] = "DEBIT"
        /\ UNCHANGED <<queue, receives, job>> /\ UNCHANGED storeVars /\ UNCHANGED outcome
        /\ UNCHANGED <<effects, rows>>
        /\ \A v \in Workers \ {w} : pc'[v] = pc[v]
        /\ outcome[w] = NoRow
    BY <1>3, <1>c, <1>f DEF OpenWindow, queueVars, storeVars
  <2>3. DecisionHolds(w)'
    BY <2>2 DEF DecisionHolds, NoRow
  <2>4. OneAtWork(w, m) =>
           IF pc'[w] = "ACK" THEN Settled(DeliveryOf[m])' ELSE InWork(w, DeliveryOf[m])'
    BY <2>2 DEF OneAtWork, InWork
  <2>5. Calm' => \A e \in Entitlements : WindowBounded(e)'
    BY <1>3, <1>b, OpeningBounded
  <2>6. outcome'[w] # "BUDGET_EXHAUSTED"
    BY <2>2 DEF NoRow
  <2> QED BY <1>0, <1>3, <1>b, <2>1, <2>2, <2>3, <2>4, <2>5, <2>6, ThinkKeepsInv
<1>4. ASSUME NEW w \in Workers, DebitRefused(w), UNCHANGED mishaps PROVE NaiveInv'
  <2>1. PICK m : m = job[w]
    OBVIOUS
  <2>2. /\ pc[w] = "DEBIT" /\ pc'[w] = "RECORD" /\ outcome'[w] = "BUDGET_EXHAUSTED"
        /\ ~DebitAccepted(Delivery(w))
        /\ UNCHANGED <<queue, receives, job>> /\ UNCHANGED storeVars
        /\ UNCHANGED <<effects, rows>>
        /\ \A v \in Workers \ {w} : pc'[v] = pc[v] /\ outcome'[v] = outcome[v]
        /\ outcome[w] = NoRow
    BY <1>4, <1>c, <1>d, <1>f DEF DebitRefused, GoRecord, queueVars, storeVars
  <2>3. ~Calm'
    BY <1>4, <1>b, <2>2, CalmDebitIsAccepted
  <2>4. DecisionHolds(w)'
    BY <2>2 DEF DecisionHolds
  <2>5. OneAtWork(w, m) =>
           IF pc'[w] = "ACK" THEN Settled(DeliveryOf[m])' ELSE InWork(w, DeliveryOf[m])'
    BY <2>2 DEF OneAtWork, InWork, NoRow
  <2> QED BY <1>0, <1>4, <2>1, <2>2, <2>3, <2>4, <2>5, ThinkKeepsInv
<1>5. ASSUME NEW w \in Workers, RecordedByAnother(w), UNCHANGED mishaps PROVE NaiveInv'
  <2>1. PICK m : m = job[w]
    OBVIOUS
  <2>2. /\ pc[w] = "RECORD" /\ pc'[w] = "ACK" /\ outcome'[w] = NoRow
        /\ rows[DeliveryOf[m]] # NoRow
        /\ UNCHANGED <<queue, receives, job>> /\ UNCHANGED storeVars
        /\ \A v \in Workers \ {w} : pc'[v] = pc[v] /\ outcome'[v] = outcome[v]
    BY <1>5, <1>c, <1>d, <2>1
       DEF RecordedByAnother, IsDeliveryRecorded, queueVars, Delivery
  <2>3. DecisionHolds(w)'
    BY <2>2 DEF DecisionHolds, NoRow
  <2>4. OneAtWork(w, m) =>
           IF pc'[w] = "ACK" THEN Settled(DeliveryOf[m])' ELSE InWork(w, DeliveryOf[m])'
    BY <2>2 DEF OneAtWork, InWork
  <2>5. SameWindow(w)
    BY <2>2, OutsideWindow DEF AtWindow, Paying
  <2>6. outcome'[w] # "BUDGET_EXHAUSTED"
    BY <2>2 DEF NoRow
  <2> QED BY <1>0, <1>5, <1>b, <2>1, <2>2, <2>3, <2>4, <2>5, <2>6, ThinkKeepsInv
\* An invocation that fails takes a mishap.
<1>6. ASSUME NEW w \in Workers, FailMessage(w), outcome' = [outcome EXCEPT ![w] = NoRow],
             ~Calm'
      PROVE  NaiveInv'
  <2>1. PICK m : m = job[w]
    OBVIOUS
  <2>2. /\ job' = [job EXCEPT ![w] = NoMessage] /\ pc'[w] = "IDLE"
        /\ UNCHANGED <<queue, receives>> /\ UNCHANGED storeVars
        /\ \A v \in Workers \ {w} : pc'[v] = pc[v] /\ outcome'[v] = outcome[v]
        /\ outcome'[w] = NoRow /\ pc[w] # "IDLE"
    BY <1>0, <1>6, <1>c, <1>d DEF FailMessage, Abandon, WorkerTypeOK
  <2>3. job'[w] = NoMessage /\ \A v \in Workers \ {w} : job'[v] = job[v]
    BY <1>0, <2>2 DEF QueueTypeOK
  <2> QED BY <1>0, <1>6, <2>1, <2>2, <2>3, LeavingKeepsInv
<1>7. ASSUME NEW w \in Workers, Conflict(w) PROVE NaiveInv'
  <2>1. CASE failures[w] + 1 < MaxAttempts
    <3>1. /\ UNCHANGED <<pc, queue, receives, job>> /\ UNCHANGED storeVars
          /\ pc[w] \in {"DEBIT", "RECORD"}
      BY <1>7, <2>1 DEF Conflict, RetryConflict, queueVars
    <3>2. outcome' = outcome
      BY <1>0, <1>7, <3>1 DEF Conflict, TypeOK
    <3>3. mishaps' = mishaps
      <4>1. failures[w] + 1 # MaxAttempts
        BY <1>0, <2>1, WorkerAssumption DEF WorkerTypeOK
      <4> QED BY <1>7, <4>1 DEF Conflict
    <3>4. Calm' => Calm
      BY <1>b, <3>3
    <3> QED BY <1>0, <3>1, <3>2, <3>4, QueueKeepsInv
  <2>2. CASE ~(failures[w] + 1 < MaxAttempts)
    <3>1. FailMessage(w) /\ Mishap
      BY <1>7, <2>2 DEF Conflict, RetryConflict
    <3>2. pc'[w] = "IDLE"
      BY <1>c, <3>1 DEF FailMessage
    <3>3. outcome' = [outcome EXCEPT ![w] = NoRow]
      BY <1>7, <3>2 DEF Conflict
    <3> QED BY <1>6, <1>a, <3>1, <3>3
  <2> QED BY <2>1, <2>2
<1>8. ASSUME NEW w \in Workers, Finish(w), UNCHANGED mishaps PROVE NaiveInv'
  <2>1. PICK m : m = job[w]
    OBVIOUS
  <2>2. /\ pc[w] = "ACK" /\ pc'[w] = "IDLE"
        /\ queue' = [queue EXCEPT ![m] = IF @ = "DEAD" THEN "DEAD" ELSE "DELETED"]
        /\ job' = [job EXCEPT ![w] = NoMessage]
        /\ UNCHANGED receives /\ UNCHANGED storeVars /\ UNCHANGED outcome
        /\ \A v \in Workers \ {w} : pc'[v] = pc[v]
        /\ outcome[w] = NoRow
    BY <1>8, <1>c, <1>f, <2>1 DEF Finish, FinishMessage, Acknowledge
  <2>3. m \in Messages
    BY <2>1, <2>2, AtWork
  <2>4. /\ queue'[m] \in {"DELETED", "DEAD"}
        /\ \A n \in Messages \ {m} : queue'[n] = queue[n]
        /\ job'[w] = NoMessage /\ \A v \in Workers \ {w} : job'[v] = job[v]
    BY <1>0, <2>2, <2>3 DEF QueueTypeOK
  <2> QED BY <1>0, <1>8, <1>b, <2>1, <2>2, <2>4, LeavingKeepsInv
<1>9. ASSUME NEW m \in Messages, Reinvoke(m) PROVE NaiveInv'
  <2>1. /\ UNCHANGED <<pc, job, outcome, receives>> /\ UNCHANGED storeVars
        /\ queue' = [queue EXCEPT
                        ![m] = IF receives[m] < MaxReceives THEN "VISIBLE" ELSE "DEAD"]
        /\ ~Calm'
    BY <1>9, <1>a DEF Reinvoke, Reappear, workerVars
  <2>2. \A n \in Messages : queue'[n] = "DELETED" => queue[n] = "DELETED"
    BY <1>0, <2>1 DEF QueueTypeOK
  <2> QED BY <1>0, <2>1, <2>2, QueueKeepsInv
<1>10. ASSUME NEW m \in Messages, NoAnswer(m) PROVE NaiveInv'
  <2>1. /\ UNCHANGED <<pc, job, outcome, receives>> /\ UNCHANGED storeVars
        /\ \E place \in {"VISIBLE", "DEAD"} : queue' = [queue EXCEPT ![m] = place]
        /\ queue[m] = "IN_FLIGHT" /\ ~Invoked(m) /\ UNCHANGED mishaps
    BY <1>10 DEF NoAnswer, Reappear, workerVars
  <2>2. \A n \in Messages : queue'[n] = "DELETED" => queue[n] = "DELETED"
    BY <1>0, <2>1 DEF QueueTypeOK
  <2>3. ~Calm'
    BY <1>0, <1>b, <2>1 DEF CalmOK, CopyIsCalm
  <2> QED BY <1>0, <2>1, <2>2, <2>3, QueueKeepsInv
<1>11. ASSUME NEW w \in Workers, Interrupt(w) PROVE NaiveInv'
  BY <1>6, <1>11, <1>a DEF Interrupt
<1>12. ASSUME NEW w \in Workers,
              \/ Start(w) \/ Debit(w) \/ Pay(w) \/ Claim(w) \/ Record(w),
              UNCHANGED mishaps
       PROVE  NaiveInv'
  BY <1>0, <1>12, StartKeepsInv, DebitKeepsInv, PayKeepsInv, ClaimKeepsInv, RecordKeepsInv
<1>13. ASSUME NEW w \in Workers, DebitResent(w) PROVE NaiveInv'
  BY <1>0, <1>13, ResentDebitKeepsInv
<1> QED BY <1>1, <1>2, <1>3, <1>4, <1>5, <1>7, <1>8, <1>9, <1>10, <1>11, <1>12, <1>13
    DEF NaiveStep, WorkerStep

-----------------------------------------------------------------------------
(* The race around its copies                                              *)

\* Once every copy has been answered for none is invoked again, and the only
\* invocation of a copy that has been acknowledged is over.
LEMMA NothingComesAfter ==
  ASSUME NaiveInv, NaiveStep, AllOver
  PROVE  AllOver' /\ ~Quiet'
<1>0. TypeOK /\ QueueTypeOK /\ WorkerTypeOK(Steps) /\ CopiesOK
  BY DEF NaiveInv, TypeOK
<1>1. ASSUME NEW w \in Workers, pc[w] # "IDLE", UNCHANGED <<queue, receives>>
      PROVE  AllOver' /\ ~Quiet'
  <2>1. AllOver'
    BY <1>1 DEF AllOver
  <2>2. PICK m : m = job[w]
    OBVIOUS
  <2>3. m \in Messages /\ (receives[m] <= 1 => OneAtWork(w, m))
    BY <1>1, <2>2, AtWork
  <2>4. ~(receives[m] = 1 /\ queue[m] = "DELETED")
    BY <2>3 DEF OneAtWork
  <2> QED BY <1>1, <2>1, <2>3, <2>4 DEF Quiet
<1>2. ASSUME NEW w \in Workers, Finish(w) PROVE AllOver' /\ ~Quiet'
  <2>1. PICK m : m = job[w]
    OBVIOUS
  <2>2. /\ pc[w] = "ACK" /\ UNCHANGED receives
        /\ queue' = [queue EXCEPT ![m] = IF @ = "DEAD" THEN "DEAD" ELSE "DELETED"]
    BY <1>2, <2>1 DEF Finish, FinishMessage, Acknowledge
  <2>3. m \in Messages /\ (receives[m] <= 1 => OneAtWork(w, m))
    BY <2>1, <2>2, AtWork
  <2>4. AllOver'
    BY <1>0, <2>2, <2>3 DEF AllOver, QueueTypeOK
  <2>5. ~(receives'[m] = 1 /\ queue'[m] = "DELETED")
    BY <1>0, <2>2, <2>3 DEF OneAtWork, AllOver, QueueTypeOK
  <2> QED BY <2>3, <2>4, <2>5 DEF Quiet
<1>3. ASSUME NEW w \in Workers, Start(w) PROVE FALSE
  BY <1>3 DEF Start, StartMessage, Receive, AllOver
<1>4. ASSUME NEW m \in Messages, Reinvoke(m) \/ NoAnswer(m) PROVE FALSE
  BY <1>4 DEF Reinvoke, NoAnswer, Reappear, AllOver
<1>5. ASSUME NEW w \in Workers, FailMessage(w) PROVE AllOver' /\ ~Quiet'
  BY <1>0, <1>1, <1>5 DEF FailMessage, Abandon, WorkerTypeOK
<1>6. ASSUME NEW w \in Workers, Conflict(w) PROVE AllOver' /\ ~Quiet'
  BY <1>1, <1>5, <1>6 DEF Conflict, RetryConflict, queueVars
<1>7. ASSUME NEW w \in Workers,
             \/ CheckDelivery(w) \/ Suppress(w) \/ OpenWindow(w) \/ Debit(w)
             \/ DebitRefused(w) \/ Pay(w) \/ Claim(w) \/ Record(w)
             \/ RecordedByAnother(w) \/ DebitResent(w)
      PROVE  AllOver' /\ ~Quiet'
  <2>1. pc[w] # "IDLE" /\ UNCHANGED queueVars
    BY <1>7 DEF CheckDelivery, Suppress, OpenWindow, Debit, DebitRefused, Pay, Claim, Record,
                RecordedByAnother, DebitResent
  <2> QED BY <1>1, <2>1 DEF queueVars
<1>8. ASSUME NEW w \in Workers, Interrupt(w) PROVE AllOver' /\ ~Quiet'
  BY <1>5, <1>8 DEF Interrupt
<1> QED BY <1>2, <1>3, <1>4, <1>6, <1>7, <1>8 DEF NaiveStep, WorkerStep

\* What finish_race counts is a number.
LEMMA CountsAreNumbers ==
  ASSUME StoreTypeOK
  PROVE  /\ ListEffects \in Nat
         /\ Cardinality(RecordedDeliveries) \in Nat
         /\ \A o \in Outcomes : Cardinality(RowsWith(o)) \in Nat
<1> DEFINE F == [d \in Deliveries |-> {d} \X (1 .. effects[d])]
<1>1. ASSUME NEW d \in Deliveries PROVE IsFiniteSet(F[d])
  <2>1. effects[d] \in Nat
    BY DEF StoreTypeOK
  <2> QED BY <2>1, AllPaiseOf
<1>2. IsFiniteSet(UNION {F[d] : d \in Deliveries})
  <2>1. DOMAIN F = Deliveries
    OBVIOUS
  <2> HIDE DEF F
  <2> QED BY <1>1, <2>1, FiniteFamily, StoreAssumption
<1>3. ListEffects = Cardinality(UNION {F[d] : d \in Deliveries})
  BY DEF ListEffects
<1>4. ListEffects \in Nat
  <2> HIDE DEF F
  <2> QED BY <1>2, <1>3, FS_CardinalityType
<1>5. \A o \in Outcomes : IsFiniteSet(RowsWith(o))
  BY StoreAssumption, FS_Subset DEF RowsWith
<1>6. IsFiniteSet(RecordedDeliveries)
  BY StoreAssumption, FS_Subset DEF RecordedDeliveries
<1> QED BY <1>4, <1>5, <1>6, FS_CardinalityType

\* A fresh race satisfies the invariant: the budget is there for every copy.
LEMMA Initially == Init => RInv
<1> SUFFICES ASSUME Init PROVE RInv
  OBVIOUS
<1> USE StoreAssumption, NaiveAssumption, RaceLabAssumption DEF Init, NaiveInit
<1>1. StoreTypeOK
  BY DEF StoreInit, StoreTypeOK, NoRow
<1>2. QueueTypeOK /\ WorkerTypeOK(Steps)
  BY FreshTypes
<1>3. TypeOK
  BY <1>1, <1>2 DEF WorkerInit, TypeOK, NoRow
<1>4. MoneyCovered
  BY NothingInHand
<1>5. ClaimMeansPaid /\ DecisionsHold
  BY DEF StoreInit, WorkerInit, ClaimMeansPaid, RowsWith, DecisionsHold, DecisionHolds, NoRow
<1>6. CopiesOK
  <2>1. ASSUME NEW m \in Messages PROVE OneTry(m)
    <3>1. DeliveryOf[m] \in Deliveries /\ m # NoMessage
      BY WorkerAssumption, QueueAssumption
    <3> QED BY <3>1 DEF OneTry, StoreInit, QueueInit
  <2> QED BY <2>1 DEF CopiesOK
<1>7. CalmOK
  <2>1. \A m \in Messages : CopyIsCalm(m)
    BY DEF CopyIsCalm, QueueInit
  <2>2. \A e \in Entitlements : Payers(e) = {}
    BY DEF Payers, StoreInit, WorkerInit, Paying
  <2>3. \A e \in Entitlements : WindowBounded(e)
    <3>1. Cardinality({}) = 0
      BY FS_EmptySet
    <3>2. Cardinality(Workers) \in Nat
      BY FS_CardinalityType
    <3> QED BY <2>2, <3>1, <3>2 DEF WindowBounded
  <2>4. Undebited = Deliveries
    BY DEF Undebited, StoreInit, WorkerInit
  <2>5. RestCovered
    <3>1. PICK e \in Entitlements :
             Entitlements = {e} /\ Budget = Cardinality(Deliveries) * Amount[e]
      OBVIOUS
    <3>2. Price = Amount[e]
      BY <3>1 DEF Price
    <3>3. PICK n \in Nat, p \in Nat : n = Cardinality(Deliveries) /\ p = Amount[e]
      BY <3>1, FS_CardinalityType
    <3>4. n * p = p * n /\ p * n \in Nat
      BY <3>3, SMT
    <3>5. budgetRemaining = p * n
      BY <3>1, <3>3, <3>4 DEF StoreInit
    <3> QED BY <2>4, <3>2, <3>3, <3>4, <3>5 DEF RestCovered
  <2>6. RowsWith("BUDGET_EXHAUSTED") = {} /\ \A w \in Workers : outcome[w] # "BUDGET_EXHAUSTED"
    BY DEF RowsWith, StoreInit, NoRow
  <2> QED BY <2>1, <2>3, <2>5, <2>6 DEF CalmOK
<1>8. RaceTypeOK /\ RaceOK
  BY <1>3 DEF RaceTypeOK, RaceOK, Count, Nothing
<1> QED BY <1>3, <1>4, <1>5, <1>6, <1>7, <1>8 DEF RInv, NaiveInv

\* What the race keeps of its copies when they do not move.
TablesStay == UNCHANGED <<effects, rows, queue, receives>>

LEMMA SameTally ==
  ASSUME UNCHANGED <<effects, rows>>
  PROVE  ListEffects' = ListEffects /\ Tally' = Tally
<1>1. ListEffects' = ListEffects
  BY DEF ListEffects
<1>2. RecordedDeliveries' = RecordedDeliveries
      /\ RowsWith("DUPLICATE_SUPPRESSED")' = RowsWith("DUPLICATE_SUPPRESSED")
  BY DEF RecordedDeliveries, RowsWith
<1> QED BY <1>1, <1>2 DEF Tally

\* A step of the race alone: its page, its handler or its workflow.
LEMMA RaceStepKeepsCopies ==
  ASSUME NaiveInv, UNCHANGED <<storeVars, queueVars, workerVars, outcome>>,
         Mishap \/ UNCHANGED mishaps
  PROVE  NaiveInv' /\ TypeOK' /\ TablesStay
<1>1. TypeOK
  BY DEF NaiveInv
<1>2. mishaps' \in 0 .. MaxMishaps /\ (Calm' => Calm)
  BY <1>1, NaiveAssumption DEF TypeOK, Mishap, Calm
<1>3. /\ UNCHANGED <<pc, failures, job, outcome, receives, queue>> /\ UNCHANGED storeVars
      /\ UNCHANGED <<effects, rows>>
  BY DEF queueVars, workerVars, storeVars
<1>4. TypeOK'
  <2>1. StoreTypeOK'
    BY <1>1, <1>3 DEF TypeOK, StoreTypeOK, storeVars
  <2>2. QueueTypeOK' /\ WorkerTypeOK(Steps)'
    BY <1>1, <1>3 DEF TypeOK, QueueTypeOK, WorkerTypeOK, Idle
  <2> QED BY <1>1, <1>2, <1>3, <2>1, <2>2 DEF TypeOK
<1>5. NaiveInv'
  BY <1>2, <1>3, <1>4, QueueKeepsInv
<1> QED BY <1>3, <1>4, <1>5 DEF TablesStay

\* The workflow starts its copies: nobody has invoked them.
LEMMA SendKeepsCopies ==
  ASSUME NaiveInv, Send(Messages), UNCHANGED <<storeVars, workerVars, outcome, mishaps>>
  PROVE  NaiveInv' /\ TypeOK' /\ UNCHANGED <<effects, rows, receives>>
<1>1. TypeOK /\ QueueTypeOK /\ WorkerTypeOK(Steps)
  BY DEF NaiveInv, TypeOK
<1>2. /\ UNCHANGED <<pc, job, outcome, receives>> /\ UNCHANGED storeVars
      /\ UNCHANGED <<effects, rows>>
      /\ \A m \in Messages : queue[m] = "UNSENT" /\ queue'[m] = "VISIBLE"
  BY DEF Send, workerVars, storeVars
<1>3. TypeOK'
  <2>1. StoreTypeOK'
    BY <1>1, <1>2 DEF TypeOK, StoreTypeOK, storeVars
  <2>2. QueueTypeOK' /\ WorkerTypeOK(Steps)'
    BY <1>1, SendTypes
  <2> QED BY <1>1, <1>2, <2>1, <2>2 DEF TypeOK
<1>4. NaiveInv'
  <2>1. \A m \in Messages : queue'[m] = "DELETED" => queue[m] = "DELETED"
    BY <1>2
  <2>2. Calm' => Calm /\ \A m \in Messages :
                    /\ queue'[m] = "IN_FLIGHT" => queue[m] = "IN_FLIGHT"
                    /\ queue'[m] \in {"UNSENT", "VISIBLE"} => queue[m] \in {"UNSENT", "VISIBLE"}
    BY <1>2 DEF Calm
  <2> QED BY <1>2, <1>3, <2>1, <2>2, QueueKeepsInv
<1> QED BY <1>2, <1>3, <1>4

\* A step of the race alone, and what it finds of the copies afterwards.
RaceAlone ==
    /\ UNCHANGED <<storeVars, queueVars, workerVars, outcome>>
    /\ Mishap \/ UNCHANGED mishaps
SameCopies ==
    /\ AllOver => AllOver'
    /\ Quiet' => Quiet
    /\ ListEffects' = ListEffects /\ Tally' = Tally

LEMMA AloneKeepsCopies ==
  ASSUME NaiveInv, RaceAlone
  PROVE  NaiveInv' /\ TypeOK' /\ SameCopies
<1>1. NaiveInv' /\ TypeOK' /\ TablesStay
  BY RaceStepKeepsCopies DEF RaceAlone
<1>2. UNCHANGED <<effects, rows>> /\ UNCHANGED <<queue, receives>>
  BY <1>1 DEF TablesStay
<1> QED BY <1>1, <1>2, SameTally DEF SameCopies, AllOver, Quiet

\* Every request of a copy, and every step of the page, of the handler and of the
\* workflow preserves it.
LEMMA Inductive == RInv /\ [Next]_vars => RInv'
<1> SUFFICES ASSUME RInv, [Next]_vars PROVE RInv'
  OBVIOUS
<1> USE RaceLabAssumption
<1>0. NaiveInv /\ TypeOK /\ StoreTypeOK /\ RaceTypeOK /\ RaceOK
  BY DEF RInv, NaiveInv, TypeOK
<1>a. ASSUME RaceAlone PROVE NaiveInv' /\ TypeOK' /\ SameCopies
  BY <1>0, <1>a, AloneKeepsCopies
<1>b. UNCHANGED naiveVars => RaceAlone
  BY DEF naiveVars, RaceAlone
<1>1. CASE Launch
  <2>1. NaiveInv' /\ TypeOK' /\ SameCopies
    BY <1>1, <1>a, <1>b DEF Launch, RaceAlone
  <2>3. RaceTypeOK'
    BY <1>0, <1>1, <2>1 DEF Launch, RaceTypeOK
  <2>4. RaceOK'
    BY <1>0, <1>1, <2>1 DEF Launch, RaceOK, SameCopies, Nothing
  <2> QED BY <2>1, <2>3, <2>4 DEF RInv
<1>2. CASE CreateRace
  <2>1. NaiveInv' /\ TypeOK' /\ SameCopies
    BY <1>2, <1>a, <1>b DEF CreateRace, RaceAlone
  <2>2. race'.status = "RUNNING" /\ race'.counted = race.counted
    BY <1>0, <1>2 DEF CreateRace, RaceOK
  <2>3. RaceTypeOK'
    BY <1>0, <1>2, <2>1, <2>2 DEF CreateRace, RaceTypeOK
  <2>4. RaceOK'
    BY <1>0, <1>2, <2>1 DEF CreateRace, RaceOK, SameCopies, Nothing
  <2> QED BY <2>1, <2>3, <2>4 DEF RInv
<1>3. CASE StartRun
  <2>1. NaiveInv' /\ TypeOK' /\ UNCHANGED <<effects, rows, receives>>
    BY <1>0, <1>3, SendKeepsCopies DEF StartRun
  <2>2. /\ handler' = "answer" /\ execution' = "RaceCopies"
        /\ UNCHANGED <<race, finishes, effectsRead, button, shown>>
        /\ \A m \in Messages : queue[m] = "UNSENT"
    BY <1>3 DEF StartRun, Send
  <2>3. RaceTypeOK'
    BY <1>0, <2>1, <2>2 DEF RaceTypeOK
  <2>4. Tally' = Tally
    BY <2>1, SameTally
  <2>5. AllOver => AllOver' /\ Quiet
    BY <2>2 DEF AllOver, Quiet
  <2>6. RaceOK'
    BY <1>0, <2>2, <2>4, <2>5 DEF RaceOK, Nothing
  <2> QED BY <2>1, <2>3, <2>6 DEF RInv
<1>4. CASE HandlerDies
  <2>1. NaiveInv' /\ TypeOK' /\ SameCopies
    BY <1>4, <1>a, <1>b DEF HandlerDies, RaceAlone
  <2>3. RaceTypeOK'
    BY <1>0, <1>4, <2>1 DEF HandlerDies, RaceTypeOK
  <2>4. RaceOK'
    BY <1>0, <1>4, <2>1 DEF HandlerDies, RaceOK, SameCopies, Nothing
  <2> QED BY <2>1, <2>3, <2>4 DEF RInv
<1>5. CASE Answered
  <2>1. NaiveInv' /\ TypeOK' /\ SameCopies
    BY <1>5, <1>a, <1>b DEF Answered, RaceAlone
  <2>3. RaceTypeOK'
    BY <1>0, <1>5, <2>1 DEF Answered, RaceTypeOK
  <2>4. RaceOK'
    BY <1>0, <1>5, <2>1 DEF Answered, RaceOK, SameCopies, Nothing
  <2> QED BY <2>1, <2>3, <2>4 DEF RInv
<1>6. CASE PollRace
  <2>1. NaiveInv' /\ TypeOK' /\ SameCopies
    BY <1>6, <1>a, <1>b DEF PollRace, RaceAlone
  <2>3. RaceTypeOK'
    BY <1>0, <1>6, <2>1 DEF PollRace, RaceTypeOK
  <2>4. RaceOK'
    BY <1>0, <1>6, <2>1 DEF PollRace, RaceOK, SameCopies, Nothing
  <2> QED BY <2>1, <2>3, <2>4 DEF RInv
<1>7. CASE NaiveStep /\ UNCHANGED raceVars
  <2>1. NaiveInv' /\ TypeOK'
    BY <1>0, <1>7, NaiveStepKeepsInv, TypePreserved
  <2>2. UNCHANGED <<race, handler, execution, finishes, effectsRead, button, shown>>
    BY <1>7 DEF raceVars
  <2>3. AllOver => AllOver' /\ ~Quiet'
    BY <1>0, <1>7, NothingComesAfter
  <2>4. RaceTypeOK'
    BY <1>0, <2>1, <2>2 DEF RaceTypeOK
  <2>5. RaceOK'
    BY <1>0, <2>2, <2>3 DEF RaceOK, Nothing
  <2> QED BY <2>1, <2>4, <2>5 DEF RInv
<1>8. CASE RaceCopiesEnd
  <2>1. NaiveInv' /\ TypeOK' /\ SameCopies
    BY <1>8, <1>a, <1>b DEF RaceCopiesEnd, RaceAlone
  <2>2. AllOver /\ 1 \in 0 .. MaxFinishes
    BY <1>8 DEF RaceCopiesEnd, AllOver
  <2>3. RaceTypeOK'
    BY <1>0, <1>8, <2>1, <2>2 DEF RaceCopiesEnd, RaceTypeOK
  <2>4. RaceOK'
    BY <1>0, <1>8, <2>1, <2>2 DEF RaceCopiesEnd, RaceOK, SameCopies, Nothing
  <2> QED BY <2>1, <2>3, <2>4 DEF RInv
<1>9. CASE ListLedger
  <2>1. NaiveInv' /\ TypeOK' /\ SameCopies
    BY <1>9, <1>a, <1>b DEF ListLedger, RaceAlone
  <2>2. ListEffects \in Nat
    BY <1>0, CountsAreNumbers
  <2>3. RaceTypeOK'
    BY <1>0, <1>9, <2>1, <2>2 DEF ListLedger, RaceTypeOK
  <2>4. RaceOK'
    BY <1>0, <1>9, <2>1, <2>2 DEF ListLedger, RaceOK, SameCopies, Nothing
  <2> QED BY <2>1, <2>3, <2>4 DEF RInv
<1>10. CASE Update
  <2>1. /\ execution = "FinishRace: deliveries" /\ race.status = "RUNNING"
        /\ race' = [status |-> "COMPLETED", counted |-> Counted]
        /\ \/ execution' = "Done" /\ UNCHANGED <<mishaps, finishes>>
           \/ /\ finishes < MaxFinishes /\ Mishap
              /\ execution' = "FinishRace" /\ finishes' = finishes + 1
        /\ UNCHANGED <<storeVars, queueVars, workerVars, outcome>>
        /\ UNCHANGED <<handler, effectsRead, button, shown>>
    BY <1>10 DEF Update
  <2>2. AllOver /\ (Quiet => Counted = Tally)
    BY <1>0, <2>1 DEF RaceOK, Counted, Tally, Nothing
  <2>3. Counted \in [payments : Nat, recorded : Nat, suppressed : Nat]
    BY <1>0, CountsAreNumbers DEF Counted, Count, RaceOK, Outcomes
  <2>4. finishes' \in 0 .. MaxFinishes
    <3>1. finishes \in 0 .. MaxFinishes /\ MaxFinishes \in Nat
      BY <1>0 DEF RaceTypeOK
    <3>2. finishes' = finishes \/ (finishes < MaxFinishes /\ finishes' = finishes + 1)
      BY <2>1
    <3> QED BY <3>1, <3>2
  <2>5. race' \in [status : {Nothing, "RUNNING", "COMPLETED", "FAILED"},
                   counted : [payments : Nat, recorded : Nat, suppressed : Nat]]
    BY <2>1, <2>3
  <2>6. race'.counted.payments \in Nat /\ race'.status = "COMPLETED" /\ race'.counted = Counted
    BY <2>1, <2>3
  <2>7. execution' \in {"Done", "FinishRace"} /\ (Mishap \/ UNCHANGED mishaps)
    BY <2>1
  <2>8. NaiveInv' /\ TypeOK' /\ SameCopies
    BY <1>a, <2>1, <2>7 DEF RaceAlone
  <2>9. handler \notin {"idle", "create"}
    BY <1>0, <2>1 DEF RaceOK, Nothing
  <2>10. RaceTypeOK'
    BY <1>0, <2>1, <2>4, <2>6, <2>7, <2>8 DEF RaceTypeOK
  <2>11. AllOver' /\ (Quiet' => Counted = Tally')
    BY <2>2, <2>8 DEF SameCopies
  <2>12. RaceOK'
    BY <1>0, <2>1, <2>5, <2>6, <2>7, <2>9, <2>11 DEF RaceOK
  <2> QED BY <2>8, <2>10, <2>12 DEF RInv
<1>11. CASE UpdateRefused
  <2>1. NaiveInv' /\ TypeOK' /\ SameCopies
    BY <1>11, <1>a, <1>b DEF UpdateRefused, RaceAlone
  <2>3. RaceTypeOK'
    BY <1>0, <1>11, <2>1 DEF UpdateRefused, RaceTypeOK
  <2>4. RaceOK'
    BY <1>0, <1>11, <2>1 DEF UpdateRefused, RaceOK, SameCopies, Nothing
  <2> QED BY <2>1, <2>3, <2>4 DEF RInv
<1>12. CASE FinishFails
  <2>1. NaiveInv' /\ TypeOK' /\ SameCopies
    BY <1>12, <1>a, <1>b DEF FinishFails, RaceAlone
  <2>3. RaceTypeOK'
    BY <1>0, <1>12, <2>1 DEF FinishFails, RaceTypeOK
  <2>4. RaceOK'
    BY <1>0, <1>12, <2>1 DEF FinishFails, RaceOK, SameCopies, Nothing
  <2> QED BY <2>1, <2>3, <2>4 DEF RInv
<1>13. CASE MarkFailed \/ MarkFailedFails
  <2>1. /\ execution = "MarkFailed" /\ execution' = "RaceFailed"
        /\ \/ race' = race
           \/ race' = [race EXCEPT !.status = IF @ = "COMPLETED" THEN @ ELSE "FAILED"]
        /\ UNCHANGED naiveVars
        /\ UNCHANGED <<handler, finishes, effectsRead, button, shown>>
    BY <1>13 DEF MarkFailed, MarkFailedFails
  <2>2. race \in [status : {Nothing, "RUNNING", "COMPLETED", "FAILED"},
                  counted : [payments : Nat, recorded : Nat, suppressed : Nat]]
    BY <1>0 DEF RaceOK
  <2>3. /\ race' \in [status : {Nothing, "RUNNING", "COMPLETED", "FAILED"},
                      counted : [payments : Nat, recorded : Nat, suppressed : Nat]]
        /\ race'.counted = race.counted
        /\ race'.status = "COMPLETED" => race.status = "COMPLETED"
    BY <2>1, <2>2
  <2>4. NaiveInv' /\ TypeOK' /\ SameCopies
    BY <1>a, <1>b, <2>1
  <2>5. handler \notin {"idle", "create"}
    BY <1>0, <2>1 DEF RaceOK, Nothing
  <2>6. RaceTypeOK'
    BY <1>0, <2>1, <2>3, <2>4 DEF RaceTypeOK
  <2>7. RaceOK'
    BY <1>0, <2>1, <2>3, <2>4, <2>5 DEF RaceOK, SameCopies, Nothing
  <2> QED BY <2>4, <2>6, <2>7 DEF RInv
<1>14. CASE UNCHANGED vars
  <2>1. NaiveInv' /\ TypeOK' /\ SameCopies
    BY <1>14, <1>a, <1>b DEF vars
  <2>2. UNCHANGED <<race, handler, execution, finishes, effectsRead, button, shown>>
    BY <1>14 DEF vars, raceVars
  <2>3. RaceTypeOK'
    BY <1>0, <2>1, <2>2 DEF RaceTypeOK
  <2>4. RaceOK'
    BY <1>0, <2>1, <2>2 DEF RaceOK, SameCopies
  <2> QED BY <2>1, <2>3, <2>4 DEF RInv
<1> QED BY <1>1, <1>2, <1>3, <1>4, <1>5, <1>6, <1>7, <1>8, <1>9, <1>10, <1>11, <1>12, <1>13,
           <1>14
    DEF Next, Handler, Workflow

-----------------------------------------------------------------------------
(* The results                                                             *)

\* The strengthened invariant holds in every reachable state of a race.
THEOREM RaceInvariant == Spec => []RInv
<1>1. Init => RInv
  BY Initially
<1>2. RInv /\ [Next]_vars => RInv'
  BY Inductive
<1> QED BY <1>1, <1>2, PTL DEF Spec

\* A race never pays more than it was given, whatever fails or is repeated: every
\* payment spends a debit of its own.
THEOREM RacesNeverOverspend == Spec => []RaceNeverOverspends
<1>1. RInv => RaceNeverOverspends
  BY DEF RInv, NaiveInv, MoneyCovered, RaceNeverOverspends
<1> QED BY <1>1, RaceInvariant, PTL

\* A claim has its payment and a suppressed copy another one, although the
\* processor pays before it claims and may die in between.
THEOREM ClaimsAlwaysMeanPaid == Spec => []ClaimMeansPaid
<1>1. RInv => ClaimMeansPaid
  BY DEF RInv, NaiveInv
<1> QED BY <1>1, RaceInvariant, PTL

\* Without failures there are at most as many payments of an entitlement as there
\* are workers, each made once, and no copy is refused: of any number of copies
\* only those pay that have passed the check before the first claim.
THEOREM OverlapBoundsOverpayment == Spec => []OverpaymentBoundedByOverlap
<1>1. RInv => OverpaymentBoundedByOverlap
  <2> SUFFICES ASSUME RInv, Calm, NEW e \in Entitlements
               PROVE  /\ Cardinality({d \in PayingDeliveries : EntitlementOf[d] = e})
                            <= Cardinality(Workers)
                      /\ \A d \in PayingDeliveries : effects[d] = 1
                      /\ RowsWith("BUDGET_EXHAUSTED") = {}
    BY DEF OverpaymentBoundedByOverlap
  <2>0. CalmOK /\ CopiesOK /\ StoreTypeOK /\ QueueTypeOK
    BY DEF RInv, NaiveInv, TypeOK
  <2>1. Cardinality({d \in PayingDeliveries : EntitlementOf[d] = e}) <= Cardinality(Workers)
    <3> DEFINE Paid == {d \in PayingDeliveries : EntitlementOf[d] = e}
    <3>1. Paid \subseteq Payers(e)
      BY DEF PayingDeliveries, Payers
    <3>2. IsFiniteSet(Payers(e)) /\ Cardinality(Payers(e)) <= Cardinality(Workers)
      BY <2>0, StoreAssumption, FS_Subset DEF Payers, CalmOK, WindowBounded
    <3> HIDE DEF Paid
    <3>3. IsFiniteSet(Paid) /\ Cardinality(Paid) <= Cardinality(Payers(e))
      BY <3>1, <3>2, FS_Subset
    <3>4. /\ Cardinality(Paid) \in Nat /\ Cardinality(Payers(e)) \in Nat
          /\ Cardinality(Workers) \in Nat
      BY <3>2, <3>3, FS_CardinalityType, RaceLabAssumption
    <3>5. Cardinality(Paid) <= Cardinality(Workers)
      BY <3>2, <3>3, <3>4
    <3> QED BY <3>5 DEF Paid
  <2>2. ASSUME NEW d \in PayingDeliveries PROVE effects[d] = 1
    <3>1. d \in Deliveries /\ effects[d] > 0 /\ effects[d] \in Nat
      BY <2>0 DEF PayingDeliveries, StoreTypeOK
    <3>2. PICK m \in Messages : DeliveryOf[m] = d
      BY <3>1, RaceLabAssumption
    <3>3. receives[m] <= 1
      BY <2>0 DEF CalmOK, CopyIsCalm, QueueTypeOK
    <3>4. effects[d] <= 1
      BY <2>0, <3>2, <3>3 DEF CopiesOK, OneTry
    <3> QED BY <3>1, <3>4
  <2>3. RowsWith("BUDGET_EXHAUSTED") = {}
    BY <2>0 DEF CalmOK
  <2> QED BY <2>1, <2>2, <2>3
<1> QED BY <1>1, RaceInvariant, PTL

\* When every copy has been acknowledged by its only invocation, payments and
\* refusals together are all the copies.
LEMMA QuietCounts ==
  ASSUME NaiveInv, Quiet
  PROVE  /\ RecordedDeliveries = Deliveries
         /\ ListEffects = Cardinality(PayingDeliveries)
         /\ Cardinality(Deliveries) = ListEffects
                + Cardinality(RowsWith("DUPLICATE_SUPPRESSED"))
                + Cardinality(RowsWith("BUDGET_EXHAUSTED"))
<1>0. StoreTypeOK /\ CopiesOK
  BY DEF NaiveInv, TypeOK
<1>1. ASSUME NEW d \in Deliveries PROVE Settled(d)
  <2>1. PICK m \in Messages : DeliveryOf[m] = d
    BY RaceLabAssumption
  <2> QED BY <1>0, <2>1 DEF Quiet, CopiesOK, OneTry
<1>2. RecordedDeliveries = Deliveries
  BY <1>1 DEF Settled, RecordedDeliveries
<1>3. PayingDeliveries = RowsWith("COMMITTED")
  BY <1>1 DEF Settled, PayingDeliveries, RowsWith
<1>4. IsFiniteSet(PayingDeliveries)
  BY StoreAssumption, FS_Subset DEF PayingDeliveries
<1>5. ListEffects = Cardinality(PayingDeliveries)
  <2>1. UNION {{d} \X (1 .. effects[d]) : d \in Deliveries} = PayingDeliveries \X {1}
    <3>1. ASSUME NEW d \in Deliveries
          PROVE  {d} \X (1 .. effects[d]) = (IF d \in PayingDeliveries THEN {d} \X {1} ELSE {})
      <4>1. effects[d] = (IF d \in PayingDeliveries THEN 1 ELSE 0)
        BY <1>1, <1>3 DEF Settled, RowsWith
      <4>2. CASE d \in PayingDeliveries
        <5>1. 1 .. effects[d] = {1}
          BY <4>1, <4>2
        <5> QED BY <4>2, <5>1
      <4>3. CASE d \notin PayingDeliveries
        <5>1. 1 .. effects[d] = {}
          BY <4>1, <4>3
        <5> QED BY <4>3, <5>1
      <4> QED BY <4>2, <4>3
    <3>2. UNION {{d} \X (1 .. effects[d]) : d \in Deliveries}
             = UNION {(IF d \in PayingDeliveries THEN {d} \X {1} ELSE {}) : d \in Deliveries}
      BY <3>1
    <3>3. PayingDeliveries \subseteq Deliveries
      BY DEF PayingDeliveries
    <3>4. UNION {(IF d \in PayingDeliveries THEN {d} \X {1} ELSE {}) : d \in Deliveries}
             = PayingDeliveries \X {1}
      BY <3>3
    <3> QED BY <3>2, <3>4
  <2>2. IsFiniteSet({1}) /\ Cardinality({1}) = 1
    BY FS_Singleton
  <2>3. Cardinality(PayingDeliveries \X {1}) = Cardinality(PayingDeliveries) * Cardinality({1})
    BY <1>4, <2>2, FS_Product
  <2>4. PICK n \in Nat : n = Cardinality(PayingDeliveries)
    BY <1>4, FS_CardinalityType
  <2>5. Cardinality(PayingDeliveries \X {1}) = n
    BY <2>2, <2>3, <2>4
  <2>6. ListEffects = Cardinality(PayingDeliveries \X {1})
    BY <2>1 DEF ListEffects
  <2> QED BY <2>4, <2>5, <2>6
<1>6. /\ IsFiniteSet(RowsWith("COMMITTED")) /\ IsFiniteSet(RowsWith("DUPLICATE_SUPPRESSED"))
      /\ IsFiniteSet(RowsWith("BUDGET_EXHAUSTED"))
  BY StoreAssumption, FS_Subset DEF RowsWith
<1> DEFINE C == RowsWith("COMMITTED")
           D == RowsWith("DUPLICATE_SUPPRESSED")
           B == RowsWith("BUDGET_EXHAUSTED")
<1>7. Deliveries = (C \cup D) \cup B /\ C \cap D = {} /\ (C \cup D) \cap B = {}
  BY <1>0, <1>1 DEF Settled, RowsWith, StoreTypeOK, Outcomes
<1> HIDE DEF C, D, B
<1>8. IsFiniteSet(C \cup D) /\ Cardinality(C \cup D) = Cardinality(C) + Cardinality(D)
  BY <1>6, <1>7, DisjointUnion DEF C, D
<1>9. Cardinality((C \cup D) \cup B) = Cardinality(C \cup D) + Cardinality(B)
  BY <1>6, <1>7, <1>8, DisjointUnion DEF B
<1> QED BY <1>2, <1>3, <1>5, <1>7, <1>8, <1>9 DEF C, D, B

\* The result of a race is what its copies did, for good: unless a copy was given
\* up or invoked twice, no payment comes after the count.
THEOREM ResultsMatchLedger == Spec => []ResultMatchesLedger
<1>1. RInv => ResultMatchesLedger
  <2> SUFFICES ASSUME RInv, race.status = "COMPLETED",
                      \A m \in Messages : receives[m] = 1 /\ queue[m] = "DELETED"
               PROVE  /\ race.counted.payments = ListEffects
                      /\ race.counted.recorded = Cardinality(Deliveries)
                      /\ Cardinality(Deliveries) = race.counted.payments
                             + race.counted.suppressed + Cardinality(RowsWith("BUDGET_EXHAUSTED"))
                      /\ Verdict(race.counted) = "PASS" => Cardinality(PayingDeliveries) = 1
    BY DEF ResultMatchesLedger
  <2>1. Quiet /\ NaiveInv /\ race.counted = Tally
    BY DEF Quiet, RInv, RaceOK
  <2>2. /\ race.counted.payments = ListEffects
        /\ race.counted.recorded = Cardinality(RecordedDeliveries)
        /\ race.counted.suppressed = Cardinality(RowsWith("DUPLICATE_SUPPRESSED"))
    BY <2>1 DEF Tally, Count
  <2>3. /\ RecordedDeliveries = Deliveries
        /\ ListEffects = Cardinality(PayingDeliveries)
        /\ Cardinality(Deliveries) = ListEffects
                + Cardinality(RowsWith("DUPLICATE_SUPPRESSED"))
                + Cardinality(RowsWith("BUDGET_EXHAUSTED"))
    BY <2>1, QuietCounts
  <2>4. Verdict(race.counted) = "PASS" => race.counted.payments = 1
    BY DEF Verdict
  <2> QED BY <2>2, <2>3, <2>4
<1> QED BY <1>1, RaceInvariant, PTL

\* A race that has its result keeps it, although finish_race, asked again after a
\* lost answer, fails and sends the workflow to MarkFailed.
THEOREM ResultsAreFinal == Spec => CompletedRaceIsFinal
<1>1. RInv /\ [Next]_vars => (race.status = "COMPLETED" => race' = race)
  <2> SUFFICES ASSUME RInv, Next, race.status = "COMPLETED" PROVE race' = race
    BY DEF vars, raceVars
  <2>1. /\ race \in [status : {Nothing, "RUNNING", "COMPLETED", "FAILED"},
                     counted : [payments : Nat, recorded : Nat, suppressed : Nat]]
        /\ handler # "create"
    BY DEF RInv, RaceOK, Nothing
  <2>2. CASE MarkFailed
    <3>1. race' = [race EXCEPT !.status = "COMPLETED"]
      BY <2>2 DEF MarkFailed
    <3> QED BY <2>1, <3>1
  <2>3. CASE CreateRace \/ Update
    BY <2>1, <2>3 DEF CreateRace, Update
  <2> QED BY <2>2, <2>3
      DEF Next, Launch, Handler, StartRun, Answered, HandlerDies, PollRace, Workflow,
          RaceCopiesEnd, ListLedger, UpdateRefused, FinishFails, MarkFailedFails, raceVars
<1>2. Spec => [][race.status = "COMPLETED" => race' = race]_vars
  BY <1>1, RaceInvariant, PTL DEF Spec
<1> QED BY <1>2 DEF CompletedRaceIsFinal
=============================================================================
