---------------------------- MODULE WorkerProofs ----------------------------
(***************************************************************************)
(* Lemmas about what the three processors share, for every value of the    *)
(* constants: the money and the counters of the tables, and the types of   *)
(* the queue and of the workers.  The proofs about the processors, the     *)
(* race and the runs cite them.                                            *)
(***************************************************************************)
EXTENDS Worker, FiniteSetTheorems, TLAPS

-----------------------------------------------------------------------------
(* Sets                                                                    *)

\* Sets that share nothing add up.
LEMMA DisjointUnion ==
  ASSUME NEW S, NEW T, IsFiniteSet(S), IsFiniteSet(T), S \cap T = {}
  PROVE  /\ IsFiniteSet(S \cup T)
         /\ Cardinality(S \cup T) = Cardinality(S) + Cardinality(T)
<1>1. Cardinality(S \cap T) = 0
  BY FS_EmptySet
<1>2. Cardinality(S) \in Nat /\ Cardinality(T) \in Nat
  BY FS_CardinalityType
<1>3. IsFiniteSet(S \cup T)
      /\ Cardinality(S \cup T) = Cardinality(S) + Cardinality(T) - Cardinality(S \cap T)
  BY FS_Union
<1> QED BY <1>1, <1>2, <1>3

\* A set of paise marked with their owner has as many elements as paise.
LEMMA PaiseOf ==
  ASSUME NEW x, NEW lo \in Nat, NEW n \in Nat
  PROVE  /\ IsFiniteSet({x} \X (lo + 1 .. lo + n))
         /\ Cardinality({x} \X (lo + 1 .. lo + n)) = n
<1>1. IsFiniteSet({x}) /\ Cardinality({x}) = 1
  BY FS_Singleton
<1>2. IsFiniteSet(lo + 1 .. lo + n) /\ Cardinality(lo + 1 .. lo + n) = n
  <2>1. lo + 1 \in Int /\ lo + n \in Int
    OBVIOUS
  <2>2. IsFiniteSet(lo + 1 .. lo + n)
        /\ Cardinality(lo + 1 .. lo + n) =
             IF lo + 1 > lo + n THEN 0 ELSE (lo + n) - (lo + 1) + 1
    BY <2>1, FS_Interval
  <2> QED BY <2>2
<1>3. IsFiniteSet({x} \X (lo + 1 .. lo + n))
      /\ Cardinality({x} \X (lo + 1 .. lo + n))
           = Cardinality({x}) * Cardinality(lo + 1 .. lo + n)
  BY <1>1, <1>2, FS_Product
<1> QED BY <1>1, <1>2, <1>3

\* In particular when they are counted from the first one.
LEMMA AllPaiseOf ==
  \A x : \A n \in Nat :
     IsFiniteSet({x} \X (1 .. n)) /\ Cardinality({x} \X (1 .. n)) = n
<1> SUFFICES ASSUME NEW x, NEW n \in Nat
             PROVE  IsFiniteSet({x} \X (1 .. n)) /\ Cardinality({x} \X (1 .. n)) = n
  OBVIOUS
<1>1. IsFiniteSet({x}) /\ Cardinality({x}) = 1
  BY FS_Singleton
<1>2. IsFiniteSet(1 .. n) /\ Cardinality(1 .. n) = n
  BY FS_Interval
<1>3. IsFiniteSet({x} \X (1 .. n))
      /\ Cardinality({x} \X (1 .. n)) = Cardinality({x}) * Cardinality(1 .. n)
  BY <1>1, <1>2, FS_Product
<1> QED BY <1>1, <1>2, <1>3

\* A family of finite sets over a finite set has a finite union.
LEMMA FiniteFamily ==
  ASSUME NEW S, IsFiniteSet(S), NEW F, DOMAIN F = S,
         \A x \in S : IsFiniteSet(F[x])
  PROVE  IsFiniteSet(UNION {F[x] : x \in S})
<1> DEFINE T == {F[x] : x \in S}
           f == [x \in S |-> F[x]]
<1>1. f \in Surjection(S, T)
  BY DEF Surjection
<1>2. IsFiniteSet(T)
  <2> HIDE DEF f, T
  <2> QED BY <1>1, FS_Surjection
<1>3. \A y \in T : IsFiniteSet(y)
  OBVIOUS
<1> HIDE DEF T
<1>4. IsFiniteSet(UNION T)
  BY <1>2, <1>3, FS_UNION
<1> QED BY <1>4 DEF T

-----------------------------------------------------------------------------
(* Money and counters                                                      *)

\* The ledger of a run is finite, so its money can be counted.
LEMMA LedgerIsFinite ==
  ASSUME StoreTypeOK
  PROVE  IsFiniteSet(PaisePaid) /\ MoneyPaid \in Nat
<1> USE StoreAssumption
<1> DEFINE F == [d \in Deliveries |-> {d} \X (1 .. effects[d] * AmountOf(d))]
<1>1. ASSUME NEW d \in Deliveries PROVE IsFiniteSet(F[d])
  <2>1. effects[d] * AmountOf(d) \in Nat
    BY DEF StoreTypeOK, AmountOf
  <2> QED BY <2>1, AllPaiseOf
<1>2. IsFiniteSet(UNION {F[d] : d \in Deliveries})
  <2>1. DOMAIN F = Deliveries
    OBVIOUS
  <2> HIDE DEF F
  <2> QED BY <1>1, <2>1, FiniteFamily
<1>3. PaisePaid = UNION {F[d] : d \in Deliveries}
  BY DEF PaisePaid
<1> QED BY <1>2, <1>3, FS_CardinalityType DEF MoneyPaid

\* One more payment of a delivery moves exactly its amount, whatever has been
\* paid before.
LEMMA PayingMovesAmount ==
  ASSUME StoreTypeOK, NEW d \in Deliveries,
         effects' = [effects EXCEPT ![d] = @ + 1]
  PROVE  MoneyPaid' = MoneyPaid + AmountOf(d)
<1> USE StoreAssumption DEF StoreTypeOK
<1> DEFINE old == effects[d] * AmountOf(d)
           New == {d} \X (old + 1 .. old + AmountOf(d))
<1>1. \A x \in Deliveries :
         AmountOf(x) \in Nat \ {0} /\ effects[x] * AmountOf(x) \in Nat
  <2> TAKE x \in Deliveries
  <2>1. AmountOf(x) \in Nat \ {0}
    BY DEF AmountOf
  <2> QED BY <2>1
<1>2. PaisePaid' = PaisePaid \cup New
  <2>1. \A x \in Deliveries :
          ({x} \X (1 .. effects[x] * AmountOf(x)))' =
             IF x = d THEN {x} \X (1 .. (effects[x] + 1) * AmountOf(x))
                      ELSE {x} \X (1 .. effects[x] * AmountOf(x))
    BY DEF AmountOf
  <2>2. (effects[d] + 1) * AmountOf(d) = old + AmountOf(d) /\ old \in Nat
    BY <1>1
  <2>3. 1 .. (old + AmountOf(d)) = (1 .. old) \cup (old + 1 .. old + AmountOf(d))
    BY <1>1, <2>2
  <2>4. {d} \X (1 .. (effects[d] + 1) * AmountOf(d))
          = ({d} \X (1 .. effects[d] * AmountOf(d))) \cup New
    BY <2>2, <2>3
  <2> HIDE DEF New, old
  <2> QED BY <2>1, <2>4 DEF PaisePaid
<1>3. PaisePaid \cap New = {}
  <2> SUFFICES ASSUME NEW p \in PaisePaid, p \in New PROVE FALSE
    OBVIOUS
  <2>1. PICK x \in Deliveries : p \in {x} \X (1 .. effects[x] * AmountOf(x))
    BY DEF PaisePaid
  <2>2. x = d
    BY <2>1
  <2> QED BY <1>1, <2>1, <2>2
<1>4. IsFiniteSet(New) /\ Cardinality(New) = AmountOf(d)
  <2>1. old \in Nat /\ AmountOf(d) \in Nat
    BY <1>1
  <2> HIDE DEF old
  <2>2. \A lo \in Nat, n \in Nat :
           /\ IsFiniteSet({d} \X (lo + 1 .. lo + n))
           /\ Cardinality({d} \X (lo + 1 .. lo + n)) = n
    BY PaiseOf
  <2> QED BY <2>1, <2>2
<1>5. IsFiniteSet(PaisePaid)
  BY LedgerIsFinite
<1> HIDE DEF New
<1> QED BY <1>2, <1>3, <1>4, <1>5, DisjointUnion DEF MoneyPaid

\* What a worker has debited and not yet paid.
HeldBy(w) == IF pc[w] = "PUT_EFFECT" THEN AmountOf(Delivery(w)) ELSE 0

\* A step of one worker changes the money in hand by what that worker takes or
\* gives away.  Any number of workers may be at work, even infinitely many: only
\* finitely many of them hold money.
LEMMA OneHand ==
  ASSUME NEW w \in Workers,
         \A v \in Workers \ {w} : pc'[v] = pc[v] /\ job'[v] = job[v],
         HeldBy(w) \in Nat, HeldBy(w)' \in Nat, IsFiniteSet(PaiseInHand)
  PROVE  /\ IsFiniteSet(PaiseInHand)'
         /\ Cardinality(PaiseInHand)' + HeldBy(w) = Cardinality(PaiseInHand) + HeldBy(w)'
         /\ Cardinality(PaiseInHand) \in Nat
         /\ Cardinality(PaiseInHand)' \in Nat
<1> DEFINE Share(v) == {v} \X (1 .. AmountOf(Delivery(v)))
           Rest == UNION {Share(v) : v \in {u \in Workers \ {w} : pc[u] = "PUT_EFFECT"}}
           Mine == {w} \X (1 .. HeldBy(w))
<1>1. PaiseInHand = Rest \cup Mine
  <2>1. CASE pc[w] = "PUT_EFFECT"
    <3>1. Mine = Share(w)
      BY <2>1 DEF HeldBy
    <3> HIDE DEF Share, Mine
    <3>2. PaiseInHand = UNION {Share(v) : v \in {u \in Workers : pc[u] = "PUT_EFFECT"}}
      BY DEF PaiseInHand, Share
    <3> QED BY <2>1, <3>1, <3>2
  <2>2. CASE pc[w] # "PUT_EFFECT"
    <3>1. Mine = {}
      BY <2>2 DEF HeldBy
    <3> HIDE DEF Share, Mine
    <3>2. PaiseInHand = UNION {Share(v) : v \in {u \in Workers : pc[u] = "PUT_EFFECT"}}
      BY DEF PaiseInHand, Share
    <3> QED BY <2>2, <3>1, <3>2
  <2> QED BY <2>1, <2>2
<1>2. PaiseInHand' = Rest \cup Mine'
  <2>1. \A v \in Workers \ {w} : Share(v)' = Share(v)
    BY DEF AmountOf, Delivery
  <2>2. CASE pc'[w] = "PUT_EFFECT"
    <3>1. Mine' = Share(w)'
      BY <2>2 DEF HeldBy
    <3>2. PaiseInHand' = UNION {Share(v)' : v \in {u \in Workers : pc'[u] = "PUT_EFFECT"}}
      BY DEF PaiseInHand
    <3> HIDE DEF Share, Mine
    <3> QED BY <2>1, <2>2, <3>1, <3>2
  <2>3. CASE pc'[w] # "PUT_EFFECT"
    <3>1. Mine' = {}
      BY <2>3 DEF HeldBy
    <3>2. PaiseInHand' = UNION {Share(v)' : v \in {u \in Workers : pc'[u] = "PUT_EFFECT"}}
      BY DEF PaiseInHand
    <3> HIDE DEF Share, Mine
    <3> QED BY <2>1, <2>3, <3>1, <3>2
  <2> QED BY <2>2, <2>3
<1>3. Rest \cap Mine = {} /\ Rest \cap Mine' = {}
  OBVIOUS
<1>4. /\ IsFiniteSet(Mine) /\ Cardinality(Mine) = HeldBy(w)
      /\ IsFiniteSet(Mine') /\ Cardinality(Mine') = HeldBy(w)'
  BY AllPaiseOf
<1> HIDE DEF Rest, Mine
<1>5. IsFiniteSet(Rest)
  BY <1>1, FS_Subset
<1>6. /\ Cardinality(PaiseInHand) = Cardinality(Rest) + HeldBy(w)
      /\ IsFiniteSet(PaiseInHand)'
      /\ Cardinality(PaiseInHand)' = Cardinality(Rest) + HeldBy(w)'
  BY <1>1, <1>2, <1>3, <1>4, <1>5, DisjointUnion
<1>7. Cardinality(Rest) \in Nat
  BY <1>5, FS_CardinalityType
<1> QED BY <1>6, <1>7

\* Writing the one row of a delivery that has none, and counting it, keeps the
\* counters equal to the rows.
LEMMA CountingOneRow ==
  ASSUME StoreTypeOK,
         deliveredCount = Cardinality(RecordedDeliveries),
         \A o \in Outcomes : outcomeCount[o] = Cardinality(RowsWith(o)),
         NEW d \in Deliveries, NEW o \in Outcomes,
         rows[d] = NoRow, rows' = [rows EXCEPT ![d] = o], CountDelivery(o)
  PROVE  /\ deliveredCount' = Cardinality(RecordedDeliveries)'
         /\ \A p \in Outcomes : outcomeCount'[p] = Cardinality(RowsWith(p))'
<1> USE StoreAssumption DEF StoreTypeOK
<1>1. RecordedDeliveries' = RecordedDeliveries \cup {d} /\ d \notin RecordedDeliveries
  BY DEF RecordedDeliveries, NoRow, Outcomes
<1>2. IsFiniteSet(RecordedDeliveries)
  BY FS_Subset DEF RecordedDeliveries
<1>3. deliveredCount' = Cardinality(RecordedDeliveries)'
  BY <1>1, <1>2, FS_AddElement DEF CountDelivery
<1>4. ASSUME NEW p \in Outcomes
      PROVE  outcomeCount'[p] = Cardinality(RowsWith(p))'
  <2>1. IsFiniteSet(RowsWith(p))
    BY FS_Subset DEF RowsWith
  <2>2. CASE p = o
    <3>1. RowsWith(p)' = RowsWith(p) \cup {d} /\ d \notin RowsWith(p)
      BY <2>2 DEF RowsWith, NoRow, Outcomes
    <3>2. Cardinality(RowsWith(p) \cup {d}) = Cardinality(RowsWith(p)) + 1
      BY <2>1, <3>1, FS_AddElement
    <3>3. outcomeCount'[p] = outcomeCount[p] + 1
      BY <2>2 DEF CountDelivery
    <3> QED BY <3>1, <3>2, <3>3
  <2>3. CASE p # o
    <3>1. RowsWith(p)' = RowsWith(p)
      BY <2>3 DEF RowsWith, NoRow, Outcomes
    <3> QED BY <2>3, <3>1 DEF CountDelivery
  <2> QED BY <2>2, <2>3
<1> QED BY <1>3, <1>4

\* A payment of the unsafe processors is on its way from the budget to the ledger
\* while a worker holds it: the money is counted in three places.
MoneyCovered ==
    /\ IsFiniteSet(PaiseInHand)
    /\ MoneyPaid + Cardinality(PaiseInHand) + budgetRemaining <= Budget

\* A worker that takes no more from the budget than it holds or pays keeps the
\* run within its budget.
LEMMA MoneyFlows ==
  ASSUME MoneyCovered, StoreTypeOK, budgetRemaining' \in Nat, MoneyPaid' \in Nat,
         NEW w \in Workers,
         \A v \in Workers \ {w} : pc'[v] = pc[v] /\ job'[v] = job[v],
         HeldBy(w) \in Nat, HeldBy(w)' \in Nat,
         MoneyPaid' + HeldBy(w)' + budgetRemaining'
            <= MoneyPaid + HeldBy(w) + budgetRemaining
  PROVE  MoneyCovered'
<1>1. /\ IsFiniteSet(PaiseInHand)'
      /\ Cardinality(PaiseInHand)' + HeldBy(w) = Cardinality(PaiseInHand) + HeldBy(w)'
      /\ Cardinality(PaiseInHand) \in Nat
      /\ Cardinality(PaiseInHand)' \in Nat
  BY OneHand DEF MoneyCovered
<1>2. MoneyPaid \in Nat /\ budgetRemaining \in Nat /\ Budget \in Nat
  BY LedgerIsFinite, StoreAssumption DEF StoreTypeOK
<1>3. MoneyPaid' + Cardinality(PaiseInHand)' + budgetRemaining' <= Budget
  BY <1>1, <1>2 DEF MoneyCovered
<1> QED BY <1>1, <1>3 DEF MoneyCovered

\* Without a payment the ledger holds what it held.
LEMMA NoPayment ==
  ASSUME StoreTypeOK, UNCHANGED effects
  PROVE  MoneyPaid' = MoneyPaid /\ MoneyPaid' \in Nat
<1>1. PaisePaid' = PaisePaid
  BY DEF PaisePaid, AmountOf
<1> QED BY <1>1, LedgerIsFinite DEF MoneyPaid

\* While nobody is at work nothing is in hand.
LEMMA NothingInHand ==
  ASSUME StoreInit, WorkerInit
  PROVE  MoneyCovered
<1> USE StoreAssumption
<1>1. PaiseInHand = {}
  BY DEF PaiseInHand, WorkerInit
<1>2. PaisePaid = {}
  <2>1. \A d \in Deliveries : AmountOf(d) \in Nat
    BY DEF AmountOf
  <2> QED BY <2>1 DEF PaisePaid, StoreInit
<1> QED BY <1>1, <1>2, FS_EmptySet DEF MoneyCovered, MoneyPaid, StoreInit

-----------------------------------------------------------------------------
(* Types of the queue and of the workers, whatever the processor's steps S *)

\* A busy worker has a message, and so a delivery.
LEMMA BusyWorker ==
  ASSUME QueueTypeOK, NEW S, WorkerTypeOK(S), NEW w \in Workers, pc[w] # "IDLE"
  PROVE  job[w] \in Messages /\ Delivery(w) \in Deliveries
BY WorkerAssumption, QueueAssumption
   DEF WorkerTypeOK, QueueTypeOK, Idle, Delivery

\* What it holds is an amount of money, before a step and after it.
LEMMA HeldIsMoney ==
  ASSUME QueueTypeOK, NEW S, WorkerTypeOK(S), NEW w \in Workers
  PROVE  HeldBy(w) \in Nat
BY WorkerAssumption, QueueAssumption, StoreAssumption
   DEF WorkerTypeOK, QueueTypeOK, Idle, Delivery, HeldBy, AmountOf

LEMMA HeldStaysMoney ==
  ASSUME QueueTypeOK', NEW S, WorkerTypeOK(S)', NEW w \in Workers
  PROVE  HeldBy(w)' \in Nat
BY WorkerAssumption, QueueAssumption, StoreAssumption
   DEF WorkerTypeOK, QueueTypeOK, Idle, Delivery, HeldBy, AmountOf

\* Receiving a message,
LEMMA StartTypes ==
  ASSUME QueueTypeOK, NEW S, WorkerTypeOK(S),
         NEW first \in S \ {"IDLE"}, NEW w \in Workers, NEW m \in Messages,
         StartMessage(w, m, first)
  PROVE  QueueTypeOK' /\ WorkerTypeOK(S)' /\ pc[w] = "IDLE"
<1> USE QueueAssumption, WorkerAssumption
<1>1. /\ queue[m] = "VISIBLE"
      /\ job[w] = NoMessage
      /\ queue' = [queue EXCEPT ![m] = "IN_FLIGHT"]
      /\ receives' = [receives EXCEPT ![m] = @ + 1]
      /\ job' = [job EXCEPT ![w] = m]
      /\ pc' = [pc EXCEPT ![w] = first]
      /\ failures' = [failures EXCEPT ![w] = 0]
  BY DEF StartMessage, Receive, Proceed, Idle
<1>2. receives[m] + 1 \in 0 .. MaxReceives
  BY <1>1 DEF QueueTypeOK
<1>3. receives' \in [Messages -> 0 .. MaxReceives]
  BY <1>1, <1>2 DEF QueueTypeOK
<1>4. QueueTypeOK'
  BY <1>1, <1>3 DEF QueueTypeOK, Places
<1>5. WorkerTypeOK(S)'
  BY <1>1 DEF QueueTypeOK, WorkerTypeOK, Idle
<1> QED BY <1>1, <1>4, <1>5 DEF WorkerTypeOK, Idle

\* going on to the next request,
LEMMA ProceedTypes ==
  ASSUME QueueTypeOK, NEW S, WorkerTypeOK(S), "IDLE" \notin S,
         NEW w \in Workers, pc[w] # "IDLE",
         NEW step \in S \cup {"ACK"}, Proceed(w, step), UNCHANGED queueVars
  PROVE  QueueTypeOK' /\ WorkerTypeOK(S)'
BY WorkerAssumption
   DEF QueueTypeOK, WorkerTypeOK, Proceed, queueVars, Idle

\* acknowledging a message,
LEMMA FinishTypes ==
  ASSUME QueueTypeOK, NEW S, WorkerTypeOK(S), NEW w \in Workers, FinishMessage(w)
  PROVE  QueueTypeOK' /\ WorkerTypeOK(S)'
BY QueueAssumption, WorkerAssumption
   DEF QueueTypeOK, WorkerTypeOK, FinishMessage, Acknowledge, Proceed, Idle, Places

\* giving one up,
LEMMA FailTypes ==
  ASSUME QueueTypeOK, NEW S, WorkerTypeOK(S), NEW w \in Workers, FailMessage(w)
  PROVE  QueueTypeOK' /\ WorkerTypeOK(S)' /\ pc'[w] = "IDLE" /\ pc[w] # "IDLE"
BY QueueAssumption, WorkerAssumption
   DEF QueueTypeOK, WorkerTypeOK, FailMessage, Abandon, Proceed, Idle

\* retrying a conflict,
LEMMA RetryTypes ==
  ASSUME QueueTypeOK, NEW S, WorkerTypeOK(S), NEW w \in Workers,
         failures[w] + 1 < MaxAttempts, failures' = [failures EXCEPT ![w] = @ + 1],
         UNCHANGED <<pc, queueVars>>
  PROVE  QueueTypeOK' /\ WorkerTypeOK(S)'
BY WorkerAssumption DEF QueueTypeOK, WorkerTypeOK, queueVars, Idle

\* the end of a visibility timeout,
LEMMA ReappearTypes ==
  ASSUME QueueTypeOK, NEW S, WorkerTypeOK(S), NEW m \in Messages, Reappear(m),
         UNCHANGED workerVars
  PROVE  QueueTypeOK' /\ WorkerTypeOK(S)'
BY QueueAssumption
   DEF QueueTypeOK, WorkerTypeOK, Reappear, workerVars, Idle, Places

\* and sending messages keep the types.
LEMMA SendTypes ==
  ASSUME QueueTypeOK, NEW S, WorkerTypeOK(S), NEW ms, Send(ms),
         UNCHANGED workerVars
  PROVE  QueueTypeOK' /\ WorkerTypeOK(S)'
BY QueueAssumption
   DEF QueueTypeOK, WorkerTypeOK, Send, workerVars, Idle, Places

\* An empty queue and idle workers have them.
LEMMA FreshTypes ==
  ASSUME NEW place \in {"UNSENT", "VISIBLE"}, NEW S, QueueInit(place), WorkerInit
  PROVE  QueueTypeOK /\ WorkerTypeOK(S)
BY QueueAssumption, WorkerAssumption
   DEF QueueInit, WorkerInit, QueueTypeOK, WorkerTypeOK, Idle, Places
=============================================================================
