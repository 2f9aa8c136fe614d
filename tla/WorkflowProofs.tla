--------------------------- MODULE WorkflowProofs ---------------------------
(***************************************************************************)
(* Proofs about the workflow of a run, whichever processor works beside    *)
(* it: what its tasks, abandoned and repeated ones among them, keep, and   *)
(* what they need to know of the workers' steps.                           *)
(***************************************************************************)
EXTENDS RunWorkflow, WorkerProofs

-----------------------------------------------------------------------------
(* Counting the deliveries of a plan                                       *)

\* The elements of T that f takes to a, and into A.
Fibre(f, T, a) == {t \in T : f[t] = a}
Preimage(f, T, A) == {t \in T : f[t] \in A}

\* When every element of A has k of them, all of A has k times as many as A.
LEMMA PreimageCount ==
  ASSUME NEW A, IsFiniteSet(A), NEW T, NEW f, NEW k \in Nat,
         \A a \in A : IsFiniteSet(Fibre(f, T, a)) /\ Cardinality(Fibre(f, T, a)) = k
  PROVE  /\ IsFiniteSet(Preimage(f, T, A))
         /\ Cardinality(Preimage(f, T, A)) = Cardinality(A) * k
<1> DEFINE number(a) == CHOOSE h : h \in Bijection(1 .. k, Fibre(f, T, a))
           pairs == A \X (1 .. k)
           all == Preimage(f, T, A)
           F == [p \in pairs |-> number(p[1])[p[2]]]
<1>1. ASSUME NEW a \in A PROVE number(a) \in Bijection(1 .. k, Fibre(f, T, a))
  <2>1. ExistsBijection(1 .. k, Fibre(f, T, a))
    BY FS_CardinalityType
  <2> QED BY <2>1 DEF ExistsBijection
<1>2. ASSUME NEW a \in A, NEW i \in 1 .. k
      PROVE  number(a)[i] \in T /\ f[number(a)[i]] = a
  <2> HIDE DEF number
  <2> QED BY <1>1 DEF Bijection, Injection, Fibre
<1>3. ASSUME NEW a \in A, NEW i \in 1 .. k, NEW j \in 1 .. k, number(a)[i] = number(a)[j]
      PROVE  i = j
  <2> HIDE DEF number
  <2> QED BY <1>1, <1>3 DEF Bijection, Injection, IsInjective
<1>4. ASSUME NEW a \in A, NEW t \in Fibre(f, T, a) PROVE \E i \in 1 .. k : number(a)[i] = t
  <2> HIDE DEF number
  <2> QED BY <1>1 DEF Bijection, Surjection
<1> HIDE DEF number
<1>5. F \in [pairs -> all]
  BY <1>2 DEF Preimage
<1>6. ASSUME NEW p \in pairs, NEW q \in pairs, F[p] = F[q] PROVE p = q
  <2>1. p[1] = q[1]
    BY <1>2, <1>6
  <2>2. p[2] = q[2]
    BY <1>3, <1>6, <2>1
  <2> QED BY <2>1, <2>2
<1>7. ASSUME NEW t \in all PROVE \E p \in pairs : F[p] = t
  <2>1. f[t] \in A /\ t \in Fibre(f, T, f[t])
    BY DEF Preimage, Fibre
  <2>2. PICK i \in 1 .. k : number(f[t])[i] = t
    BY <1>4, <2>1
  <2>3. <<f[t], i>> \in pairs /\ F[<<f[t], i>>] = t
    BY <2>1, <2>2
  <2> QED BY <2>3
<1>8. IsFiniteSet(pairs) /\ Cardinality(pairs) = Cardinality(A) * k
  <2>1. IsFiniteSet(1 .. k) /\ Cardinality(1 .. k) = k
    BY FS_Interval
  <2> QED BY <2>1, FS_Product
<1> HIDE DEF F, pairs, all
<1>9. F \in Bijection(pairs, all)
  BY <1>5, <1>6, <1>7 DEF Bijection, Injection, Surjection, IsInjective
<1>10. IsFiniteSet(all) /\ Cardinality(all) = Cardinality(pairs)
  BY <1>8, <1>9, FS_Bijection DEF ExistsBijection
<1> QED BY <1>8, <1>10 DEF all

\* An entitlement has two deliveries or one.
LEMMA DeliveriesOfEach ==
  \A e \in Entitlements :
     /\ IsFiniteSet(Fibre(EntitlementOf, Deliveries, e))
     /\ Cardinality(Fibre(EntitlementOf, Deliveries, e))
          = IF e \in Duplicated THEN 2 ELSE 1
BY StoreAssumption, RunAssumption, FS_Subset DEF Fibre

\* Phase A delivers the duplicated entitlements twice, and the whole plan adds
\* one delivery for each of the others: what the two drains wait for.
LEMMA PlannedDeliveries ==
  /\ IsFiniteSet(PlanPhase("A")) /\ Cardinality(PlanPhase("A")) = PhaseATarget
  /\ Cardinality(Deliveries) = ExpectedDeliveries
<1> USE StoreAssumption, RunAssumption
<1> DEFINE Single == Entitlements \ Duplicated
<1>1. IsFiniteSet(Duplicated) /\ IsFiniteSet(Single)
  BY FS_Subset
<1>2. \A e \in Entitlements :
         /\ IsFiniteSet(Fibre(EntitlementOf, Deliveries, e))
         /\ Cardinality(Fibre(EntitlementOf, Deliveries, e))
              = IF e \in Duplicated THEN 2 ELSE 1
  BY DeliveriesOfEach
<1>3. PlanPhase("A") = Preimage(EntitlementOf, Deliveries, Duplicated)
      /\ PlanPhase("B") = Preimage(EntitlementOf, Deliveries, Single)
  BY DEF PlanPhase, Preimage
<1>4. /\ IsFiniteSet(PlanPhase("A"))
      /\ Cardinality(PlanPhase("A")) = Cardinality(Duplicated) * 2
  BY <1>1, <1>2, <1>3, PreimageCount
<1>5. /\ IsFiniteSet(PlanPhase("B"))
      /\ Cardinality(PlanPhase("B")) = Cardinality(Single) * 1
  <2>1. \A e \in Single :
          /\ IsFiniteSet(Fibre(EntitlementOf, Deliveries, e))
          /\ Cardinality(Fibre(EntitlementOf, Deliveries, e)) = 1
    BY <1>2
  <2> HIDE DEF Single
  <2> QED BY <1>1, <1>3, <2>1, PreimageCount
<1>6. /\ Cardinality(Duplicated) \in Nat /\ Cardinality(Single) \in Nat
      /\ Cardinality(Entitlements) = Cardinality(Duplicated) + Cardinality(Single)
  <2>1. Entitlements = Duplicated \cup Single /\ Duplicated \cap Single = {}
    OBVIOUS
  <2>2. Cardinality(Duplicated \cup Single) = Cardinality(Duplicated) + Cardinality(Single)
    <3> HIDE DEF Single
    <3> QED BY <1>1, <2>1, DisjointUnion
  <2> HIDE DEF Single
  <2> QED BY <1>1, <2>1, <2>2, FS_CardinalityType
<1>7. Cardinality(Deliveries) = Cardinality(PlanPhase("A")) + Cardinality(PlanPhase("B"))
  <2>1. Deliveries = PlanPhase("A") \cup PlanPhase("B")
        /\ PlanPhase("A") \cap PlanPhase("B") = {}
    BY DEF PlanPhase
  <2> QED BY <1>4, <1>5, <2>1, DisjointUnion
<1> HIDE DEF Single
<1> QED BY <1>4, <1>5, <1>6, <1>7 DEF PhaseATarget, ExpectedDeliveries

-----------------------------------------------------------------------------
(* The inductive invariant                                                 *)

AllRecorded == RecordedDeliveries = Deliveries
PhaseARecorded == PlanPhase("A") \subseteq RecordedDeliveries

\* An invocation is running, or has the answer the execution waits for.
Live(c) == call[c] # Nothing \/ (c = exec.awaits /\ exec.state \notin Ended)

\* A task is only ever invoked when what its predecessors established holds.
TaskIsDue(task) ==
    /\ task \in {"InjectPhaseB", "CheckDrainB", "Evaluate", "GenerateReceipt"} =>
          PhaseARecorded
    /\ task \in {"Evaluate", "GenerateReceipt"} => AllRecorded
    /\ task = "GenerateReceipt" => run.report = Truth

\* What an invocation remembers is still so when its next request uses it,
\* however long ago it was given up.
MemoryIsRight(task, step, data) ==
    /\ step = "PUBLISH" =>
          run.status # "QUEUED" /\ data.left \subseteq PlanPhase(PhaseOf(task))
    /\ step \in {"LIST_DELIVERIES", "STORE", "PUT_RECEIPT", "COMPLETE"} =>
          task \in {"Evaluate", "GenerateReceipt"}
    /\ step = "LIST_DELIVERIES" => data.ledger = LedgerRead
    /\ step = "STORE" => data = Truth
    /\ step = "PUT_RECEIPT" => data.report = Truth
    /\ step = "COMPLETE" => receipt.report = Truth

\* An answer lets the execution go on only to a task that is due.
AnswerIsRight(task, step) ==
    /\ step = "DRAINED" =>
          /\ task \in {"CheckDrainA", "CheckDrainB"}
          /\ PhaseARecorded
          /\ task = "CheckDrainB" => AllRecorded
    /\ step = "OK" =>
          /\ task \notin {"CheckDrainA", "CheckDrainB"}
          /\ task = "Evaluate" => run.report = Truth
          /\ task = "GenerateReceipt" => run.status = "COMPLETED"

InvocationOK(i) ==
    /\ i = [task |-> i.task, step |-> i.step, data |-> i.data]
    /\ i.task \in Tasks
    /\ TaskIsDue(i.task)
    /\ MemoryIsRight(i.task, i.step, i.data)
    /\ AnswerIsRight(i.task, i.step)

CallsOK ==
    /\ call = [c \in Calls |-> call[c]]
    /\ \A c \in Calls : Live(c) => InvocationOK(call[c])

ExecOK ==
    /\ exec = [state |-> exec.state, attempts |-> exec.attempts,
               iteration |-> exec.iteration, awaits |-> exec.awaits]
    /\ exec.state \in Tasks \cup Ended
    /\ exec.attempts \in 1 .. MaxTaskAttempts
    /\ exec.iteration \in 0 .. MaxDrainIterations - 1
    /\ exec.awaits \in Calls
    /\ exec.state \notin Ended =>
          /\ call[exec.awaits].task = exec.state
          /\ call[exec.awaits].step = "AGAIN" => exec.iteration + 1 < MaxDrainIterations
    /\ exec.state = "Complete" => run.status = "COMPLETED"
    /\ \A c \in Calls : Live(c) /\ c # exec.awaits => call[c].step \notin Answers

\* Nothing is received before it is sent, nor recorded before it is received,
\* nor sent before it is due.
QueueOK ==
    /\ \A m \in Messages : queue[m] # "UNSENT" => run.status # "QUEUED"
    /\ PhaseBWaits
    /\ \A w \in Workers : ~Idle(w) => queue[job[w]] # "UNSENT"
    /\ \A d \in RecordedDeliveries :
          \E m \in Messages : DeliveryOf[m] = d /\ queue[m] # "UNSENT"

RunOK ==
    /\ run = [status |-> run.status, phase |-> run.phase, report |-> run.report,
              finishedAt |-> run.finishedAt, receipt |-> run.receipt]
    /\ run.status \in Statuses
    /\ run.phase \in Phases
    /\ run.finishedAt \in Nat
    /\ run.status = "COMPLETED" =>
          AllRecorded /\ run.report = Truth /\ receipt.report = Truth

\* What the workflow relies on in the tables, whoever writes them.
BooksOK ==
    /\ StoreTypeOK
    /\ QueueTypeOK
    /\ deliveredCount = Cardinality(RecordedDeliveries)
    /\ \A o \in Outcomes : outcomeCount[o] = Cardinality(RowsWith(o))

NothingSpentYet == run.status = "QUEUED" => budgetRemaining = Budget

WorkflowInv ==
    BooksOK /\ NothingSpentYet /\ RunOK /\ ExecOK /\ CallsOK /\ QueueOK

\* What no step takes back.
RunMovesForward ==
    /\ PhaseARecorded => PhaseARecorded'
    /\ AllRecorded => AllRecorded' /\ Truth' = Truth /\ LedgerRead' = LedgerRead
    /\ AllRecorded /\ run.report = Truth => run'.report = Truth
    /\ AllRecorded /\ receipt.report = Truth => receipt'.report = Truth
    /\ run.status # "QUEUED" => run'.status # "QUEUED"
    /\ run.status = "COMPLETED" => run'.status = "COMPLETED"

-----------------------------------------------------------------------------
(* The tables and the queue                                                *)

\* While the tables stay, so does what the evaluator reads in them.
LEMMA SameReading ==
  ASSUME UNCHANGED storeVars
  PROVE  /\ RecordedDeliveries' = RecordedDeliveries
         /\ LedgerRead' = LedgerRead
         /\ Truth' = Truth
<1>1. RecordedDeliveries' = RecordedDeliveries
  BY DEF storeVars, RecordedDeliveries
<1>2. PaisePaid' = PaisePaid
  BY DEF storeVars, PaisePaid, AmountOf
<1>3. LedgerRead' = LedgerRead
  <2>1. \A e \in Entitlements : EffectsOf(e)' = EffectsOf(e)
    BY DEF storeVars, EffectsOf
  <2> QED BY <1>2, <2>1 DEF LedgerRead, MoneyPaid
<1>4. OutcomesRead' = OutcomesRead
  BY DEF storeVars, OutcomesRead, RowsWith
<1> QED BY <1>1, <1>3, <1>4 DEF Truth, Evaluated

\* Until the run is started nothing is sent, so nothing is written: the reset
\* of init_run finds the run as it leaves it.
LEMMA NothingBeforeInitRun ==
  ASSUME WorkflowInv, run.status = "QUEUED"
  PROVE  /\ budgetRemaining = Budget
         /\ deliveredCount = 0
         /\ outcomeCount = [o \in Outcomes |-> 0]
<1>0. StoreTypeOK /\ BooksOK /\ QueueOK
  BY DEF WorkflowInv, BooksOK
<1>1. RecordedDeliveries = {}
  BY <1>0 DEF QueueOK
<1>2. \A o \in Outcomes : RowsWith(o) = {}
  BY <1>1 DEF RecordedDeliveries, RowsWith, NoRow, Outcomes
<1>3. \A o \in Outcomes : outcomeCount[o] = 0
  BY <1>0, <1>2, FS_EmptySet DEF BooksOK
<1>4. deliveredCount = 0
  BY <1>0, <1>1, FS_EmptySet DEF BooksOK
<1>5. budgetRemaining = Budget
  BY DEF WorkflowInv, NothingSpentYet
<1> QED BY <1>0, <1>3, <1>4, <1>5 DEF StoreTypeOK

-----------------------------------------------------------------------------
(* Invocations and the execution                                           *)

\* What is right stays right while the run moves forward.
LEMMA InvocationSurvives ==
  ASSUME RunMovesForward, NEW c \in Calls, InvocationOK(call[c]), call'[c] = call[c]
  PROVE  InvocationOK(call[c])'
BY DEF InvocationOK, TaskIsDue, MemoryIsRight, AnswerIsRight, RunMovesForward

\* A step of one invocation disturbs neither the others nor the execution.
LEMMA OneCallMoves ==
  ASSUME CallsOK, ExecOK, RunMovesForward, UNCHANGED exec,
         NEW c \in Calls, call[c] # Nothing, NEW i, call' = [call EXCEPT ![c] = i],
         \/ i = Nothing /\ (c # exec.awaits \/ exec.state \in Ended)
         \/ /\ InvocationOK(call[c])'
            /\ i.task = call[c].task
            /\ i.step \in Answers => c = exec.awaits
            /\ i.step = "AGAIN" => exec.iteration + 1 < MaxDrainIterations
  PROVE  CallsOK' /\ ExecOK'
<1>1. call'[c] = i /\ \A x \in Calls \ {c} : call'[x] = call[x]
  BY DEF CallsOK
<1>2. call' = [x \in Calls |-> call'[x]]
  BY DEF CallsOK
<1>3. ASSUME NEW x \in Calls, Live(x)' PROVE InvocationOK(call[x])'
  <2>1. CASE x = c
    BY <1>1, <1>3, <2>1 DEF Live, ExecOK
  <2>2. CASE x # c
    <3>1. call'[x] = call[x] /\ Live(x)
      BY <1>1, <1>3, <2>2 DEF Live
    <3> QED BY <3>1, InvocationSurvives DEF CallsOK
  <2> QED BY <2>1, <2>2
<1>4. CallsOK'
  BY <1>2, <1>3 DEF CallsOK
<1>5. ASSUME NEW x \in Calls, Live(x)', x # exec.awaits PROVE call'[x].step \notin Answers
  BY <1>1, <1>5 DEF Live, ExecOK
<1>6. ExecOK'
  BY <1>1, <1>5 DEF ExecOK, RunMovesForward
<1> QED BY <1>4, <1>6

\* Going on to the next request of a task ...
LEMMA GoingOn ==
  ASSUME CallsOK, ExecOK, RunMovesForward, NEW c \in Calls, call[c] # Nothing,
         NEW task, task = call[c].task, NEW step, step \notin Answers, NEW data,
         Goto(c, step, data), MemoryIsRight(task, step, data)'
  PROVE  CallsOK' /\ ExecOK'
<1> DEFINE i == [task |-> task, step |-> step, data |-> data]
<1>1. InvocationOK(call[c])
  BY DEF CallsOK, Live
<1>2. call' = [call EXCEPT ![c] = i] /\ call'[c] = i
  <2>1. call' = [call EXCEPT ![c].step = step, ![c].data = data]
    BY DEF Goto
  <2>2. [call[c] EXCEPT !.step = step, !.data = data] = i
    <3>1. PICK old, memory : call[c] = [task |-> task, step |-> old, data |-> memory]
      BY <1>1 DEF InvocationOK
    <3>2. PICK r : r = [task |-> task, step |-> step, data |-> memory]
      OBVIOUS
    <3>3. [call[c] EXCEPT !.step = step] = r
      BY <3>1, <3>2
    <3>4. [r EXCEPT !.data = data] = i
      BY <3>2
    <3> HIDE DEF i
    <3> QED BY ONLY <3>3, <3>4
  <2>3. call' = [call EXCEPT ![c] = [call[c] EXCEPT !.step = step, !.data = data]]
    BY <2>1 DEF CallsOK
  <2> HIDE DEF i
  <2> QED BY <2>2, <2>3 DEF CallsOK
<1>3. InvocationOK(call[c])'
  <2>1. TaskIsDue(task)'
    BY <1>1 DEF InvocationOK, TaskIsDue, RunMovesForward
  <2>2. AnswerIsRight(task, step)'
    BY DEF AnswerIsRight, Answers
  <2>3. task \in Tasks
    BY <1>1 DEF InvocationOK
  <2>4. call'[c].task = task /\ call'[c].step = step /\ call'[c].data = data
    BY <1>2
  <2> QED BY <1>2, <2>1, <2>2, <2>3, <2>4
      DEF InvocationOK, TaskIsDue, MemoryIsRight, AnswerIsRight
<1>4. i.task = call[c].task /\ i.step \notin Answers /\ i.step # "AGAIN"
  BY DEF Answers
<1>5. UNCHANGED exec
  BY DEF Goto
<1> HIDE DEF i
<1> QED BY <1>2, <1>3, <1>4, <1>5, OneCallMoves

\* ... and returning or raising.
LEMMA Returning ==
  ASSUME CallsOK, ExecOK, RunMovesForward, NEW c \in Calls, call[c] # Nothing,
         NEW task, task = call[c].task, NEW answer \in Answers,
         End(c, answer), AnswerIsRight(task, answer)',
         answer = "AGAIN" => exec.iteration + 1 < MaxDrainIterations
  PROVE  CallsOK' /\ ExecOK'
<1>1. InvocationOK(call[c]) /\ UNCHANGED exec
  BY DEF CallsOK, Live, End
<1>2. CASE c = exec.awaits
  <2> DEFINE i == [task |-> task, step |-> answer, data |-> Nothing]
  <2>1. call' = [call EXCEPT ![c] = i] /\ call'[c] = i
    BY <1>1, <1>2 DEF End, CallsOK, InvocationOK
  <2>2. InvocationOK(call[c])'
    <3>1. TaskIsDue(task)'
      BY <1>1 DEF InvocationOK, TaskIsDue, RunMovesForward
    <3>2. MemoryIsRight(task, answer, Nothing)'
      BY DEF MemoryIsRight, Answers
    <3>3. task \in Tasks
      BY <1>1 DEF InvocationOK
    <3>4. call'[c].task = task /\ call'[c].step = answer /\ call'[c].data = Nothing
      BY <2>1
    <3> QED BY <2>1, <3>1, <3>2, <3>3, <3>4
        DEF InvocationOK, TaskIsDue, MemoryIsRight, AnswerIsRight
  <2>3. i.task = call[c].task /\ (i.step = "AGAIN" => exec.iteration + 1 < MaxDrainIterations)
    OBVIOUS
  <2> HIDE DEF i
  <2> QED BY <1>1, <1>2, <2>1, <2>2, <2>3, OneCallMoves
<1>3. CASE c # exec.awaits
  <2>1. call' = [call EXCEPT ![c] = Nothing]
    BY <1>3 DEF End
  <2> QED BY <1>1, <1>3, <2>1, OneCallMoves
<1> QED BY <1>2, <1>3

-----------------------------------------------------------------------------
(* The steps of the workers                                                *)

\* What workers may do to the queue,
QueueMoves ==
    \/ \E w \in Workers : Acknowledge(w) \/ Abandon(w)
    \/ \E w \in Workers, m \in Messages : Receive(w, m)
    \/ \E m \in Messages : Reappear(m)
    \/ UNCHANGED queueVars

\* and to the tables, if the workflow is to trust what it reads there: rows
\* stay, only a worker that has the delivery's message writes its row, and once
\* every row is there nothing is written any more.
TablesMove ==
    /\ RecordedDeliveries \subseteq RecordedDeliveries'
    /\ \A d \in RecordedDeliveries' \ RecordedDeliveries :
          \E w \in Workers : ~Idle(w) /\ DeliveryOf[job[w]] = d
    /\ AllRecorded => UNCHANGED storeVars
    /\ (\A w \in Workers : Idle(w)) => UNCHANGED storeVars

\* A message that was sent stays sent, whatever the workers do with it, and
\* they only have messages that were sent.
LEMMA WorkersKeepQueue ==
  ASSUME WorkflowInv, QueueMoves
  PROVE  /\ \A m \in Messages : queue'[m] = "UNSENT" <=> queue[m] = "UNSENT"
         /\ \A w \in Workers : ~Idle(w)' => queue'[job'[w]] # "UNSENT"
<1> DEFINE Kept ==
      /\ \A m \in Messages : queue'[m] = "UNSENT" <=> queue[m] = "UNSENT"
      /\ \A w \in Workers : job'[w] # NoMessage => queue'[job'[w]] # "UNSENT"
<1> USE QueueAssumption
<1>0. QueueTypeOK
  BY DEF WorkflowInv, BooksOK
<1>a. \A w \in Workers :
         job[w] # NoMessage => job[w] \in Messages /\ queue[job[w]] # "UNSENT"
  BY <1>0 DEF WorkflowInv, QueueOK, Idle, QueueTypeOK
<1>1. ASSUME NEW w \in Workers, NEW m \in Messages, Receive(w, m) PROVE Kept
  BY <1>0, <1>a, <1>1 DEF Receive, QueueTypeOK
<1>2. ASSUME NEW w \in Workers, Acknowledge(w) PROVE Kept
  BY <1>0, <1>a, <1>2 DEF Acknowledge, QueueTypeOK, Idle
<1>3. ASSUME NEW w \in Workers, Abandon(w) PROVE Kept
  BY <1>0, <1>a, <1>3 DEF Abandon, QueueTypeOK
<1>4. ASSUME NEW m \in Messages, Reappear(m) PROVE Kept
  BY <1>0, <1>a, <1>4 DEF Reappear, QueueTypeOK
<1>5. ASSUME UNCHANGED queueVars PROVE Kept
  BY <1>a, <1>5 DEF queueVars
<1> HIDE DEF Kept
<1>6. Kept
  BY <1>1, <1>2, <1>3, <1>4, <1>5 DEF QueueMoves
<1> QED BY <1>6 DEF Kept, Idle

\* Workers that move the tables and the queue in these ways keep what the
\* workflow relies on.
LEMMA WorkersKeepRun ==
  ASSUME WorkflowInv, QueueMoves, TablesMove, UNCHANGED workflowVars, BooksOK'
  PROVE  WorkflowInv'
<1>0. /\ RunOK /\ ExecOK /\ CallsOK /\ QueueOK /\ BooksOK
      /\ UNCHANGED <<run, receipt, exec, call>>
  BY DEF WorkflowInv, workflowVars
<1>1. /\ RecordedDeliveries \subseteq RecordedDeliveries'
      /\ AllRecorded => UNCHANGED storeVars
  BY DEF TablesMove
<1>2. RunMovesForward
  BY <1>0, <1>1, SameReading
     DEF RunMovesForward, PhaseARecorded, AllRecorded, PlanPhase
<1>3. RunOK'
  BY <1>0, <1>2 DEF RunOK, RunMovesForward
<1>4. CallsOK'
  BY <1>0, <1>2, InvocationSurvives DEF CallsOK, Live
<1>5. ExecOK'
  BY <1>0 DEF ExecOK, Live
<1>6. \A w \in Workers : ~Idle(w) => job[w] \in Messages /\ queue[job[w]] # "UNSENT"
  BY <1>0 DEF QueueOK, BooksOK, QueueTypeOK, Idle
<1>7. QueueOK'
  <2>1. /\ \A m \in Messages : queue'[m] = "UNSENT" <=> queue[m] = "UNSENT"
        /\ \A w \in Workers : ~Idle(w)' => queue'[job'[w]] # "UNSENT"
    BY WorkersKeepQueue
  <2>2. PhaseBWaits'
    BY <1>0, <1>2, <2>1
       DEF QueueOK, PhaseBWaits, RunMovesForward, PhaseARecorded, PlanPhase
  <2>3. ASSUME NEW d \in RecordedDeliveries'
        PROVE  \E m \in Messages : DeliveryOf[m] = d /\ queue'[m] # "UNSENT"
    <3>1. CASE d \in RecordedDeliveries
      BY <1>0, <2>1, <3>1 DEF QueueOK
    <3>2. CASE d \notin RecordedDeliveries
      <4>1. PICK w \in Workers : ~Idle(w) /\ DeliveryOf[job[w]] = d
        BY <2>3, <3>2 DEF TablesMove
      <4> QED BY <1>6, <2>1, <4>1
    <3> QED BY <3>1, <3>2
  <2> QED BY <1>0, <2>1, <2>2, <2>3 DEF QueueOK, Idle
<1>8. NothingSpentYet'
  <2> SUFFICES ASSUME run.status = "QUEUED" PROVE budgetRemaining' = Budget
    BY <1>0 DEF NothingSpentYet
  <2>1. \A w \in Workers : Idle(w)
    BY <1>0, <1>6 DEF QueueOK
  <2> QED BY <2>1 DEF TablesMove, storeVars, WorkflowInv, NothingSpentYet
<1> QED BY <1>3, <1>4, <1>5, <1>7, <1>8 DEF WorkflowInv

-----------------------------------------------------------------------------
(* The steps of the workflow                                               *)

\* A step that leaves the tables and the queue alone.
LEMMA TablesKeepRun ==
  ASSUME WorkflowInv, TablesUntouched,
         run.status # "QUEUED" => run'.status # "QUEUED"
  PROVE  /\ BooksOK' /\ NothingSpentYet' /\ QueueOK'
         /\ PhaseARecorded' = PhaseARecorded /\ AllRecorded' = AllRecorded
         /\ Truth' = Truth /\ LedgerRead' = LedgerRead
<1>0. UNCHANGED storeVars /\ UNCHANGED queueVars /\ UNCHANGED workerVars
  BY DEF TablesUntouched
<1>1. BooksOK' /\ NothingSpentYet'
  BY <1>0 DEF WorkflowInv, BooksOK, NothingSpentYet, StoreTypeOK, storeVars,
              QueueTypeOK, queueVars, RecordedDeliveries, RowsWith
<1>2. /\ RecordedDeliveries' = RecordedDeliveries
      /\ Truth' = Truth /\ LedgerRead' = LedgerRead
  BY <1>0, SameReading
<1>3. QueueOK'
  BY <1>0, <1>2 DEF WorkflowInv, QueueOK, PhaseBWaits, queueVars, Idle, PlanPhase
<1>4. PhaseARecorded' = PhaseARecorded /\ AllRecorded' = AllRecorded
  BY <1>2 DEF PhaseARecorded, AllRecorded, PlanPhase
<1> QED BY <1>1, <1>2, <1>3, <1>4

\* Most steps of a task write at most the Runs item: what they must show.
LEMMA TaskKeepsRun ==
  ASSUME WorkflowInv, TablesUntouched, RunOK', CallsOK', ExecOK',
         RunMovesForward
  PROVE  WorkflowInv'
BY TablesKeepRun DEF WorkflowInv, RunMovesForward

\* A step that writes nothing moves the run forward.
LEMMA NothingWritten ==
  ASSUME WorkflowInv, TablesUntouched, UNCHANGED <<run, receipt>>
  PROVE  RunOK' /\ RunMovesForward
<1>1. /\ PhaseARecorded' = PhaseARecorded /\ AllRecorded' = AllRecorded
      /\ Truth' = Truth /\ LedgerRead' = LedgerRead
  BY TablesKeepRun
<1> QED BY <1>1 DEF WorkflowInv, RunOK, RunMovesForward

\* An answer that promises nothing is always right.
LEMMA Failing ==
  ASSUME WorkflowInv, RunMovesForward, NEW c \in Calls, call[c] # Nothing, Raise(c)
  PROVE  CallsOK' /\ ExecOK'
<1>1. PICK task : task = call[c].task
  OBVIOUS
<1>2. AnswerIsRight(task, "RAISED")'
  BY DEF AnswerIsRight
<1>3. "RAISED" \in Answers /\ End(c, "RAISED") /\ CallsOK /\ ExecOK
  BY DEF Answers, Raise, WorkflowInv
<1> QED BY <1>1, <1>2, <1>3, Returning

\* init_run.
LEMMA InitRunKeeps ==
  ASSUME WorkflowInv, NEW c \in Calls, InitRun(c)
  PROVE  WorkflowInv'
<1>0. call[c] # Nothing /\ call[c].task = "InitRun" /\ RunOK /\ CallsOK /\ ExecOK
  BY DEF InitRun, At, WorkflowInv
<1>1. TablesUntouched
  BY NothingBeforeInitRun DEF InitRun, TablesUntouched, storeVars
<1>2. \/ UNCHANGED run
      \/ /\ run.status = "QUEUED"
         /\ run' = [run EXCEPT !.status = "RUNNING", !.phase = "QUEUED"]
  BY DEF InitRun
<1>3. run.status # "QUEUED" => run'.status # "QUEUED"
  BY <1>2
<1>4. /\ PhaseARecorded' = PhaseARecorded /\ AllRecorded' = AllRecorded
      /\ Truth' = Truth /\ LedgerRead' = LedgerRead
  BY <1>1, <1>3, TablesKeepRun
<1>5. run'.report = run.report /\ receipt' = receipt
      /\ (run.status = "COMPLETED" => run'.status = "COMPLETED")
  BY <1>0, <1>2 DEF InitRun, RunOK
<1>6. RunMovesForward
  BY <1>3, <1>4, <1>5 DEF RunMovesForward
<1>7. RunOK'
  BY <1>0, <1>2, <1>4, <1>5 DEF RunOK, Statuses, Phases
<1>8. CallsOK' /\ ExecOK'
  <2>1. ASSUME NEW answer \in {"OK", "RAISED"}, End(c, answer) PROVE CallsOK' /\ ExecOK'
    <3>1. AnswerIsRight("InitRun", answer)'
      BY DEF AnswerIsRight
    <3> QED BY <1>0, <1>6, <2>1, <3>1, Returning DEF Answers
  <2> QED BY <2>1 DEF InitRun
<1> QED BY <1>1, <1>6, <1>7, <1>8, TaskKeepsRun

\* What a task may write of the Runs item, and the tables stay.
LEMMA RunWritten ==
  ASSUME WorkflowInv, TablesUntouched, RunOK', UNCHANGED receipt,
         run'.report = run.report,
         run.status # "QUEUED" => run'.status # "QUEUED",
         run.status = "COMPLETED" => run'.status = "COMPLETED"
  PROVE  RunMovesForward
BY TablesKeepRun DEF RunMovesForward

\* inject_phase: the mark,
LEMMA MarkPhaseKeeps ==
  ASSUME WorkflowInv, NEW c \in Calls, MarkPhase(c)
  PROVE  WorkflowInv'
<1>0. /\ call[c] # Nothing /\ run.status = "RUNNING" /\ TablesUntouched
      /\ UNCHANGED receipt /\ RunOK /\ CallsOK /\ ExecOK
  BY DEF MarkPhase, At, WorkflowInv
<1>1. PICK task : task = call[c].task
  OBVIOUS
<1>2. PICK phase : phase = PhaseOf(task)
  OBVIOUS
<1>3. phase \in {"A", "B"} /\ run' = [run EXCEPT !.phase = phase]
  BY <1>1, <1>2 DEF MarkPhase, PhaseOf
<1>4. RunOK' /\ run'.report = run.report /\ run'.status = "RUNNING"
  BY <1>0, <1>3 DEF RunOK, Statuses, Phases
<1>5. RunMovesForward
  BY <1>0, <1>4, RunWritten
<1>6. PICK data : data = [left |-> PlanPhase(phase)]
  OBVIOUS
<1>7. Goto(c, "PUBLISH", data)
  BY <1>1, <1>2, <1>6 DEF MarkPhase
<1>8. MemoryIsRight(task, "PUBLISH", data)'
  BY <1>2, <1>4, <1>6 DEF MemoryIsRight, PlanPhase
<1>9. "PUBLISH" \notin Answers
  BY DEF Answers
<1>10. CallsOK' /\ ExecOK'
  BY <1>0, <1>1, <1>5, <1>7, <1>8, <1>9, GoingOn
<1> QED BY <1>0, <1>4, <1>5, <1>10, TaskKeepsRun

\* and the messages.
LEMMA PublishKeeps ==
  ASSUME WorkflowInv, NEW c \in Calls, Publish(c)
  PROVE  WorkflowInv'
<1>0. /\ call[c] # Nothing /\ call[c].step = "PUBLISH"
      /\ call[c].task \in {"InjectPhaseA", "InjectPhaseB"}
      /\ UNCHANGED <<run, receipt>> /\ UNCHANGED storeVars /\ UNCHANGED workerVars
      /\ BooksOK /\ NothingSpentYet /\ RunOK /\ CallsOK /\ ExecOK /\ QueueOK
  BY DEF Publish, At, WorkflowInv
<1>1. PICK task : task = call[c].task
  OBVIOUS
<1>2. PICK left : left = call[c].data.left
  OBVIOUS
<1>3. PICK ds \in SUBSET left :
        /\ Send({AnUnsent(d) : d \in {x \in ds : Unsent(x) # {}}})
        /\ IF ds = left THEN End(c, "OK") ELSE Goto(c, "PUBLISH", [left |-> left \ ds])
  BY <1>2 DEF Publish
<1>4. PICK ms : ms = {AnUnsent(d) : d \in {x \in ds : Unsent(x) # {}}}
  OBVIOUS
<1>5. Send(ms)
  BY <1>3, <1>4
<1>6. /\ task \in {"InjectPhaseA", "InjectPhaseB"}
      /\ task = "InjectPhaseB" => PhaseARecorded
      /\ run.status # "QUEUED"
      /\ left \subseteq PlanPhase(PhaseOf(task))
  <2>1. InvocationOK(call[c])
    BY <1>0 DEF CallsOK, Live
  <2> QED BY <1>0, <1>1, <1>2, <2>1 DEF InvocationOK, TaskIsDue, MemoryIsRight
<1>7. \A m \in ms : m \in Messages /\ DeliveryOf[m] \in PlanPhase(PhaseOf(task))
  <2>1. ASSUME NEW d \in ds, Unsent(d) # {} PROVE AnUnsent(d) \in Unsent(d)
    BY <2>1 DEF AnUnsent
  <2> QED BY <1>4, <1>6, <2>1 DEF Unsent
<1>8. BooksOK' /\ NothingSpentYet'
  BY <1>0, <1>5 DEF BooksOK, NothingSpentYet, StoreTypeOK, storeVars, QueueTypeOK, Send,
                    Places, RecordedDeliveries, RowsWith
<1>9. /\ RecordedDeliveries' = RecordedDeliveries
      /\ Truth' = Truth /\ LedgerRead' = LedgerRead
  BY <1>0, SameReading
<1>10. RunMovesForward
  BY <1>0, <1>9 DEF RunMovesForward, PhaseARecorded, AllRecorded, PlanPhase
<1>11. RunOK'
  BY <1>0, <1>9 DEF RunOK, AllRecorded
<1>12. \A m \in Messages : queue'[m] = IF m \in ms THEN "VISIBLE" ELSE queue[m]
  BY <1>5 DEF Send
<1>13. QueueOK'
  <2>1. PhaseBWaits'
    <3>1. ASSUME NEW m \in Messages, DeliveryOf[m] \in PlanPhase("B"), queue'[m] # "UNSENT"
          PROVE  PhaseARecorded
      <4>1. CASE m \in ms
        BY <1>6, <1>7, <3>1, <4>1 DEF PlanPhase, PhaseOf
      <4>2. CASE m \notin ms
        BY <1>0, <1>12, <3>1, <4>2 DEF QueueOK, PhaseBWaits, PhaseARecorded
      <4> QED BY <4>1, <4>2
    <3> QED BY <1>9, <3>1 DEF PhaseBWaits, PhaseARecorded, PlanPhase
  <2>2. \A w \in Workers : Idle(w)' = Idle(w) /\ job'[w] = job[w]
    BY <1>5 DEF Send, Idle
  <2>3. \A w \in Workers : ~Idle(w) => job[w] \in Messages
    BY <1>0 DEF BooksOK, QueueTypeOK, Idle
  <2> QED BY <1>0, <1>6, <1>9, <1>12, <2>1, <2>2, <2>3 DEF QueueOK
<1>14. CallsOK' /\ ExecOK'
  <2>1. CASE ds = left
    <3>1. AnswerIsRight(task, "OK")'
      BY <1>6 DEF AnswerIsRight
    <3> QED BY <1>0, <1>1, <1>3, <1>10, <2>1, <3>1, Returning DEF Answers
  <2>2. CASE ds # left
    <3>1. PICK data : data = [left |-> left \ ds]
      OBVIOUS
    <3>2. Goto(c, "PUBLISH", data)
      BY <1>3, <2>2, <3>1
    <3>3. MemoryIsRight(task, "PUBLISH", data)'
      BY <1>0, <1>6, <3>1 DEF MemoryIsRight, PlanPhase
    <3> QED BY <1>0, <1>1, <1>10, <3>2, <3>3, GoingOn DEF Answers
  <2> QED BY <2>1, <2>2
<1> QED BY <1>8, <1>11, <1>13, <1>14 DEF WorkflowInv

\* The counter of deliveries decides a drain, and it decides it well: phase B
\* cannot make up for a delivery of phase A, since it has not begun.
LEMMA DrainMeansRecorded ==
  ASSUME WorkflowInv
  PROVE  /\ deliveredCount >= PhaseATarget => PhaseARecorded
         /\ deliveredCount >= ExpectedDeliveries => AllRecorded
         /\ Cardinality(RecordedDeliveries) = ExpectedDeliveries => AllRecorded
<1> USE StoreAssumption, RunAssumption
<1>0. /\ StoreTypeOK /\ QueueOK
      /\ RecordedDeliveries \subseteq Deliveries
      /\ deliveredCount = Cardinality(RecordedDeliveries)
  BY DEF WorkflowInv, BooksOK, RecordedDeliveries
<1>1. ASSUME deliveredCount >= PhaseATarget PROVE PhaseARecorded
  <2>1. CASE RecordedDeliveries \subseteq PlanPhase("A")
    <3>1. /\ IsFiniteSet(PlanPhase("A"))
          /\ Cardinality(PlanPhase("A")) = PhaseATarget
          /\ Cardinality(RecordedDeliveries) >= PhaseATarget
      BY <1>0, <1>1, PlannedDeliveries
    <3>2. IsFiniteSet(RecordedDeliveries)
      BY <2>1, <3>1, FS_Subset
    <3>3. /\ Cardinality(RecordedDeliveries) \in Nat
          /\ Cardinality(PlanPhase("A")) \in Nat
      BY <3>1, <3>2, FS_CardinalityType
    <3>4. Cardinality(RecordedDeliveries) = Cardinality(PlanPhase("A"))
      <4>1. Cardinality(RecordedDeliveries) <= Cardinality(PlanPhase("A"))
        BY <2>1, <3>1, FS_Subset
      <4> QED BY <3>1, <3>3, <4>1
    <3>5. RecordedDeliveries = PlanPhase("A")
      BY <2>1, <3>1, <3>4, FS_Subset
    <3> QED BY <3>5 DEF PhaseARecorded
  <2>2. CASE ~(RecordedDeliveries \subseteq PlanPhase("A"))
    <3>1. PICK d \in RecordedDeliveries : d \in PlanPhase("B")
      BY <1>0, <2>2 DEF PlanPhase
    <3>2. PICK m \in Messages : DeliveryOf[m] = d /\ queue[m] # "UNSENT"
      BY <1>0 DEF QueueOK
    <3> QED BY <1>0, <3>1, <3>2 DEF QueueOK, PhaseBWaits, PhaseARecorded
  <2> QED BY <2>1, <2>2
<1>2. ASSUME Cardinality(RecordedDeliveries) >= ExpectedDeliveries PROVE AllRecorded
  <2>1. Cardinality(Deliveries) = ExpectedDeliveries
    BY PlannedDeliveries
  <2>2. IsFiniteSet(RecordedDeliveries)
        /\ Cardinality(RecordedDeliveries) <= Cardinality(Deliveries)
    BY <1>0, FS_Subset
  <2>3. Cardinality(RecordedDeliveries) \in Nat /\ Cardinality(Deliveries) \in Nat
    BY <2>2, FS_CardinalityType
  <2>4. Cardinality(RecordedDeliveries) = Cardinality(Deliveries)
    BY <1>2, <2>1, <2>2, <2>3
  <2> QED BY <1>0, <2>4, FS_Subset DEF AllRecorded
<1>3. ExpectedDeliveries \in Nat
  BY PlannedDeliveries, FS_CardinalityType
<1> QED BY <1>0, <1>1, <1>2, <1>3

\* check_drain.
LEMMA CheckDrainKeeps ==
  ASSUME WorkflowInv, NEW c \in Calls, CheckDrain(c)
  PROVE  WorkflowInv'
<1>0. /\ call[c] # Nothing /\ call[c].task \in {"CheckDrainA", "CheckDrainB"}
      /\ UNCHANGED <<run, receipt>> /\ TablesUntouched /\ CallsOK /\ ExecOK
  BY DEF CheckDrain, CheckFor, At, WorkflowInv
<1>1. PICK task : task = call[c].task
  OBVIOUS
<1>2. RunOK' /\ RunMovesForward
  BY <1>0, NothingWritten
<1>3. PICK answer \in {"DRAINED", "TIMED_OUT", "AGAIN"} :
        /\ End(c, answer)
        /\ answer = "DRAINED" => deliveredCount >= DrainTarget(c)
        /\ answer = "AGAIN" => exec.iteration + 1 < MaxDrainIterations
  BY <1>0, RunAssumption DEF CheckDrain, CheckFor, ExecOK
<1>4. AnswerIsRight(task, answer)'
  <2>1. answer = "DRAINED" =>
          PhaseARecorded /\ (task = "CheckDrainB" => AllRecorded)
    <3>1. AllRecorded => PhaseARecorded
      BY DEF AllRecorded, PhaseARecorded, PlanPhase
    <3> QED BY <1>0, <1>1, <1>3, <3>1, DrainMeansRecorded DEF DrainTarget
  <2>2. PhaseARecorded' = PhaseARecorded /\ AllRecorded' = AllRecorded
    BY <1>0, TablesKeepRun
  <2> QED BY <1>0, <1>1, <1>3, <2>1, <2>2 DEF AnswerIsRight
<1>5. CallsOK' /\ ExecOK'
  BY <1>0, <1>1, <1>2, <1>3, <1>4, Returning DEF Answers
<1> QED BY <1>0, <1>2, <1>5, TaskKeepsRun

\* evaluate begins, and so does generate_receipt, unless it has been done.
LEMMA BeginEvaluateKeeps ==
  ASSUME WorkflowInv, NEW c \in Calls, BeginEvaluate(c)
  PROVE  WorkflowInv'
<1>0. /\ call[c] # Nothing /\ run.status = "RUNNING" /\ TablesUntouched
      /\ UNCHANGED receipt /\ run' = [run EXCEPT !.phase = "EVALUATING"]
      /\ RunOK /\ CallsOK /\ ExecOK
  BY DEF BeginEvaluate, At, WorkflowInv
<1>1. PICK task : task = call[c].task
  OBVIOUS
<1>2. RunOK' /\ run'.report = run.report /\ run'.status = "RUNNING"
  BY <1>0 DEF RunOK, Statuses, Phases
<1>3. RunMovesForward
  BY <1>0, <1>2, RunWritten
<1>4. PICK data : data = [verdict |-> Nothing, finishedAt |-> 0]
  OBVIOUS
<1>5. Goto(c, "LIST_EFFECTS", data)
  BY <1>4 DEF BeginEvaluate
<1>6. MemoryIsRight(task, "LIST_EFFECTS", data)' /\ "LIST_EFFECTS" \notin Answers
  BY DEF MemoryIsRight, Answers
<1>7. CallsOK' /\ ExecOK'
  BY <1>0, <1>1, <1>3, <1>5, <1>6, GoingOn
<1> QED BY <1>0, <1>2, <1>3, <1>7, TaskKeepsRun

LEMMA ReadRunKeeps ==
  ASSUME WorkflowInv, NEW c \in Calls, ReadRun(c)
  PROVE  WorkflowInv'
<1>0. /\ call[c] # Nothing /\ call[c].task = "GenerateReceipt"
      /\ UNCHANGED <<run, receipt>> /\ TablesUntouched /\ CallsOK /\ ExecOK
  BY DEF ReadRun, ReadRunUnless, At, WorkflowInv
<1>1. RunOK' /\ RunMovesForward
  BY <1>0, NothingWritten
<1>2. CallsOK' /\ ExecOK'
  <2>1. CASE run.status = "COMPLETED"
    <3>1. AnswerIsRight("GenerateReceipt", "OK")'
      BY <1>0, <2>1 DEF AnswerIsRight
    <3>2. End(c, "OK")
      BY <2>1 DEF ReadRun, ReadRunUnless
    <3> QED BY <1>0, <1>1, <3>1, <3>2, Returning DEF Answers
  <2>2. CASE run.status # "COMPLETED"
    <3>1. PICK data : data = [verdict |-> run.report.verdict, finishedAt |-> run.finishedAt]
      OBVIOUS
    <3>2. Goto(c, "LIST_EFFECTS", data)
      BY <2>2, <3>1 DEF ReadRun, ReadRunUnless
    <3>3. MemoryIsRight("GenerateReceipt", "LIST_EFFECTS", data)'
      BY DEF MemoryIsRight
    <3> QED BY <1>0, <1>1, <3>2, <3>3, GoingOn DEF Answers
  <2> QED BY <2>1, <2>2
<1> QED BY <1>0, <1>1, <1>2, TaskKeepsRun

\* Both read the tables in two requests, and have read one thing: what they
\* read cannot change any more.
LEMMA ListEffectsKeeps ==
  ASSUME WorkflowInv, NEW c \in Calls, ListEffects(c)
  PROVE  WorkflowInv'
<1>0. /\ call[c] # Nothing /\ call[c].task \in {"Evaluate", "GenerateReceipt"}
      /\ UNCHANGED <<run, receipt>> /\ TablesUntouched /\ CallsOK /\ ExecOK
  BY DEF ListEffects, At, WorkflowInv
<1>1. RunOK' /\ RunMovesForward /\ LedgerRead' = LedgerRead
  BY <1>0, NothingWritten, TablesKeepRun
<1>2. PICK task : task = call[c].task
  OBVIOUS
<1>3. PICK data : data = [seen |-> call[c].data, ledger |-> LedgerRead]
  OBVIOUS
<1>4. Goto(c, "LIST_DELIVERIES", data)
  BY <1>3 DEF ListEffects
<1>5. MemoryIsRight(task, "LIST_DELIVERIES", data)'
  BY <1>0, <1>1, <1>2, <1>3 DEF MemoryIsRight
<1>6. CallsOK' /\ ExecOK'
  BY <1>0, <1>1, <1>2, <1>4, <1>5, GoingOn DEF Answers
<1> QED BY <1>0, <1>1, <1>6, TaskKeepsRun

LEMMA ListDeliveriesKeeps ==
  ASSUME WorkflowInv, NEW c \in Calls, ListDeliveries(c)
  PROVE  WorkflowInv'
<1>0. /\ call[c] # Nothing /\ call[c].task \in {"Evaluate", "GenerateReceipt"}
      /\ call[c].step = "LIST_DELIVERIES"
      /\ UNCHANGED <<run, receipt>> /\ TablesUntouched /\ CallsOK /\ ExecOK
  BY DEF ListDeliveries, At, WorkflowInv
<1>1. RunOK' /\ RunMovesForward /\ Truth' = Truth
  BY <1>0, NothingWritten, TablesKeepRun
<1>2. PICK task : task = call[c].task
  OBVIOUS
<1>3. Evaluated(call[c].data.ledger, OutcomesRead) = Truth
  <2>1. InvocationOK(call[c])
    BY <1>0 DEF CallsOK, Live
  <2>2. call[c].data.ledger = LedgerRead
    BY <1>0, <2>1 DEF InvocationOK, MemoryIsRight
  <2> QED BY <2>2 DEF Truth
<1>4. PICK report : report = Truth
  OBVIOUS
<1>5. \/ Raise(c)
      \/ task = "Evaluate" /\ Goto(c, "STORE", report)
      \/ task = "GenerateReceipt"
         /\ Goto(c, "PUT_RECEIPT",
                 [report |-> report, finishedAt |-> call[c].data.seen.finishedAt])
  BY <1>0, <1>2, <1>3, <1>4 DEF ListDeliveries
<1>6. CASE Raise(c)
  BY <1>0, <1>1, <1>6, Failing, TaskKeepsRun
<1>7. CASE task = "Evaluate" /\ Goto(c, "STORE", report)
  <2>1. MemoryIsRight(task, "STORE", report)'
    BY <1>1, <1>4, <1>7 DEF MemoryIsRight
  <2>2. CallsOK' /\ ExecOK'
    BY <1>0, <1>1, <1>2, <1>7, <2>1, GoingOn DEF Answers
  <2> QED BY <1>0, <1>1, <2>2, TaskKeepsRun
<1>8. CASE task = "GenerateReceipt"
           /\ Goto(c, "PUT_RECEIPT",
                   [report |-> report, finishedAt |-> call[c].data.seen.finishedAt])
  <2>1. PICK data : data = [report |-> report, finishedAt |-> call[c].data.seen.finishedAt]
    OBVIOUS
  <2>2. Goto(c, "PUT_RECEIPT", data)
    BY <1>8, <2>1
  <2>3. MemoryIsRight(task, "PUT_RECEIPT", data)'
    BY <1>1, <1>4, <1>8, <2>1 DEF MemoryIsRight
  <2>4. CallsOK' /\ ExecOK'
    BY <1>0, <1>1, <1>2, <2>2, <2>3, GoingOn DEF Answers
  <2> QED BY <1>0, <1>1, <2>4, TaskKeepsRun
<1> QED BY <1>5, <1>6, <1>7, <1>8

\* What they store is what they have read.
LEMMA StoreReportKeeps ==
  ASSUME WorkflowInv, NEW c \in Calls, StoreReport(c)
  PROVE  WorkflowInv'
<1>0. /\ call[c] # Nothing /\ call[c].task = "Evaluate" /\ call[c].step = "STORE"
      /\ run.status = "RUNNING" /\ TablesUntouched /\ UNCHANGED receipt
      /\ run' = [run EXCEPT !.report = call[c].data, !.finishedAt = @ + 1]
      /\ End(c, "OK") /\ RunOK /\ CallsOK /\ ExecOK
  BY DEF StoreReport, At, WorkflowInv
<1>1. call[c].data = Truth /\ AllRecorded
  <2>1. InvocationOK(call[c])
    BY <1>0 DEF CallsOK, Live
  <2> QED BY <1>0, <2>1 DEF InvocationOK, MemoryIsRight, TaskIsDue
<1>2. run' = [run EXCEPT !.report = Truth, !.finishedAt = @ + 1]
  BY <1>0, <1>1
<1>3. run'.report = Truth /\ run'.status = "RUNNING"
  BY <1>0, <1>2 DEF RunOK
<1>4. /\ PhaseARecorded' = PhaseARecorded /\ AllRecorded' = AllRecorded
      /\ Truth' = Truth /\ LedgerRead' = LedgerRead
  BY <1>0, <1>3, TablesKeepRun
<1>5. RunOK'
  <2>1. PICK report, at : report = Truth /\ at = run.finishedAt + 1
    OBVIOUS
  <2>2. run' = [run EXCEPT !.report = report, !.finishedAt = at]
    BY <1>2, <2>1
  <2>3. at \in Nat
    BY <1>0, <2>1 DEF RunOK
  <2> QED BY <1>0, <1>3, <2>2, <2>3 DEF RunOK, Statuses, Phases
<1>6. RunMovesForward
  BY <1>0, <1>3, <1>4 DEF RunMovesForward
<1>7. AnswerIsRight("Evaluate", "OK")'
  BY <1>3, <1>4 DEF AnswerIsRight
<1>8. CallsOK' /\ ExecOK'
  BY <1>0, <1>6, <1>7, Returning DEF Answers
<1> QED BY <1>0, <1>5, <1>6, <1>8, TaskKeepsRun

LEMMA PutReceiptKeeps ==
  ASSUME WorkflowInv, NEW c \in Calls, PutReceipt(c)
  PROVE  WorkflowInv'
<1>0. /\ call[c] # Nothing /\ call[c].task = "GenerateReceipt"
      /\ call[c].step = "PUT_RECEIPT" /\ TablesUntouched /\ UNCHANGED run
      /\ receipt' = call[c].data /\ Goto(c, "COMPLETE", call[c].data)
      /\ RunOK /\ CallsOK /\ ExecOK
  BY DEF PutReceipt, At, WorkflowInv
<1>1. call[c].data.report = Truth
  <2>1. InvocationOK(call[c])
    BY <1>0 DEF CallsOK, Live
  <2> QED BY <1>0, <2>1 DEF InvocationOK, MemoryIsRight
<1>2. receipt'.report = Truth
  BY <1>0, <1>1
<1>3. /\ PhaseARecorded' = PhaseARecorded /\ AllRecorded' = AllRecorded
      /\ Truth' = Truth /\ LedgerRead' = LedgerRead
  BY <1>0, TablesKeepRun
<1>4. RunOK'
  BY <1>0, <1>2, <1>3 DEF RunOK
<1>5. RunMovesForward
  BY <1>0, <1>2, <1>3 DEF RunMovesForward
<1>6. PICK data : data = call[c].data
  OBVIOUS
<1>7. Goto(c, "COMPLETE", data)
  BY <1>0, <1>6
<1>8. MemoryIsRight("GenerateReceipt", "COMPLETE", data)'
  BY <1>2, <1>3 DEF MemoryIsRight
<1>9. CallsOK' /\ ExecOK'
  BY <1>0, <1>5, <1>7, <1>8, GoingOn DEF Answers
<1> QED BY <1>0, <1>4, <1>5, <1>9, TaskKeepsRun

LEMMA CompleteKeeps ==
  ASSUME WorkflowInv, NEW c \in Calls, Complete(c)
  PROVE  WorkflowInv'
<1>0. /\ call[c] # Nothing /\ call[c].task = "GenerateReceipt"
      /\ call[c].step = "COMPLETE" /\ TablesUntouched /\ UNCHANGED receipt
      /\ run' = [run EXCEPT !.status = "COMPLETED", !.phase = "COMPLETE",
                            !.receipt = call[c].data]
      /\ run.status = "RUNNING"
      /\ End(c, "OK") /\ RunOK /\ CallsOK /\ ExecOK
  BY DEF Complete, At, WorkflowInv
<1>1. receipt.report = Truth /\ run.report = Truth /\ AllRecorded
  <2>1. InvocationOK(call[c])
    BY <1>0 DEF CallsOK, Live
  <2> QED BY <1>0, <2>1 DEF InvocationOK, MemoryIsRight, TaskIsDue
<1>2. run'.report = run.report /\ run'.status = "COMPLETED"
  BY <1>0 DEF RunOK
<1>3. /\ PhaseARecorded' = PhaseARecorded /\ AllRecorded' = AllRecorded
      /\ Truth' = Truth /\ LedgerRead' = LedgerRead
  BY <1>0, <1>2, TablesKeepRun
<1>4. RunOK'
  <2>1. PICK signed : signed = call[c].data
    OBVIOUS
  <2>2. run' = [run EXCEPT !.status = "COMPLETED", !.phase = "COMPLETE",
                           !.receipt = signed]
    BY <1>0, <2>1
  <2> QED BY <1>0, <1>1, <1>2, <1>3, <2>2 DEF RunOK, Statuses, Phases
<1>5. RunMovesForward
  BY <1>0, <1>2, <1>3 DEF RunMovesForward
<1>6. AnswerIsRight("GenerateReceipt", "OK")'
  BY <1>2 DEF AnswerIsRight
<1>7. CallsOK' /\ ExecOK'
  BY <1>0, <1>5, <1>6, Returning DEF Answers
<1> QED BY <1>0, <1>4, <1>5, <1>7, TaskKeepsRun

\* mark_failed, and the ways a task fails.
LEMMA MarkFailedKeeps ==
  ASSUME WorkflowInv, NEW c \in Calls, MarkFailed(c)
  PROVE  WorkflowInv'
<1>0. /\ call[c] # Nothing /\ call[c].task = "MarkFailed" /\ TablesUntouched
      /\ UNCHANGED receipt /\ End(c, "OK") /\ RunOK /\ CallsOK /\ ExecOK
  BY DEF MarkFailed, MarkFailedUnless, At, WorkflowInv
<1>1. \/ run' = run
      \/ /\ run.status # "COMPLETED"
         /\ run' = [run EXCEPT !.status = "FAILED", !.phase = "FAILED",
                               !.finishedAt = @ + 1]
  BY DEF MarkFailed, MarkFailedUnless
<1>2. /\ run'.report = run.report
      /\ run.status # "QUEUED" => run'.status # "QUEUED"
      /\ run.status = "COMPLETED" => run'.status = "COMPLETED"
  BY <1>0, <1>1 DEF RunOK
<1>3. /\ AllRecorded' = AllRecorded /\ Truth' = Truth
  BY <1>0, <1>2, TablesKeepRun
<1>4. RunOK'
  <2>1. CASE run' = run
    BY <1>0, <1>3, <2>1 DEF RunOK
  <2>2. CASE /\ run.status # "COMPLETED"
             /\ run' = [run EXCEPT !.status = "FAILED", !.phase = "FAILED",
                                   !.finishedAt = @ + 1]
    <3>1. PICK at : at = run.finishedAt + 1
      OBVIOUS
    <3>2. run' = [run EXCEPT !.status = "FAILED", !.phase = "FAILED", !.finishedAt = at]
      BY <2>2, <3>1
    <3>3. at \in Nat
      BY <1>0, <3>1 DEF RunOK
    <3> QED BY <1>0, <3>2, <3>3 DEF RunOK, Statuses, Phases
  <2> QED BY <1>1, <2>1, <2>2
<1>5. RunMovesForward
  BY <1>0, <1>2, <1>4, RunWritten
<1>6. AnswerIsRight("MarkFailed", "OK")'
  BY DEF AnswerIsRight
<1>7. CallsOK' /\ ExecOK'
  BY <1>0, <1>5, <1>6, Returning DEF Answers
<1> QED BY <1>0, <1>4, <1>5, <1>7, TaskKeepsRun

LEMMA FailureKeeps ==
  ASSUME WorkflowInv, NEW c \in Calls, UpdateRejected(c) \/ TaskFails(c)
  PROVE  WorkflowInv'
<1>1. /\ call[c] # Nothing /\ Raise(c) /\ UNCHANGED <<run, receipt>> /\ TablesUntouched
  BY DEF UpdateRejected, TaskFails
<1> QED BY <1>1, NothingWritten, Failing, TaskKeepsRun

\* An invocation that was given up dies.
LEMMA VanishKeeps ==
  ASSUME WorkflowInv, NEW c \in Calls, Vanish(c)
  PROVE  WorkflowInv'
<1>1. /\ call[c] # Nothing /\ UNCHANGED <<run, receipt, exec>> /\ TablesUntouched
      /\ call' = [call EXCEPT ![c] = Nothing] /\ CallsOK /\ ExecOK
      /\ c # exec.awaits \/ exec.state \in Ended
  BY DEF Vanish, WorkflowInv
<1>2. RunOK' /\ RunMovesForward
  BY <1>1, NothingWritten
<1>3. CallsOK' /\ ExecOK'
  BY <1>1, <1>2, OneCallMoves
<1> QED BY <1>1, <1>2, <1>3, TaskKeepsRun

-----------------------------------------------------------------------------
(* The steps of the execution                                              *)

\* A fresh invocation of a task that is due.
LEMMA FreshInvocation ==
  ASSUME NEW c \in Calls, NEW state \in Tasks, TaskIsDue(state)',
         call'[c] = Invocation(state)
  PROVE  /\ InvocationOK(call[c])'
         /\ call'[c].task = state
         /\ call'[c].step \notin Answers
<1>1. PICK step : step = FirstStep(state)
  OBVIOUS
<1>2. step \in {"START", "MARK_PHASE", "CHECK", "READ_RUN", "FAIL"}
  BY <1>1 DEF FirstStep, Tasks
<1>3. call'[c] = [task |-> state, step |-> step, data |-> Nothing]
  BY <1>1 DEF Invocation
<1>4. /\ call'[c].task = state /\ call'[c].step = step /\ call'[c].data = Nothing
  BY <1>3
<1>5. MemoryIsRight(state, step, Nothing)' /\ AnswerIsRight(state, step)'
  BY <1>2 DEF MemoryIsRight, AnswerIsRight
<1>6. InvocationOK(call[c])'
  BY <1>3, <1>4, <1>5 DEF InvocationOK, TaskIsDue, MemoryIsRight, AnswerIsRight
<1> QED BY <1>2, <1>4, <1>6 DEF Answers

\* The execution enters a state whose task is due, or ends.
LEMMA ExecutionMoves ==
  ASSUME WorkflowInv, TablesUntouched, UNCHANGED <<run, receipt>>,
         NEW c \in Calls, NEW state \in Tasks \cup Ended, TaskIsDue(state),
         state = "Complete" => run.status = "COMPLETED",
         NEW attempts \in 1 .. MaxTaskAttempts,
         NEW iteration \in 0 .. MaxDrainIterations - 1,
         exec' = [state |-> state, attempts |-> attempts, iteration |-> iteration,
                  awaits |-> c],
         call' = [x \in Calls |-> call'[x]],
         call'[c] = IF state \in Ended THEN Nothing ELSE Invocation(state),
         \A x \in Calls \ {c} :
            call'[x] # Nothing => call'[x] = call[x] /\ call[x].step \notin Answers
  PROVE  WorkflowInv'
<1>0. CallsOK /\ ExecOK
  BY DEF WorkflowInv
<1>1. RunOK' /\ RunMovesForward
  BY NothingWritten
<1>2. TaskIsDue(state)'
  BY <1>1, TablesKeepRun DEF TaskIsDue
<1>3. /\ exec'.state = state /\ exec'.attempts = attempts
      /\ exec'.iteration = iteration /\ exec'.awaits = c
  OBVIOUS
<1>4. ASSUME state \notin Ended
      PROVE  /\ InvocationOK(call[c])' /\ call'[c].task = state
             /\ call'[c].step \notin Answers
  BY <1>2, <1>4, FreshInvocation
<1>5. ASSUME NEW x \in Calls, x # c, call'[x] # Nothing
      PROVE  InvocationOK(call[x])' /\ call'[x].step \notin Answers
  <2>1. call'[x] = call[x] /\ call[x].step \notin Answers
    BY <1>5
  <2>2. InvocationOK(call[x])
    BY <1>0, <1>5, <2>1 DEF CallsOK, Live
  <2> QED BY <1>1, <2>1, <2>2, InvocationSurvives
<1>6. CallsOK'
  <2>1. ASSUME NEW x \in Calls, Live(x)' PROVE InvocationOK(call[x])'
    <3>1. CASE x = c
      <4>1. state \notin Ended
        BY <1>3, <2>1, <3>1 DEF Live
      <4> QED BY <1>4, <3>1, <4>1
    <3>2. CASE x # c
      BY <1>3, <1>5, <2>1, <3>2 DEF Live
    <3> QED BY <3>1, <3>2
  <2> QED BY <2>1 DEF CallsOK
<1>7. ExecOK'
  <2>1. \A x \in Calls : Live(x)' /\ x # exec'.awaits => call'[x].step \notin Answers
    BY <1>3, <1>5 DEF Live
  <2>2. state \notin Ended =>
          /\ call'[exec'.awaits].task = state
          /\ call'[exec'.awaits].step # "AGAIN"
    BY <1>3, <1>4 DEF Answers
  <2>3. exec' = [state |-> exec'.state, attempts |-> exec'.attempts,
                 iteration |-> exec'.iteration, awaits |-> exec'.awaits]
    BY <1>3
  <2>4. state = "Complete" => run'.status = "COMPLETED"
    OBVIOUS
  <2> QED BY <1>3, <2>1, <2>2, <2>3, <2>4 DEF ExecOK
<1> QED BY <1>1, <1>6, <1>7, TaskKeepsRun

\* Whatever fails, the execution can be marked as failed, and ends.
LEMMA FailureIsDue ==
  /\ CatchState \in {"MarkFailed", "RunFailed"}
  /\ \A state \in {"MarkFailed", "RunFailed"} :
        TaskIsDue(state) /\ state \in Tasks \cup Ended /\ state # "Complete"
BY DEF CatchState, TaskIsDue, Tasks, Ended

\* Every transition of the state machine leads to a task that is due.
LEMMA NextIsDue ==
  ASSUME WorkflowInv, exec.state \in Tasks, call[exec.awaits].step \in {"OK", "DRAINED"}
  PROVE  /\ NextState[exec.state] \in Tasks \cup Ended
         /\ TaskIsDue(NextState[exec.state])
         /\ NextState[exec.state] = "Complete" => run.status = "COMPLETED"
<1>0. exec.state \notin Ended
  BY DEF Tasks, Ended
<1>1. PICK task : task = exec.state
  OBVIOUS
<1>2. PICK step : step = call[exec.awaits].step
  OBVIOUS
<1>3. TaskIsDue(task) /\ AnswerIsRight(task, step)
  <2>1. InvocationOK(call[exec.awaits]) /\ call[exec.awaits].task = task
    BY <1>0, <1>1 DEF WorkflowInv, ExecOK, CallsOK, Live
  <2> QED BY <1>2, <2>1 DEF InvocationOK
<1>4. task \in {"InitRun", "InjectPhaseA", "CheckDrainA", "InjectPhaseB", "CheckDrainB",
                "Evaluate", "GenerateReceipt", "MarkFailed"}
  BY <1>1 DEF Tasks
<1>5. /\ task = "InitRun" => NextState[task] = "InjectPhaseA"
      /\ task = "InjectPhaseA" => NextState[task] = "CheckDrainA"
      /\ task = "CheckDrainA" => NextState[task] = "InjectPhaseB"
      /\ task = "InjectPhaseB" => NextState[task] = "CheckDrainB"
      /\ task = "CheckDrainB" => NextState[task] = "Evaluate"
      /\ task = "Evaluate" => NextState[task] = "GenerateReceipt"
      /\ task = "GenerateReceipt" => NextState[task] = "Complete"
      /\ task = "MarkFailed" => NextState[task] = "RunFailed"
  BY DEF NextState
<1>6. step \in {"OK", "DRAINED"}
  BY <1>2
<1>7. PICK next : next = NextState[task]
  OBVIOUS
<1>8. /\ next \in Tasks \cup Ended
      /\ TaskIsDue(next)
      /\ next = "Complete" => run.status = "COMPLETED"
  BY <1>3, <1>4, <1>5, <1>6, <1>7 DEF Tasks, Ended, TaskIsDue, AnswerIsRight
<1> QED BY <1>1, <1>7, <1>8

\* The execution hears an answer.
LEMMA AnsweredKeeps ==
  ASSUME WorkflowInv, Answered
  PROVE  WorkflowInv'
<1>0. CallsOK /\ ExecOK /\ UNCHANGED <<run, receipt>> /\ TablesUntouched
      /\ exec.state \in Tasks /\ exec.awaits \in Calls
  BY DEF WorkflowInv, Answered, ExecOK
<1>1. PICK c \in Calls : c = exec.awaits
  BY <1>0
<1>2. ASSUME NEW state \in Tasks \cup Ended, TaskIsDue(state),
             state = "Complete" => run.status = "COMPLETED",
             NEW iteration \in 0 .. MaxDrainIterations - 1, Enter(c, state, iteration)
      PROVE  WorkflowInv'
  <2>1. /\ exec' = [state |-> state, attempts |-> 1, iteration |-> iteration,
                    awaits |-> c]
        /\ call' = [call EXCEPT ![c] = IF state \in Ended THEN Nothing
                                       ELSE Invocation(state)]
    BY <1>2 DEF Enter
  <2>2. /\ call' = [x \in Calls |-> call'[x]]
        /\ call'[c] = IF state \in Ended THEN Nothing ELSE Invocation(state)
        /\ \A x \in Calls \ {c} : call'[x] = call[x]
    BY <1>0, <2>1 DEF CallsOK
  <2>3. \A x \in Calls \ {c} :
           call'[x] # Nothing => call'[x] = call[x] /\ call[x].step \notin Answers
    BY <1>0, <1>1, <2>2 DEF ExecOK, Live
  <2>4. 1 \in 1 .. MaxTaskAttempts
    BY RunAssumption
  <2> QED BY <1>0, <1>2, <2>1, <2>2, <2>3, <2>4, ExecutionMoves
<1>3. 0 \in 0 .. MaxDrainIterations - 1
  BY RunAssumption
<1>4. CASE Enter(c, CatchState, 0)
  BY <1>2, <1>3, <1>4, FailureIsDue
<1>5. CASE call[c].step = "AGAIN" /\ Enter(c, exec.state, exec.iteration + 1)
  <2>1. exec.iteration + 1 \in 0 .. MaxDrainIterations - 1
    BY <1>0, <1>1, <1>5, RunAssumption DEF ExecOK, Ended, Tasks
  <2>2. TaskIsDue(exec.state) /\ exec.state # "Complete"
    BY <1>0, <1>1 DEF CallsOK, ExecOK, Live, InvocationOK, Tasks, Ended
  <2> QED BY <1>0, <1>2, <1>5, <2>1, <2>2
<1>6. CASE call[c].step \in {"OK", "DRAINED"} /\ Enter(c, NextState[exec.state], 0)
  <2>1. /\ NextState[exec.state] \in Tasks \cup Ended
        /\ TaskIsDue(NextState[exec.state])
        /\ NextState[exec.state] = "Complete" => run.status = "COMPLETED"
    BY <1>0, <1>1, <1>6, NextIsDue
  <2> QED BY <1>2, <1>3, <1>6, <2>1
<1> QED BY <1>1, <1>4, <1>5, <1>6 DEF Answered

\* It hears none, and retries or gives up.
LEMMA AnswerLostKeeps ==
  ASSUME WorkflowInv, AnswerLost
  PROVE  WorkflowInv'
<1>0. CallsOK /\ ExecOK /\ UNCHANGED <<run, receipt>> /\ TablesUntouched
      /\ exec.state \in Tasks /\ exec.state \notin Ended
  BY RunAssumption DEF WorkflowInv, AnswerLost, Tasks, Ended
<1>2. PICK state : state = IF exec.attempts < MaxTaskAttempts
                           THEN exec.state ELSE CatchState
  OBVIOUS
<1>3. PICK attempts : attempts = IF exec.attempts < MaxTaskAttempts
                                 THEN exec.attempts + 1 ELSE 1
  OBVIOUS
<1>4. PICK c \in Calls :
        /\ exec' = [exec EXCEPT !.state = IF exec.attempts < MaxTaskAttempts
                                          THEN exec.state ELSE CatchState,
                                !.awaits = c,
                                !.attempts = IF exec.attempts < MaxTaskAttempts
                                             THEN @ + 1 ELSE 1]
        /\ call' = [x \in Calls |->
                       IF x = c
                       THEN IF (IF exec.attempts < MaxTaskAttempts
                                THEN exec.state ELSE CatchState) \in Ended
                            THEN Nothing
                            ELSE Invocation(IF exec.attempts < MaxTaskAttempts
                                            THEN exec.state ELSE CatchState)
                       ELSE IF x = exec.awaits THEN Forsaken(x) ELSE call[x]]
  BY DEF AnswerLost
<1>5. attempts \in 1 .. MaxTaskAttempts
  BY <1>0, <1>3, RunAssumption DEF ExecOK
<1>6. state \in Tasks \cup Ended /\ TaskIsDue(state) /\ state # "Complete"
  <2>1. TaskIsDue(exec.state) /\ exec.state # "Complete"
    BY <1>0 DEF CallsOK, ExecOK, Live, InvocationOK, Tasks, Ended
  <2> QED BY <1>0, <1>2, <2>1, FailureIsDue
<1>7. PICK iteration \in 0 .. MaxDrainIterations - 1 : iteration = exec.iteration
  BY <1>0 DEF ExecOK
<1>8. exec' = [state |-> state, attempts |-> attempts, iteration |-> iteration,
               awaits |-> c]
  BY <1>0, <1>2, <1>3, <1>4, <1>7 DEF ExecOK
<1>9. /\ call' = [x \in Calls |-> call'[x]]
      /\ call'[c] = IF state \in Ended THEN Nothing ELSE Invocation(state)
  BY <1>2, <1>4
<1>10. \A x \in Calls \ {c} :
          call'[x] # Nothing => call'[x] = call[x] /\ call[x].step \notin Answers
  BY <1>0, <1>4 DEF Forsaken, ExecOK, Live
<1> QED BY <1>0, <1>5, <1>6, <1>7, <1>8, <1>9, <1>10, ExecutionMoves

-----------------------------------------------------------------------------
(* The results                                                             *)

\* A run that has not been started satisfies the invariant.
LEMMA WorkflowInitially ==
  ASSUME StoreInit, QueueInit("UNSENT"), WorkflowInit, BooksOK
  PROVE  WorkflowInv
<1>1. RunOK /\ NothingSpentYet
  BY DEF WorkflowInit, StoreInit, RunOK, NothingSpentYet, Statuses, Phases
<1>2. PICK c \in Calls :
        /\ call = [x \in Calls |-> IF x = c THEN Invocation("InitRun") ELSE Nothing]
        /\ exec = [state |-> "InitRun", attempts |-> 1, iteration |-> 0, awaits |-> c]
  BY DEF WorkflowInit
<1>3. Invocation("InitRun") = [task |-> "InitRun", step |-> "START", data |-> Nothing]
  BY DEF Invocation, FirstStep
<1>4. InvocationOK(call[c])
  <2>1. call[c] = [task |-> "InitRun", step |-> "START", data |-> Nothing]
    BY <1>2, <1>3
  <2>2. /\ call[c].task = "InitRun" /\ call[c].step = "START" /\ call[c].data = Nothing
    BY <2>1
  <2> QED BY <2>1, <2>2
      DEF InvocationOK, TaskIsDue, MemoryIsRight, AnswerIsRight, Tasks
<1>5. CallsOK
  BY <1>2, <1>4 DEF CallsOK, Live
<1>6. ExecOK
  BY <1>2, <1>3, RunAssumption DEF ExecOK, Live, Answers, Tasks, Ended
<1>7. QueueOK
  <2>1. RecordedDeliveries = {}
    BY DEF StoreInit, RecordedDeliveries
  <2>2. (\A m \in Messages : queue[m] = "UNSENT") /\ \A w \in Workers : Idle(w)
    BY DEF QueueInit, Idle
  <2> QED BY <2>1, <2>2 DEF QueueOK, PhaseBWaits
<1> QED BY <1>1, <1>5, <1>6, <1>7 DEF WorkflowInv

\* Every step of a task and of the execution preserves it,
LEMMA WorkflowKeepsRun ==
  ASSUME WorkflowInv, WorkflowNext
  PROVE  WorkflowInv'
<1>1. ASSUME NEW c \in Calls, TaskStep(c) PROVE WorkflowInv'
  BY <1>1, InitRunKeeps, MarkPhaseKeeps, PublishKeeps, CheckDrainKeeps,
     BeginEvaluateKeeps, ReadRunKeeps, ListEffectsKeeps, ListDeliveriesKeeps,
     StoreReportKeeps, PutReceiptKeeps, CompleteKeeps, FailureKeeps, MarkFailedKeeps
     DEF TaskStep
<1>2. ASSUME NEW c \in Calls, TaskFails(c) \/ Vanish(c) PROVE WorkflowInv'
  BY <1>2, FailureKeeps, VanishKeeps
<1>3. CASE Answered \/ AnswerLost
  BY <1>3, AnsweredKeeps, AnswerLostKeeps
<1> QED BY <1>1, <1>2, <1>3 DEF WorkflowNext

\* and so does a step that changes nothing.
LEMMA StutteringKeepsRun ==
  ASSUME WorkflowInv, TablesUntouched, UNCHANGED workflowVars
  PROVE  WorkflowInv'
<1>1. /\ UNCHANGED <<run, receipt>> /\ UNCHANGED <<exec, call>> /\ CallsOK /\ ExecOK
  BY DEF workflowVars, WorkflowInv
<1>2. RunOK' /\ RunMovesForward
  BY <1>1, NothingWritten
<1>3. CallsOK' /\ ExecOK'
  BY <1>1, <1>2, InvocationSurvives DEF CallsOK, ExecOK, Live
<1> QED BY <1>1, <1>2, <1>3, TaskKeepsRun

\* Of the tables, the queue and the workers, all that the workflow ever changes
\* is that messages are sent.
LEMMA WorkflowOnlySends ==
  ASSUME WorkflowInv, WorkflowNext
  PROVE  /\ UNCHANGED storeVars /\ UNCHANGED workerVars
         /\ UNCHANGED queueVars \/ \E ms : Send(ms)
<1>1. ASSUME NEW c \in Calls, InitRun(c) PROVE TablesUntouched
  BY <1>1, NothingBeforeInitRun DEF InitRun, storeVars, TablesUntouched
<1>2. ASSUME NEW c \in Calls, Publish(c)
      PROVE  UNCHANGED storeVars /\ UNCHANGED workerVars /\ \E ms : Send(ms)
  BY <1>2 DEF Publish
<1>3. ASSUME NEW c \in Calls,
             \/ MarkPhase(c) \/ CheckDrain(c) \/ BeginEvaluate(c)
             \/ ReadRun(c) \/ ListEffects(c) \/ ListDeliveries(c) \/ StoreReport(c)
             \/ PutReceipt(c) \/ Complete(c) \/ UpdateRejected(c) \/ MarkFailed(c)
             \/ TaskFails(c) \/ Vanish(c)
      PROVE  TablesUntouched
  BY <1>3 DEF MarkPhase, CheckDrain, CheckFor, BeginEvaluate, ReadRun,
              ReadRunUnless, ListEffects, ListDeliveries, StoreReport, PutReceipt,
              Complete, UpdateRejected, MarkFailed, MarkFailedUnless, TaskFails, Vanish
<1>4. Answered \/ AnswerLost => TablesUntouched
  BY DEF Answered, AnswerLost
<1>5. WorkflowNext =>
         TablesUntouched \/ \E c \in Calls : Publish(c)
  BY <1>1, <1>3, <1>4 DEF WorkflowNext, TaskStep
<1> QED BY <1>2, <1>5 DEF TablesUntouched

\* What the invariant says of the end of a run.
LEMMA EndsInv ==
  ASSUME WorkflowInv
  PROVE  EndsAgree
<1>0. RunOK /\ ExecOK /\ CallsOK
  BY DEF WorkflowInv
<1>1. ASSUME NEW c \in Calls, call[c] # Nothing
      PROVE  call[c].task \in Tasks /\ (c # exec.awaits => call[c].step \notin Answers)
  BY <1>0, <1>1 DEF CallsOK, ExecOK, Live, InvocationOK
<1>2. WorkflowTypeOK
  BY <1>0, <1>1 DEF RunOK, ExecOK, WorkflowTypeOK
<1> QED BY <1>0, <1>2 DEF EndsAgree, RunOK, ExecOK, AllRecorded
=============================================================================
