---------------------------- MODULE RunWorkflow ----------------------------
(***************************************************************************)
(* The Step Functions execution of one run (run_workflow.asl.json) and the *)
(* Lambda tasks it invokes (services/workflow_service.py).                 *)
(*                                                                         *)
(* The execution waits for one invocation of one task at a time.  When it  *)
(* stops hearing from it, it invokes the task again, and the invocation it *)
(* gave up may go on, request by request, for as long as it likes.         *)
(* The module has no Init and no Next of its own: ProtectedRun and         *)
(* VulnerableRun compose it with the processors it feeds through the queue *)
(* and watches through the Runs item.                                      *)
(***************************************************************************)
EXTENDS Worker

CONSTANTS
    Duplicated,          \* the entitlements whose event is delivered twice
    MaxDrainIterations,  \* max_drain_iterations of check_drain
    MaxTaskAttempts,     \* one invocation of a task and its retries
    Calls,               \* task invocations alive at once: a bound of the model
    Unreliable,          \* the tasks that may fail, or not be heard of again
    Nothing

Tasks == {"InitRun", "InjectPhaseA", "CheckDrainA", "InjectPhaseB", "CheckDrainB",
          "Evaluate", "GenerateReceipt", "MarkFailed"}

\* The experiment is one that build_definition accepts and plan_phase delivers,
\* and the budget is the batch's: every entitlement paid once.
ASSUME RunAssumption ==
    /\ Duplicated \subseteq Entitlements
    /\ Duplicated # {}
    /\ 2 * Cardinality(Duplicated) <= Cardinality(Entitlements)
    /\ \A e \in Entitlements :
          Cardinality({d \in Deliveries : EntitlementOf[d] = e}) =
             IF e \in Duplicated THEN 2 ELSE 1
    /\ Budget = Cardinality(UNION {{e} \X (1 .. Amount[e]) : e \in Entitlements})
    /\ \A d \in Deliveries : \E m \in Messages : DeliveryOf[m] = d
    /\ {MaxDrainIterations, MaxTaskAttempts} \subseteq Nat \ {0}
    /\ Unreliable \subseteq Tasks

VARIABLES
    run,       \* Runs item: what the workflow writes of it
    receipt,   \* the object in the receipts bucket
    exec,      \* the execution: its state, the invocations made of that state's
               \* task, the drain iteration and the invocation it waits for
    call       \* the task invocations that are running, or have an answer

workflowVars == <<run, receipt, exec, call>>

Answers == {"OK", "RAISED", "DRAINED", "AGAIN", "TIMED_OUT"}
Ended == {"Complete", "RunFailed"}

\* expected_deliveries and plan_phase: 2D deliveries, then the other N - D.
PhaseATarget == 2 * Cardinality(Duplicated)
ExpectedWithoutCopies == Cardinality(Entitlements)  \* mutant: N instead of N + D
ExpectedDeliveries == Cardinality(Entitlements) + Cardinality(Duplicated)
PlanPhase(phase) ==
    {d \in Deliveries : EntitlementOf[d] \in Duplicated <=> phase = "A"}

FirstStep(task) ==
    CASE task = "InitRun" -> "START"
      [] task \in {"InjectPhaseA", "InjectPhaseB", "Evaluate"} -> "MARK_PHASE"
      [] task \in {"CheckDrainA", "CheckDrainB"} -> "CHECK"
      [] task = "GenerateReceipt" -> "READ_RUN"
      [] task = "MarkFailed" -> "FAIL"

PhaseOf(task) == IF task \in {"InjectPhaseA", "CheckDrainA"} THEN "A" ELSE "B"

\* data is what an invocation remembers from one request to the next.
Invocation(task) == [task |-> task, step |-> FirstStep(task), data |-> Nothing]

WorkflowInit ==
    /\ run = [status |-> "QUEUED", phase |-> "QUEUED", report |-> Nothing,
              finishedAt |-> 0, receipt |-> Nothing]
    /\ receipt = Nothing
    /\ \E c \in Calls :
          /\ call = [x \in Calls |-> IF x = c THEN Invocation("InitRun") ELSE Nothing]
          /\ exec = [state |-> "InitRun", attempts |-> 1, iteration |-> 0, awaits |-> c]

Statuses == {"QUEUED", "RUNNING", "COMPLETED", "FAILED"}
Phases == {"QUEUED", "A", "B", "EVALUATING", "COMPLETE", "FAILED"}

\* The Runs item and the execution keep their shape, and neither the drain nor
\* the retries go past their limits.
WorkflowTypeOK ==
    /\ run.status \in Statuses
    /\ run.phase \in Phases
    /\ run.finishedAt \in Nat
    /\ exec.state \in Tasks \cup Ended
    /\ exec.attempts \in 1 .. MaxTaskAttempts
    /\ exec.iteration \in 0 .. MaxDrainIterations - 1
    /\ exec.awaits \in Calls
    /\ exec.state \notin Ended => call[exec.awaits].task = exec.state
    /\ \A c \in Calls : call[c] # Nothing =>
          /\ call[c].task \in Tasks
          /\ c # exec.awaits => call[c].step \notin Answers

-----------------------------------------------------------------------------
(* The rows, as the evaluator reads and judges them                        *)

\* One element for every ledger effect of entitlement e.
EffectsOf(e) ==
    UNION {{d} \X (1 .. effects[d]) : d \in {x \in Deliveries : EntitlementOf[x] = e}}

LedgerRead ==
    [payments |-> [e \in Entitlements |-> Cardinality(EffectsOf(e))],
     spent |-> MoneyPaid]

OutcomesRead ==
    [suppressed |-> Cardinality(RowsWith("DUPLICATE_SUPPRESSED")),
     exhausted |-> Cardinality(RowsWith("BUDGET_EXHAUSTED"))]

DoublePaid(payments) == {e \in Entitlements : payments[e] > 1}
Unpaid(payments) == {e \in Entitlements : payments[e] = 0}

\* evaluate_run: what it reports of the ledger and the deliveries it was given.
Evaluated(ledger, outcomes) ==
    [payments |-> ledger.payments, spent |-> ledger.spent,
     suppressed |-> outcomes.suppressed, exhausted |-> outcomes.exhausted,
     verdict |-> IF /\ DoublePaid(ledger.payments) = {}
                    /\ Unpaid(ledger.payments) = {}
                    /\ ledger.spent <= Budget
                 THEN "PASS" ELSE "FAIL"]

Truth == Evaluated(LedgerRead, OutcomesRead)

-----------------------------------------------------------------------------
(* Invocations                                                             *)

At(c, tasks, step) ==
    call[c] # Nothing /\ call[c].task \in tasks /\ call[c].step = step

Goto(c, step, data) ==
    /\ call' = [call EXCEPT ![c].step = step, ![c].data = data]
    /\ UNCHANGED exec

\* The handler returns or raises.  Nobody listens to an invocation given up.
End(c, answer) ==
    /\ call' = [call EXCEPT ![c] = IF c = exec.awaits
                                   THEN [@ EXCEPT !.step = answer, !.data = Nothing]
                                   ELSE Nothing]
    /\ UNCHANGED exec
Raise(c) == End(c, "RAISED")

TablesUntouched == UNCHANGED <<storeVars, queueVars, workerVars>>

-----------------------------------------------------------------------------
(* The tasks, request by request                                           *)

\* init_run: QUEUED -> RUNNING, resetting the live counters; a retried
\* invocation finds the run RUNNING and returns.
InitRun(c) ==
    /\ At(c, {"InitRun"}, "START")
    /\ IF run.status = "QUEUED"
       THEN /\ run' = [run EXCEPT !.status = "RUNNING", !.phase = "QUEUED"]
            /\ budgetRemaining' = Budget
            /\ deliveredCount' = 0
            /\ outcomeCount' = [o \in Outcomes |-> 0]
       ELSE UNCHANGED <<run, budgetRemaining, deliveredCount, outcomeCount>>
    /\ End(c, IF run.status \in {"QUEUED", "RUNNING"} THEN "OK" ELSE "RAISED")
    /\ UNCHANGED <<claim, effects, rows, receipt, queueVars, workerVars>>

\* The updates that require a RUNNING run raise ConflictError on any other.
UpdateRejected(c) ==
    /\ call[c] # Nothing
    /\ call[c].step \in {"MARK_PHASE", "STORE", "COMPLETE"}
    /\ run.status # "RUNNING"
    /\ Raise(c)
    /\ UNCHANGED <<run, receipt>>
    /\ TablesUntouched

\* inject_phase writes the phase, then publishes what the phase plans.
MarkPhase(c) ==
    /\ At(c, {"InjectPhaseA", "InjectPhaseB"}, "MARK_PHASE")
    /\ run.status = "RUNNING"
    /\ LET phase == PhaseOf(call[c].task) IN
          /\ run' = [run EXCEPT !.phase = phase]
          /\ Goto(c, "PUBLISH", [left |-> PlanPhase(phase)])
    /\ UNCHANGED receipt
    /\ TablesUntouched

\* publish: batches of messages, whatever is left when one of them fails.  A
\* delivery sent again is one more message, as long as the model has one.
Unsent(d) == {m \in Messages : DeliveryOf[m] = d /\ queue[m] = "UNSENT"}
AnUnsent(d) == CHOOSE m \in Unsent(d) : TRUE

Publish(c) ==
    /\ At(c, {"InjectPhaseA", "InjectPhaseB"}, "PUBLISH")
    /\ \E ds \in IF call[c].task \in Unreliable THEN SUBSET call[c].data.left \ {{}}
                               ELSE {call[c].data.left} :
          /\ Send({AnUnsent(d) : d \in {x \in ds : Unsent(x) # {}}})
          /\ IF ds = call[c].data.left
             THEN End(c, "OK")
             ELSE Goto(c, "PUBLISH", [left |-> call[c].data.left \ ds])
    /\ UNCHANGED <<run, receipt, storeVars, workerVars>>

\* check_drain: only the counter decides.
DrainTarget(c) ==
    IF call[c].task = "CheckDrainA" THEN PhaseATarget ELSE ExpectedDeliveries

CheckFor(c, target) ==
    /\ At(c, {"CheckDrainA", "CheckDrainB"}, "CHECK")
    /\ End(c, IF deliveredCount >= target THEN "DRAINED"
              ELSE IF exec.iteration + 1 >= MaxDrainIterations THEN "TIMED_OUT"
              ELSE "AGAIN")
    /\ UNCHANGED <<run, receipt>>
    /\ TablesUntouched

\* Mutant: one delivery off.
CheckDrainEarly(c) == CheckFor(c, DrainTarget(c) - 1)

CheckDrain(c) == CheckFor(c, DrainTarget(c))

\* evaluate and generate_receipt begin differently ...
BeginEvaluate(c) ==
    /\ At(c, {"Evaluate"}, "MARK_PHASE")
    /\ run.status = "RUNNING"
    /\ run' = [run EXCEPT !.phase = "EVALUATING"]
    /\ Goto(c, "LIST_EFFECTS", [verdict |-> Nothing, finishedAt |-> 0])
    /\ UNCHANGED receipt
    /\ TablesUntouched

ReadRunUnless(c, done) ==
    /\ At(c, {"GenerateReceipt"}, "READ_RUN")
    /\ IF done
       THEN End(c, "OK")
       ELSE Goto(c, "LIST_EFFECTS",
                 [verdict |-> run.report.verdict, finishedAt |-> run.finishedAt])
    /\ UNCHANGED <<run, receipt>>
    /\ TablesUntouched

ReadRunOrReceipt(c) == ReadRunUnless(c, receipt # Nothing)  \* mutant: S3 decides
ReadRun(c) == ReadRunUnless(c, run.status = "COMPLETED")

\* ... and both read the ledger, then the deliveries, and judge them.
ListEffects(c) ==
    /\ At(c, {"Evaluate", "GenerateReceipt"}, "LIST_EFFECTS")
    /\ Goto(c, "LIST_DELIVERIES", [seen |-> call[c].data, ledger |-> LedgerRead])
    /\ UNCHANGED <<run, receipt>>
    /\ TablesUntouched

ListDeliveries(c) ==
    /\ At(c, {"Evaluate", "GenerateReceipt"}, "LIST_DELIVERIES")
    /\ LET seen == call[c].data.seen
           report == Evaluated(call[c].data.ledger, OutcomesRead)
       IN IF Cardinality(RecordedDeliveries) # ExpectedDeliveries
          THEN Raise(c)                       \* InconsistentDeliveriesError
          ELSE IF call[c].task = "Evaluate"
          THEN Goto(c, "STORE", report)
          ELSE IF report.verdict # seen.verdict
          THEN Raise(c)                       \* EvaluationMismatchError
          ELSE Goto(c, "PUT_RECEIPT",
                    [report |-> report, finishedAt |-> seen.finishedAt])
    /\ UNCHANGED <<run, receipt>>
    /\ TablesUntouched

\* Every now() of the workflow is later than the one before.
StoreReport(c) ==
    /\ At(c, {"Evaluate"}, "STORE")
    /\ run.status = "RUNNING"
    /\ run' = [run EXCEPT !.report = call[c].data, !.finishedAt = @ + 1]
    /\ End(c, "OK")
    /\ UNCHANGED receipt
    /\ TablesUntouched

PutReceipt(c) ==
    /\ At(c, {"GenerateReceipt"}, "PUT_RECEIPT")
    /\ receipt' = call[c].data
    /\ Goto(c, "COMPLETE", call[c].data)
    /\ UNCHANGED run
    /\ TablesUntouched

Complete(c) ==
    /\ At(c, {"GenerateReceipt"}, "COMPLETE")
    /\ run.status = "RUNNING"
    /\ run' = [run EXCEPT !.status = "COMPLETED", !.phase = "COMPLETE",
                          !.receipt = call[c].data]
    /\ End(c, "OK")
    /\ UNCHANGED receipt
    /\ TablesUntouched

\* mark_failed never overwrites a COMPLETED run.
MarkFailedUnless(c, done) ==
    /\ At(c, {"MarkFailed"}, "FAIL")
    /\ run' = IF done THEN run
              ELSE [run EXCEPT !.status = "FAILED", !.phase = "FAILED",
                               !.finishedAt = @ + 1]
    /\ End(c, "OK")
    /\ UNCHANGED receipt
    /\ TablesUntouched

MarkFailedAnyway(c) == MarkFailedUnless(c, FALSE)  \* mutant: no check
MarkFailed(c) == MarkFailedUnless(c, run.status = "COMPLETED")

\* A request of the task fails for good, and the handler raises.
TaskFails(c) ==
    /\ call[c] # Nothing /\ call[c].task \in Unreliable /\ call[c].step \notin Answers
    /\ Raise(c)
    /\ UNCHANGED <<run, receipt>>
    /\ TablesUntouched

-----------------------------------------------------------------------------
(* The execution                                                           *)

Enter(c, state, iteration) ==
    /\ exec' = [state |-> state, attempts |-> 1, iteration |-> iteration, awaits |-> c]
    /\ call' = [call EXCEPT ![c] = IF state \in Ended THEN Nothing ELSE Invocation(state)]

\* Catch: every error leads to MarkFailed, and that one's to RunFailed.
CatchAgain == "MarkFailed"  \* mutant: MarkFailed is retried for ever
CatchState == IF exec.state = "MarkFailed" THEN "RunFailed" ELSE "MarkFailed"

NextState ==
    [InitRun |-> "InjectPhaseA", InjectPhaseA |-> "CheckDrainA",
     CheckDrainA |-> "InjectPhaseB", InjectPhaseB |-> "CheckDrainB",
     CheckDrainB |-> "Evaluate", Evaluate |-> "GenerateReceipt",
     GenerateReceipt |-> "Complete", MarkFailed |-> "RunFailed"]

\* The execution hears the answer of the invocation it waits for.
Answered ==
    LET c == exec.awaits IN
    /\ exec.state \notin Ended
    /\ \/ call[c].step \in {"RAISED", "TIMED_OUT"} /\ Enter(c, CatchState, 0)
       \/ call[c].step = "AGAIN" /\ Enter(c, exec.state, exec.iteration + 1)
       \/ call[c].step \in {"OK", "DRAINED"} /\ Enter(c, NextState[exec.state], 0)
    /\ UNCHANGED <<run, receipt>>
    /\ TablesUntouched

\* It hears nothing, or an error of the Lambda service.  The invocation may be
\* dead, ended, or still running: then another one is started beside it.  One
\* that only reads the counter is of no more consequence.
Forsaken(c) ==
    IF call[c].step \in Answers \cup {"CHECK"} THEN Nothing ELSE call[c]

AnswerLost ==
    /\ exec.state \in Unreliable
    /\ \E c \in Calls :
          LET retry == exec.attempts < MaxTaskAttempts
              state == IF retry THEN exec.state ELSE CatchState
          IN /\ c = exec.awaits \/ call[c] = Nothing
             /\ exec' = [exec EXCEPT !.state = state, !.awaits = c,
                                     !.attempts = IF retry THEN @ + 1 ELSE 1]
             /\ call' = [x \in Calls |->
                            IF x = c
                            THEN IF state \in Ended THEN Nothing ELSE Invocation(state)
                            ELSE IF x = exec.awaits THEN Forsaken(x) ELSE call[x]]
    /\ UNCHANGED <<run, receipt>>
    /\ TablesUntouched

\* An invocation that was given up dies.
Vanish(c) ==
    /\ call[c] # Nothing
    /\ c # exec.awaits \/ exec.state \in Ended
    /\ call' = [call EXCEPT ![c] = Nothing]
    /\ UNCHANGED <<run, receipt, exec>>
    /\ TablesUntouched

TaskStep(c) ==
    \/ InitRun(c)
    \/ MarkPhase(c) \/ Publish(c) \/ CheckDrain(c)
    \/ BeginEvaluate(c) \/ ReadRun(c)
    \/ ListEffects(c) \/ ListDeliveries(c)
    \/ StoreReport(c) \/ PutReceipt(c) \/ Complete(c)
    \/ UpdateRejected(c) \/ MarkFailed(c)

WorkflowNext ==
    \/ \E c \in Calls : TaskStep(c) \/ TaskFails(c) \/ Vanish(c)
    \/ Answered \/ AnswerLost

-----------------------------------------------------------------------------
(* What a run owes its reader, whichever processor it is run against       *)

\* The stored report of a completed run and its receipt are what the tables
\* say, then and for ever after: no straggler changes what was signed.
ReportStaysTrue ==
    run.status = "COMPLETED" =>
        /\ run.report = Truth
        /\ receipt.report = Truth

\* Phase B is held back until every delivery of phase A is recorded, although
\* nobody looks at the queue and an earlier injection may still be sending.
PhaseBWaits ==
    \A m \in Messages :
        /\ DeliveryOf[m] \in PlanPhase("B")
        /\ queue[m] # "UNSENT"
        => PlanPhase("A") \subseteq RecordedDeliveries

\* The execution and the Runs item agree on how the run ended: an execution
\* that ended well completed the run, and no run completes without a verdict
\* over every expected row.
EndsAgree ==
    /\ WorkflowTypeOK
    /\ exec.state = "Complete" => run.status = "COMPLETED"
    /\ run.status = "COMPLETED" => RecordedDeliveries = Deliveries
=============================================================================
