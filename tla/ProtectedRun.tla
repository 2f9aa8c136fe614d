---------------------------- MODULE ProtectedRun ----------------------------
(***************************************************************************)
(* One run of an experiment against the protected processor: the workflow  *)
(* publishes, the workers pay, the workflow counts, evaluates and signs.   *)
(***************************************************************************)
EXTENDS ProtectedProcessor, RunWorkflow

runVars == <<vars, workflowVars>>

RunInit == StoreInit /\ QueueInit("UNSENT") /\ ProcessorInit /\ WorkflowInit

\* Nothing is left to do but to receive, or not, what is still in the queue.
RunEnded == exec.state \in Ended

RunNext ==
    \/ ProcessorNext /\ UNCHANGED workflowVars
    \/ WorkflowNext /\ UNCHANGED refusal
    \/ RunEnded /\ UNCHANGED runVars

RunSpec == RunInit /\ [][RunNext]_runVars

\* Step Functions drives an execution to its end, and the invocation it waits
\* for makes progress; the ones it gave up may stop anywhere.
WorkflowFairness ==
    /\ WF_runVars(Answered /\ UNCHANGED refusal)
    /\ WF_runVars(TaskStep(exec.awaits) /\ UNCHANGED refusal)

FairRunSpec == RunSpec /\ WorkflowFairness

-----------------------------------------------------------------------------

\* A completed run has paid every entitlement exactly once, and says so,
\* whatever was redelivered, retried or given up on the way.
CompletedRunPaidEveryone ==
    run.status = "COMPLETED" =>
        /\ run.report.verdict = "PASS"
        /\ \A e \in Entitlements : Cardinality(EffectsOf(e)) = 1

\* A late or retried task never takes a run out of a terminal status.
TerminalIsFinal ==
    [][run.status \in {"COMPLETED", "FAILED"} => run'.status = run.status]_runVars

\* Every execution ends, whatever its tasks and its workers do.
ExecutionEnds == <>(exec.state \in Ended)

\* domain/receipt.py: regenerating the receipt of a run produces the same
\* bytes, so a retried task is harmless, and the stored receipt still matches
\* the hash on the run.
ReceiptMatchesHash == run.status = "COMPLETED" => receipt = run.receipt
=============================================================================
