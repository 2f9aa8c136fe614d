---------------------------- MODULE VulnerableRun ----------------------------
(***************************************************************************)
(* One run of an experiment against the vulnerable processor.  With        *)
(* Faulty = FALSE it is the workload of the demo: no invocation of the     *)
(* worker fails or overlaps another of its message.                        *)
(***************************************************************************)
EXTENDS VulnerableProcessor, RunWorkflow

runVars == <<vars, workflowVars>>

RunInit == StoreInit /\ QueueInit("UNSENT") /\ ProcessorInit /\ WorkflowInit

RunNext ==
    \/ ProcessorNext /\ UNCHANGED workflowVars
    \/ WorkflowNext /\ UNCHANGED <<outcome, resends>>
    \/ exec.state \in Ended /\ UNCHANGED runVars

RunSpec == RunInit /\ [][RunNext]_runVars

-----------------------------------------------------------------------------

EqualAmounts == \A e, f \in Entitlements : Amount[e] = Amount[f]

\* README.md, "Two-phase determinism", and ADR 0001: when all amounts are equal
\* the completed run reports exactly the D duplicated students as paid twice and
\* exactly D others as unpaid, whatever the order of deliveries and workers.
ExactlyDStarve ==
    run.status = "COMPLETED" /\ EqualAmounts =>
        /\ run.report.verdict = "FAIL"
        /\ DoublePaid(run.report.payments) = Duplicated
        /\ Cardinality(Unpaid(run.report.payments)) = Cardinality(Duplicated)
=============================================================================
