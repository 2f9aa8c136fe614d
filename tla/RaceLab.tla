------------------------------- MODULE RaceLab -------------------------------
(***************************************************************************)
(* One race of the Race Lab from the button to the verdict: the page       *)
(* (RaceLabPage.tsx), POST /race (services/race_service.py), the race       *)
(* workflow (race_workflow.asl.json) with its tasks finish_race and         *)
(* mark_failed (services/workflow_service.py), and the copies it releases   *)
(* (NaiveProcessor).                                                       *)
(***************************************************************************)
EXTENDS NaiveProcessor

CONSTANT MaxFinishes    \* one invocation of FinishRace and its retries

\* The copies are different deliveries of one event, each invoked by an iteration
\* of its own, and the budget is enough for every copy (start in race_service.py).
ASSUME RaceLabAssumption ==
    /\ MaxFinishes \in Nat \ {0}
    /\ IsFiniteSet(Workers)
    /\ \A d \in Deliveries : \E m \in Messages : DeliveryOf[m] = d
    /\ \A m, n \in Messages : DeliveryOf[m] = DeliveryOf[n] => m = n
    /\ \E e \in Entitlements :
          Entitlements = {e} /\ Budget = Cardinality(Deliveries) * Amount[e]

VARIABLES
    race,       \* the race's item: status and, when it is COMPLETED, what was counted
    handler,    \* POST /race: its next request
    execution,  \* the state of the workflow
    finishes,   \* invocations of FinishRace so far
    effectsRead,\* what finish_race has read of the ledger
    button,     \* RaceLabPage: start is "idle", "pending" or has "failed"
    shown       \* RaceLabPage: the status of the race that is shown

raceVars == <<race, handler, execution, finishes, effectsRead, button, shown>>
vars == <<naiveVars, raceVars>>

Nothing == "NOTHING"
Count(payments, recorded, suppressed) ==
    [payments |-> payments, recorded |-> recorded, suppressed |-> suppressed]
ListEffects == Cardinality(UNION {{d} \X (1 .. effects[d]) : d \in Deliveries})
Verdict(counted) == IF counted.payments = 1 THEN "PASS" ELSE "FAIL"

Init ==
    /\ NaiveInit
    /\ race = [status |-> Nothing, counted |-> Count(0, 0, 0)]
    /\ handler = "idle" /\ execution = Nothing /\ finishes = 0 /\ effectsRead = 0
    /\ button = "idle" /\ shown = Nothing

Busy == button = "pending" \/ shown = "RUNNING"

-----------------------------------------------------------------------------
(* RaceLabPage and POST /race.  One race is followed.                      *)

Launch ==
    /\ ~Busy /\ handler = "idle" /\ race.status = Nothing
    /\ handler' = "create" /\ button' = "pending"
    /\ UNCHANGED <<naiveVars, race, execution, finishes, effectsRead, shown>>

CreateRace ==
    /\ handler = "create"
    /\ race' = [race EXCEPT !.status = "RUNNING"]
    /\ handler' = "start"
    /\ UNCHANGED <<naiveVars, execution, finishes, effectsRead, button, shown>>

StartRun ==
    /\ handler = "start"
    /\ execution' = "RaceCopies"
    /\ Send(Messages)
    /\ handler' = "answer"
    /\ UNCHANGED <<storeVars, workerVars, outcome, mishaps, race, finishes, effectsRead, button, shown>>

\* start_run raises, or the handler dies before or after it: nothing puts the
\* race right.
HandlerDies ==
    /\ Mishap /\ handler \in {"create", "start", "answer"}
    /\ handler' = "dead" /\ button' = "failed"
    /\ UNCHANGED <<storeVars, queueVars, workerVars, outcome, race, execution, finishes, effectsRead, shown>>

\* The page shows the race it was told of, once it has fetched it.
Answered ==
    /\ handler = "answer"
    /\ handler' = "done" /\ button' = "idle"
    /\ shown' = IF shown = Nothing THEN "RUNNING" ELSE shown
    /\ UNCHANGED <<naiveVars, race, execution, finishes, effectsRead>>

\* useRace asks again until what it has is terminal; with no race of its own,
\* the page shows the newest of the list.
PollRace ==
    /\ race.status # Nothing
    /\ shown \in {Nothing, "RUNNING"} /\ shown # race.status
    /\ shown' = race.status
    /\ UNCHANGED <<naiveVars, race, handler, execution, finishes, effectsRead, button>>

-----------------------------------------------------------------------------
(* The workflow                                                            *)

\* Mutations: a copy that failed is waited for; copies at work are not.
RaceCopiesSucceed ==
    /\ execution = "RaceCopies"
    /\ \A m \in Messages : queue[m] = "DELETED"
    /\ execution' = "FinishRace" /\ finishes' = 1
    /\ UNCHANGED <<naiveVars, race, handler, effectsRead, button, shown>>
RaceCopiesInvoked ==
    /\ execution = "RaceCopies"
    /\ \A m \in Messages : queue[m] # "VISIBLE"
    /\ execution' = "FinishRace" /\ finishes' = 1
    /\ UNCHANGED <<naiveVars, race, handler, effectsRead, button, shown>>

\* The Map state ends when every copy has succeeded or failed, by the answer of
\* whichever of its invocations.
RaceCopiesEnd ==
    /\ execution = "RaceCopies"
    /\ \A m \in Messages : queue[m] \in {"DELETED", "DEAD"}
    /\ execution' = "FinishRace" /\ finishes' = 1
    /\ UNCHANGED <<naiveVars, race, handler, effectsRead, button, shown>>

\* finish_race lists the ledger, then the deliveries.
ListLedger ==
    /\ execution = "FinishRace"
    /\ execution' = "FinishRace: deliveries" /\ effectsRead' = ListEffects
    /\ UNCHANGED <<naiveVars, race, handler, finishes, button, shown>>

Counted == Count(effectsRead, Cardinality(RecordedDeliveries),
                 Cardinality(RowsWith("DUPLICATE_SUPPRESSED")))

\* The race is COMPLETED under the condition that it is RUNNING; if the answer
\* is lost, Step Functions invokes finish_race again.
Update ==
    /\ execution = "FinishRace: deliveries" /\ race.status = "RUNNING"
    /\ race' = [status |-> "COMPLETED", counted |-> Counted]
    /\ \/ execution' = "Done" /\ UNCHANGED <<mishaps, finishes>>
       \/ /\ finishes < MaxFinishes /\ Mishap
          /\ execution' = "FinishRace" /\ finishes' = finishes + 1
    /\ UNCHANGED <<storeVars, queueVars, workerVars, outcome, handler, effectsRead, button, shown>>

\* The condition fails: finish_race has no way to see that it is done already.
UpdateRefused ==
    /\ execution = "FinishRace: deliveries" /\ race.status # "RUNNING"
    /\ execution' = "MarkFailed"
    /\ UNCHANGED <<naiveVars, race, handler, finishes, effectsRead, button, shown>>

\* A task fails with an error that is not retried, or too often.
FinishFails ==
    /\ execution \in {"FinishRace", "FinishRace: deliveries"} /\ Mishap
    /\ execution' = "MarkFailed"
    /\ UNCHANGED <<storeVars, queueVars, workerVars, outcome, race, handler, finishes, effectsRead, button, shown>>

\* Mutation: a race that is COMPLETED is overwritten.
MarkFailedAnyway ==
    /\ execution = "MarkFailed"
    /\ race' = [race EXCEPT !.status = "FAILED"]
    /\ execution' = "RaceFailed"
    /\ UNCHANGED <<naiveVars, handler, finishes, effectsRead, button, shown>>

MarkFailed ==
    /\ execution = "MarkFailed"
    /\ race' = [race EXCEPT !.status = IF @ = "COMPLETED" THEN @ ELSE "FAILED"]
    /\ execution' = "RaceFailed"
    /\ UNCHANGED <<naiveVars, handler, finishes, effectsRead, button, shown>>

\* MarkFailed is not retried.  What failed the task before may fail it too: no
\* mishap of its own.
MarkFailedFails ==
    /\ execution = "MarkFailed"
    /\ execution' = "RaceFailed"
    /\ UNCHANGED <<naiveVars, race, handler, finishes, effectsRead, button, shown>>

-----------------------------------------------------------------------------

Workflow ==
    RaceCopiesEnd \/ ListLedger \/ Update \/ UpdateRefused \/ FinishFails \/ MarkFailed \/ MarkFailedFails
Handler == CreateRace \/ StartRun \/ Answered

Next ==
    \/ Launch \/ Handler \/ HandlerDies \/ PollRace
    \/ NaiveStep /\ UNCHANGED raceVars
    \/ Workflow

Spec == Init /\ [][Next]_vars

\* The Map state starts every copy, a running invocation goes on, the service
\* answers for those that do not; the handler and the workflow go on, and the
\* page polls.
Fairness ==
    /\ \A w \in Workers :
          /\ WF_vars(Start(w) /\ UNCHANGED <<mishaps, raceVars>>)
          /\ WF_vars(WorkerStep(w) /\ UNCHANGED raceVars)
    /\ \A m \in Messages : WF_vars(NoAnswer(m) /\ UNCHANGED raceVars)
    /\ WF_vars(Handler) /\ WF_vars(Workflow) /\ WF_vars(PollRace)

FairSpec == Spec /\ Fairness

-----------------------------------------------------------------------------

RaceTypeOK ==
    /\ TypeOK
    /\ race.status \in {Nothing, "RUNNING", "COMPLETED", "FAILED"}
    /\ race.counted.payments \in Nat
    /\ handler \in {"idle", "create", "start", "answer", "done", "dead"}
    /\ execution \in {Nothing, "RaceCopies", "FinishRace", "FinishRace: deliveries",
                      "MarkFailed", "Done", "RaceFailed"}
    /\ finishes \in 0 .. MaxFinishes
    /\ button \in {"idle", "pending", "failed"}
    /\ shown \in {Nothing, "RUNNING", "COMPLETED", "FAILED"}

\* Every payment spends a debit of its own, so a race never pays more than it
\* was given, whatever fails or is repeated.
RaceNeverOverspends ==
    /\ RaceTypeOK
    /\ MoneyPaid + Cardinality(PaiseInHand) + budgetRemaining <= Budget

\* The result of a race is what its copies did, for good: unless a copy was
\* given up or invoked twice, no payment comes after the count, and payments
\* and refusals together are all the copies (workflow_service.py, finish_race).
ResultMatchesLedger ==
    (race.status = "COMPLETED" /\ \A m \in Messages : receives[m] = 1 /\ queue[m] = "DELETED") =>
        /\ race.counted.payments = ListEffects
        /\ race.counted.recorded = Cardinality(Deliveries)
        /\ Cardinality(Deliveries) = race.counted.payments + race.counted.suppressed
                                        + Cardinality(RowsWith("BUDGET_EXHAUSTED"))
        /\ Verdict(race.counted) = "PASS" => Cardinality(PayingDeliveries) = 1

\* A race that has its result keeps it, although finish_race, asked again after
\* a lost answer, fails and sends the workflow to MarkFailed.
CompletedRaceIsFinal == [][race.status = "COMPLETED" => race' = race]_vars

\* The lab's buttons unlock again, whatever the copies do, unless the handler
\* died or the race could not even be marked as failed.
LabUnlocks ==
    Busy ~> (~Busy \/ handler = "dead" \/ (execution = "RaceFailed" /\ race.status = "RUNNING"))
=============================================================================
