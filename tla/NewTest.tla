------------------------------ MODULE NewTest ------------------------------
(***************************************************************************)
(* The "New test" wizard (features/newtest/NewTestPage.tsx) of one visitor, *)
(* on top of the API and of whoever else posts runs.  A step's component   *)
(* keeps its own state and loses it when it is unmounted; a request it has *)
(* sent outlives it, and so does what the page does with the answer.       *)
(***************************************************************************)
EXTENDS RunAdmission, CsvCheck

\* Bounds of the behaviours explored: the step they begin with, the runs of
\* others in execution then, whether a handler has left a batch with its first
\* rows only, the visitor's clicks and changes of the CSV, the runs that
\* others start later and the handlers that die.  The runs of others have kept to
\* the cap and have their slots of the hour.
CONSTANT Scopes

ASSUME NewTestAssumption ==
    Scopes \subseteq [from : {1, 3}, listed : BOOLEAN,
                      executing : {n \in 0 .. MaxActiveRuns : n <= RunsPerHour},
                      clicks : Nat, edits : Nat, others : Nat, deaths : Nat]

VARIABLES
    page,        \* where the visitor is, and which runs that page shows
    step,        \* 1, 2 or 3
    batch,
    experiment,
    source,      \* StepStudents: where the students come from
    busy,        \* the mounted component's busy state
    error,       \* what kind of error it shows
    first,       \* StepRun: the run that "Run both" could start alone
    firstEnded,  \* SecondRun: useRun has seen that run end
    overview,    \* StepRun: active_runs of the last GET /overview
    left         \* what is left of the bounds

formVars == <<busy, error, first, firstEnded, csv>>
testVars == <<step, batch, experiment, source>>
wizardVars == <<page, testVars, formVars, overview>>
vars == <<admissionVars, wizardVars, left>>

\* "Generate students" and "Upload a CSV" both create a batch.
Sources == {"demo", "generate", "csv", "saved"}
Idle == "idle"
Here == [at |-> "new"]
Away == [at |-> "away"]

Init ==
    /\ left \in Scopes
    /\ AdmissionInit(left.executing, left.listed)
    /\ page = Here
    /\ step = left.from
    /\ batch = IF step = 1 THEN NoOne ELSE DemoBatch
    /\ experiment = IF step = 1 THEN NoOne ELSE ExperimentOn(DemoBatch)
    /\ source = "demo"
    /\ busy = Idle /\ error = NoOne
    /\ first = NoOne /\ firstEnded = FALSE /\ csv = EmptyForm
    /\ overview = 0

-----------------------------------------------------------------------------
(* Components and their requests                                           *)

OnStep(n) == page = Here /\ step = n

\* A component that is mounted starts afresh, and the requests of the one it
\* replaces have no form to report to any more.
Orphaned(q) == IF request[q] = NoOne THEN NoOne ELSE [request[q] EXCEPT !.by.mounted = FALSE]
Fresh ==
    /\ busy' = Idle /\ error' = NoOne
    /\ first' = NoOne /\ firstEnded' = FALSE /\ csv' = EmptyForm

\* The answer has been dealt with, by a component that stays or that goes.
Done(q) == request' = [request EXCEPT ![q] = NoOne]
DoneUnmounting(q) ==
    request' = [other \in Requests |-> IF other = q THEN NoOne ELSE Orphaned(other)]

\* after is the run a component has already started when it sends the request.
By(what, after) == [what |-> what, mounted |-> TRUE, after |-> after]

Heard(q, what, ok) ==
    /\ request[q] # NoOne
    /\ request[q].by.what = what
    /\ request[q].step = "ANSWERED"
    /\ (request[q].answer = "OK") = ok

Submit(q, kind, subject, by, busyWith) ==
    /\ busy = Idle
    /\ Post(q, kind, subject, by)
    /\ busy' = busyWith /\ error' = NoOne
    /\ UNCHANGED <<batchRows, runs, allowance, page, testVars, first, firstEnded, csv, overview>>

-----------------------------------------------------------------------------
(* Step 1: who is being paid                                               *)

SetSource(s) ==
    /\ OnStep(1) /\ s # source
    /\ source' = s
    /\ Fresh
    /\ request' = [q \in Requests |-> Orphaned(q)]
    /\ UNCHANGED <<batchRows, runs, allowance, page, step, batch, experiment, overview>>

\* onNext of StepStudents: another batch drops the experiment.
ChooseThen(chosen, next) ==
    /\ experiment' = IF chosen = batch THEN experiment ELSE NoOne
    /\ batch' = chosen
    /\ step' = next
    /\ source' = "demo"

ChooseKeepingStep(chosen) == ChooseThen(chosen, IF step = 1 THEN 2 ELSE step)   \* mutant
Choose(chosen) == ChooseThen(chosen, 2)

\* The demo batch, or any that GET /batches lists.
Pick(b) ==
    /\ OnStep(1)
    /\ \/ source = "demo" /\ b = DemoBatch
       \/ source = "saved" /\ batchRows[b] # Absent
    /\ Choose(b) /\ Fresh
    /\ UNCHANGED <<admissionVars, page, overview>>

CreateBatch(q) ==
    /\ OnStep(1)
    /\ \/ /\ source = "generate"
          /\ Submit(q, "BATCH", "valid", By("createBatch", NoOne), "create")
       \/ /\ source = "csv" /\ reason(csv) = "none"
          /\ Submit(q, "BATCH", IF csv.text \in Valid THEN "valid" ELSE "invalid",
                    By("createBatch", NoOne), "create")

Editing(change) ==
    /\ OnStep(1) /\ source = "csv" /\ change
    /\ UNCHANGED <<admissionVars, page, testVars, busy, error, first, firstEnded, overview>>

\* useCreate calls done whether or not its component is still there.  A
\* StepScenario that is, stays mounted, with another batch.
BatchCreated(q) ==
    /\ Heard(q, "createBatch", TRUE)
    /\ IF page # Here
       THEN Done(q) /\ UNCHANGED <<testVars, formVars>>
       ELSE /\ Choose(request[q].made)
            /\ IF step = 2 THEN Done(q) /\ UNCHANGED formVars
                           ELSE DoneUnmounting(q) /\ Fresh
    /\ UNCHANGED <<batchRows, runs, allowance, page, overview>>

\* An error is shown where the form still is.
CreateFailedBeing(q, after) ==
    /\ Heard(q, "createBatch", FALSE) \/ Heard(q, "createExperiment", FALSE)
    /\ IF request[q].by.mounted
       THEN busy' = after /\ error' = "OTHER"
       ELSE UNCHANGED <<busy, error>>
    /\ Done(q)
    /\ UNCHANGED <<batchRows, runs, allowance, page, testVars, first, firstEnded, csv, overview>>

CreateFailedBusy(q) == CreateFailedBeing(q, busy)   \* mutant
CreateFailed(q) == CreateFailedBeing(q, Idle)

-----------------------------------------------------------------------------
(* Step 2: the retry scenario                                              *)

CreateExperiment(q) ==
    /\ OnStep(2)
    /\ Submit(q, "EXPERIMENT", batch, By("createExperiment", NoOne), "create")

ExperimentCreated(q) ==
    /\ Heard(q, "createExperiment", TRUE)
    /\ IF page # Here
       THEN Done(q) /\ UNCHANGED <<testVars, formVars>>
       ELSE /\ experiment' = request[q].made
            /\ step' = 3
            /\ UNCHANGED <<batch, source>>
            /\ IF step = 3 THEN Done(q) /\ UNCHANGED formVars
                           ELSE DoneUnmounting(q) /\ Fresh
    /\ UNCHANGED <<batchRows, runs, allowance, page, overview>>

\* Back stays enabled while a request is on its way; in step 3 it is there
\* until "Run both" has started a run alone.
Back ==
    /\ OnStep(2) \/ (OnStep(3) /\ first = NoOne)
    /\ step' = step - 1
    /\ Fresh
    /\ request' = [q \in Requests |-> Orphaned(q)]
    /\ UNCHANGED <<batchRows, runs, allowance, page, batch, experiment, source, overview>>

-----------------------------------------------------------------------------
(* Step 3: the runs                                                        *)

\* useOverview polls; while nothing is known, nothing counts as active.
PollOverviewIf(polls) ==
    /\ page = Here /\ polls
    /\ overview' = Cardinality(Active)
    /\ UNCHANGED <<admissionVars, page, testVars, formVars>>

PollOverviewOnce == PollOverviewIf(overview = 0)   \* mutant
PollOverview == PollOverviewIf(TRUE)

Start(q, processor, by, busyWith) ==
    /\ OnStep(3)
    /\ Submit(q, "RUN", [experiment |-> experiment, processor |-> processor], by, busyWith)

\* runBoth: the unprotected run first, the protected one when that is answered.
RunBoth(q) ==
    /\ first = NoOne /\ overview + 2 <= MaxActiveRuns
    /\ Start(q, "vulnerable", By("runBoth", NoOne), "both")

UnprotectedStarted(q) ==
    /\ Heard(q, "runBoth", TRUE)
    /\ request' = [request EXCEPT ![q] =
          [@ EXCEPT !.subject.processor = "protected", !.step = "ARRIVED",
                    !.made = NoOne, !.answer = NoOne,
                    !.by.what = "runBothThen", !.by.after = request[q].made]]
    /\ UNCHANGED <<batchRows, runs, allowance, wizardVars>>

RunOne(q, processor) ==
    /\ first = NoOne /\ overview < MaxActiveRuns
    /\ Start(q, processor, By("runOne", NoOne), "one")

\* SecondRun: useRun polls the first run until it has ended ...
PollFirst ==
    /\ OnStep(3) /\ first # NoOne
    /\ runs[first].status \in Terminal
    /\ firstEnded' = TRUE
    /\ UNCHANGED <<admissionVars, page, testVars, busy, error, first, csv, overview>>

\* ... and then the button unlocks.
StartSecond(q) ==
    /\ first # NoOne /\ firstEnded
    /\ Start(q, "protected", By("second", first), "second")

\* Another page replaces the wizard, whose state is lost.
Unmounted ==
    /\ Fresh
    /\ step' = 1 /\ source' = "demo"
    /\ batch' = NoOne /\ experiment' = NoOne
    /\ overview' = 0

\* navigate works after its component is gone, too.
Started(q) ==
    /\ \E what \in {"runOne", "runBothThen", "second"} : Heard(q, what, TRUE)
    /\ page' = IF request[q].by.what = "runOne"
               THEN [at |-> "run", run |-> request[q].made]
               ELSE [at |-> "compare", a |-> request[q].by.after, b |-> request[q].made]
    /\ DoneUnmounting(q) /\ Unmounted
    /\ UNCHANGED <<batchRows, runs, allowance>>

\* isBusy: 409 or 429.
ErrorOf(answer) == IF answer \in Refusals THEN "BUSY" ELSE "OTHER"

\* A run that "Run both" started alone is kept, and the second offered.
StartFailed(q) ==
    /\ \E what \in {"runBoth", "runBothThen", "runOne", "second"} : Heard(q, what, FALSE)
    /\ IF request[q].by.mounted
       THEN /\ busy' = Idle
            /\ error' = ErrorOf(request[q].answer)
            /\ first' = request[q].by.after
            /\ UNCHANGED <<firstEnded, csv>>
       ELSE UNCHANGED formVars
    /\ Done(q)
    /\ UNCHANGED <<batchRows, runs, allowance, page, testVars, overview>>

-----------------------------------------------------------------------------
(* Everybody                                                               *)

Leave ==
    /\ page = Here
    /\ page' = Away
    /\ Unmounted
    /\ request' = [q \in Requests |-> Orphaned(q)]
    /\ UNCHANGED <<batchRows, runs, allowance>>

\* Another visitor starts a run of the demo test.  Their handler is one step
\* here; handlers that overlap are those of the visitor, who may go back from
\* one start on its way and send another.
SomeoneStarts ==
    /\ OnStep(3)            \* bound: only the third step depends on it
    /\ Cardinality(Executing) < MaxActiveRuns /\ PastTheCap = {}
    /\ allowance < RunsPerHour
    /\ Unused # {}
    /\ runs' = [runs EXCEPT ![FreshId(Unused)] = DemoRun]
    /\ allowance' = allowance + 1
    /\ UNCHANGED <<batchRows, request, wizardVars>>

Hear(q) ==
    \/ BatchCreated(q) \/ ExperimentCreated(q) \/ CreateFailed(q)
    \/ UnprotectedStarted(q) \/ Started(q) \/ StartFailed(q)

Visitor ==
    \/ \E s \in Sources : SetSource(s)
    \/ \E b \in Batches : Pick(b)
    \/ \E q \in Requests :
          \/ CreateBatch(q) \/ CreateExperiment(q)
          \/ RunBoth(q) \/ StartSecond(q)
          \/ \E p \in Processors : RunOne(q, p)
    \/ Back

Spend(what) == left[what] > 0 /\ left' = [left EXCEPT ![what] = @ - 1]

\* What goes on by itself: requests are served, answers arrive, polls are
\* made, and a started execution runs and ends (RunWorkflow's ExecutionEnds).
System ==
    /\ UNCHANGED left
    /\ \/ \E q \in Requests : Handle(q) /\ UNCHANGED wizardVars
       \/ \E q \in Requests : Hear(q)
       \/ \E r \in Runs : Execute(r) /\ UNCHANGED wizardVars
       \/ PollOverview
       \/ PollFirst
       \/ Editing(FileRead \/ CheckStarts \/ \E check \in csv.checks : CheckAnswered(check))

Next ==
    \/ System
    \/ Visitor /\ Spend("clicks")
    \/ Editing(\E text \in Texts : Type(text) \/ ChooseFile(text)) /\ Spend("edits")
    \/ Editing(\E check \in csv.checks : CheckFails(check)) /\ UNCHANGED left
    \/ Leave /\ UNCHANGED left
    \/ SomeoneStarts /\ Spend("others")
    \/ \E q \in Requests :
          \/ HandlerDies(q) /\ UNCHANGED wizardVars /\ Spend("deaths")
          \/ ConsumeAgain(q) /\ UNCHANGED <<wizardVars, left>>

Spec == Init /\ [][Next]_vars

\* The weakest progress there is: when something can go on by itself, something
\* does.  The visitor owes nothing.
Fairness == WF_vars(System)

FairSpec == Spec /\ Fairness

-----------------------------------------------------------------------------
(* What the visitor may rely on                                            *)

WizardTypeOK ==
    /\ AdmissionTypeOK /\ CsvTypeOK
    /\ batch \in Batches \cup {NoOne} /\ experiment \in Experiments \cup {NoOne}
    /\ busy \in {Idle, "create", "both", "one", "second"}
    /\ overview \in 0 .. Cardinality(Runs)

\* Whatever answers arrive late, the step the wizard is at has what it needs to
\* be rendered (NewTestPage renders nothing for a step without).
NeverBlank ==
    /\ WizardTypeOK /\ step \in 1 .. 3
    /\ step >= 2 => batch # NoOne
    /\ step = 3 => experiment # NoOne

\* "Both processors will run exactly this test": what step 3 shows as the test
\* and its batch belong together.  They need not: an answer to POST /experiments
\* may come after Back and the choice of another batch (README, section 3).
ThisTestIsWhatRuns == page = Here /\ step = 3 => experiment.batch = batch

\* A spinner ends, although its request may be lost, answered late, or go on
\* when the visitor has left the form; and so does "Checking the file...",
\* however the text changes while its check is on its way.
ClicksAreAnswered ==
    /\ busy # Idle ~> busy = Idle
    /\ csv.timer ~> reason(csv) # "checking the file" \/ csv.error

\* A run that the page takes its visitor to ends and stays ended, whatever
\* became of other requests, for that is when the page stops polling.
ShownRuns ==
    CASE page.at = "run" -> {page.run}
      [] page.at = "compare" -> {page.a, page.b}
      [] OTHER -> {}
HasEnded(r) == r \in Stored /\ runs[r].status \in Terminal
ShownRunsEnd == \A r \in Runs : r \in ShownRuns ~> []HasEnded(r)

\* "The buttons unlock when one finishes": unless a handler died between
\* creating a run and starting it, which leaves the run active for ever.  So
\* does the button for the second run, when "Run both" could start one only.
Forgotten ==
    {r \in Active : /\ runs[r].execution = "NONE"
                    /\ \A q \in Requests : request[q] # NoOne => request[q].made # r
                                                \/ request[q].step = "ANSWERED"}
ButtonsUnlock ==
    /\ overview >= MaxActiveRuns ~> overview < MaxActiveRuns \/ Forgotten # {}
    /\ first # NoOne ~> firstEnded \/ first = NoOne
=============================================================================
