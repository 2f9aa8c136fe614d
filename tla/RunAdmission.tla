---------------------------- MODULE RunAdmission ----------------------------
(***************************************************************************)
(* The API's three write endpoints of an experiment: POST /batches, POST   *)
(* /experiments and POST /runs (services/batch_service.py,                 *)
(* experiment_service.py and run_service.py), request by request.  Each    *)
(* handler reads, takes a slot of the hourly allowance and writes in       *)
(* requests of its own, beside the handlers of other visitors, and may die *)
(* between any two of them.  What becomes of a started execution is        *)
(* RunWorkflow's subject; here it runs, and ends.                          *)
(***************************************************************************)
EXTENDS Naturals, FiniteSets

CONSTANTS
    Batches,         \* batch ids, the demo batch among them
    DemoBatch,
    Runs,            \* run ids
    Requests,        \* requests alive at one time
    MaxActiveRuns,   \* config: max_active_runs
    RunsPerHour,     \* config: runs_per_hour
    NoOne            \* no request, run, batch, experiment or answer

ASSUME AdmissionAssumption ==
    /\ DemoBatch \in Batches
    /\ MaxActiveRuns \in Nat \ {0} /\ RunsPerHour \in Nat \ {0}
    /\ IsFiniteSet(Runs) /\ IsFiniteSet(Requests) /\ Requests # {}

VARIABLES
    batchRows,   \* how much of each batch is in the table
    runs,        \* the Runs items and their executions
    allowance,   \* slots of this hour's "runs" allowance that are taken
    request      \* the requests the API is serving, or has answered

admissionVars == <<batchRows, runs, allowance, request>>

\* new_run_id and new_batch_id: never used before.  When the bound on ids is
\* reached, all that becomes of a request is that its handler dies (OutOfIds).
FreshId(ids) == CHOOSE id \in ids : TRUE

\* put_batch writes META with the first rows, then the other rows.
Absent == 0   Listed == 1   Whole == 2

Processors == {"vulnerable", "protected"}
Terminal == {"COMPLETED", "FAILED"}
Refusals == {"CONFLICT", "LIMITED"}          \* HTTP 409 and 429
Answers == {"OK", "ERROR"} \cup Refusals

\* An experiment is its definition, addressed by its content.
ExperimentOn(b) == [batch |-> b]
Experiments == {ExperimentOn(b) : b \in Batches}

RunStates == [experiment : Experiments, processor : Processors,
              status : {"QUEUED", "RUNNING", "COMPLETED", "FAILED"},
              execution : {"NONE", "RUNNING", "ENDED"}]

ASSUME NoOneAssumption ==
    NoOne \notin Answers /\ NoOne \notin Batches \cup Experiments /\ NoOne \notin RunStates

\* A run of the demo test that somebody has just started.
DemoRun == [experiment |-> ExperimentOn(DemoBatch), processor |-> "vulnerable",
            status |-> "QUEUED", execution |-> "RUNNING"]

\* The deployment seeds the demo batch.  Others have started some runs already,
\* and a handler may have died with a batch of theirs.
AdmissionInit(executing, listed) ==
    /\ batchRows = [b \in Batches |->
          IF b = DemoBatch THEN Whole ELSE IF listed THEN Listed ELSE Absent]
    /\ \E others \in SUBSET Runs :
          /\ Cardinality(others) = executing
          /\ runs = [r \in Runs |-> IF r \in others THEN DemoRun ELSE NoOne]
    /\ allowance = executing
    /\ request = [q \in Requests |-> NoOne]

Stored == {r \in Runs : runs[r] # NoOne}
Unused == Runs \ Stored
Unwritten == {b \in Batches : batchRows[b] = Absent}
Executing == {r \in Stored : runs[r].execution = "RUNNING"}
Active == {r \in Stored : runs[r].status \notin Terminal}   \* overview: active_runs

-----------------------------------------------------------------------------
(* Requests.  subject is what the body names, made what the handler wrote. *)

\* by is the caller's business: what it will do with the answer.
Post(q, kind, subject, by) ==
    /\ q = FreshId({free \in Requests : request[free] = NoOne} \cup {q})
    /\ request[q] = NoOne
    /\ request' = [request EXCEPT ![q] =
          [kind |-> kind, subject |-> subject, by |-> by, step |-> "ARRIVED",
           made |-> NoOne, answer |-> NoOne]]

Serving(q, kind, step) ==
    request[q] # NoOne /\ request[q].kind = kind /\ request[q].step = step

Onward(q, step) == request' = [request EXCEPT ![q].step = step]

OnwardWith(q, step, made) ==
    request' = [request EXCEPT ![q].step = step, ![q].made = made]

Answer(q, answer) ==
    request' = [request EXCEPT ![q].step = "ANSWERED", ![q].answer = answer]

\* POST /batches: a CSV with a problem is refused; the id is fresh; META is in the
\* first chunk written.  subject says what the parser finds.
RefuseBatch(q) ==
    /\ Serving(q, "BATCH", "ARRIVED") /\ request[q].subject = "invalid"
    /\ Answer(q, "ERROR")
    /\ UNCHANGED <<batchRows, runs, allowance>>

\* Batches and experiments have hourly allowances too, which others may have used.
LimitCreation(q) ==
    /\ Serving(q, "BATCH", "ARRIVED") \/ Serving(q, "EXPERIMENT", "ARRIVED")
    /\ request[q].subject # "invalid"
    /\ Answer(q, "LIMITED")
    /\ UNCHANGED <<batchRows, runs, allowance>>

ListBatch(q) ==
    /\ Serving(q, "BATCH", "ARRIVED") /\ request[q].subject = "valid"
    /\ Unwritten # {}
    /\ batchRows' = [batchRows EXCEPT ![FreshId(Unwritten)] = Listed]
    /\ OnwardWith(q, "ROWS", FreshId(Unwritten))
    /\ UNCHANGED <<runs, allowance>>

WriteRows(q) ==
    /\ Serving(q, "BATCH", "ROWS")
    /\ batchRows' = [batchRows EXCEPT ![request[q].made] = Whole]
    /\ Answer(q, "OK")
    /\ UNCHANGED <<runs, allowance>>

\* POST /experiments: the batch is read back and must have its recorded hash.
DefineIf(q, accepted) ==
    /\ Serving(q, "EXPERIMENT", "ARRIVED")
    /\ request' = [request EXCEPT ![q].step = "ANSWERED",
                      ![q].made = IF accepted THEN ExperimentOn(request[q].subject) ELSE NoOne,
                      ![q].answer = IF accepted THEN "OK" ELSE "CONFLICT"]
    /\ UNCHANGED <<batchRows, runs, allowance>>

DefineListed(q) == DefineIf(q, batchRows[request[q].subject] # Absent)  \* mutant: no hash check
Define(q) == DefineIf(q, request[q] # NoOne /\ batchRows[request[q].subject] = Whole)

\* POST /runs, one request after the other.
CountRunningBelow(q, limit) ==
    /\ Serving(q, "RUN", "ARRIVED")
    /\ IF Cardinality(Executing) >= limit
       THEN Answer(q, "CONFLICT") ELSE Onward(q, "CONSUME")
    /\ UNCHANGED <<batchRows, runs, allowance>>

CountOneTooMany(q) == CountRunningBelow(q, MaxActiveRuns + 1)   \* mutant
CountRunning(q) == CountRunningBelow(q, MaxActiveRuns)

ConsumeBelow(q, limit) ==
    /\ Serving(q, "RUN", "CONSUME")
    /\ IF allowance < limit
       THEN allowance' = allowance + 1 /\ Onward(q, "CREATE")
       ELSE Answer(q, "LIMITED") /\ UNCHANGED allowance
    /\ UNCHANGED <<batchRows, runs>>

ConsumeOneTooMany(q) == ConsumeBelow(q, RunsPerHour + 1)   \* mutant
Consume(q) == ConsumeBelow(q, RunsPerHour)

\* The answer to the update was lost, and the SDK sends it again.
ConsumeAgain(q) ==
    /\ Serving(q, "RUN", "CONSUME")
    /\ allowance < RunsPerHour
    /\ allowance' = allowance + 1
    /\ UNCHANGED <<batchRows, runs, request>>

CreateRun(q) ==
    /\ Serving(q, "RUN", "CREATE")
    /\ Unused # {}
    /\ runs' = [runs EXCEPT ![FreshId(Unused)] =
          [experiment |-> request[q].subject.experiment,
           processor |-> request[q].subject.processor,
           status |-> "QUEUED", execution |-> "NONE"]]
    /\ OnwardWith(q, "START", FreshId(Unused))
    /\ UNCHANGED <<batchRows, allowance>>

StartExecution(q) ==
    /\ Serving(q, "RUN", "START")
    /\ runs' = [runs EXCEPT ![request[q].made].execution = "RUNNING"]
    /\ Onward(q, "LINK")
    /\ UNCHANGED <<batchRows, allowance>>

\* start_run raises: nothing was started, or only the answer was lost.
StartRaises(q) ==
    /\ Serving(q, "RUN", "START")
    /\ \E state \in {"NONE", "RUNNING"} :
          runs' = [runs EXCEPT ![request[q].made].execution = state]
    /\ Onward(q, "RECORD_FAILURE")
    /\ UNCHANGED <<batchRows, allowance>>

RecordStartFailure(q) ==
    /\ Serving(q, "RUN", "RECORD_FAILURE")
    /\ runs' = [runs EXCEPT ![request[q].made].status = "FAILED"]
    /\ Answer(q, "ERROR")
    /\ UNCHANGED <<batchRows, allowance>>

\* Mutant: the whole item is written back with its execution.
LinkWholeItem(q) ==
    /\ Serving(q, "RUN", "LINK")
    /\ runs' = [runs EXCEPT ![request[q].made].status = "QUEUED"]
    /\ Answer(q, "OK")
    /\ UNCHANGED <<batchRows, allowance>>

\* The update of sfn_execution_arn touches nothing else.
Link(q) ==
    /\ Serving(q, "RUN", "LINK")
    /\ Answer(q, "OK")
    /\ UNCHANGED <<batchRows, runs, allowance>>

\* The handler dies or its answer is lost: the caller sees a 5xx or no answer.
HandlerDies(q) ==
    /\ request[q] # NoOne /\ request[q].step # "ANSWERED"
    /\ Answer(q, "ERROR")
    /\ UNCHANGED <<batchRows, runs, allowance>>

OutOfIds(q) ==
    /\ \/ Serving(q, "RUN", "CREATE") /\ Unused = {}
       \/ Serving(q, "BATCH", "ARRIVED") /\ Unwritten = {} /\ request[q].subject = "valid"
    /\ Answer(q, "ERROR")
    /\ UNCHANGED <<batchRows, runs, allowance>>

Handle(q) ==
    \/ RefuseBatch(q) \/ ListBatch(q) \/ WriteRows(q)
    \/ LimitCreation(q) \/ Define(q)
    \/ CountRunning(q) \/ Consume(q)
    \/ CreateRun(q) \/ StartExecution(q) \/ StartRaises(q)
    \/ RecordStartFailure(q) \/ Link(q) \/ OutOfIds(q)

-----------------------------------------------------------------------------
(* The executions                                                          *)

InitRun(r) ==
    /\ r \in Executing /\ runs[r].status = "QUEUED"
    /\ runs' = [runs EXCEPT ![r].status = "RUNNING"]
    /\ UNCHANGED <<batchRows, allowance, request>>

EndRun(r) ==
    /\ r \in Executing
    /\ \/ runs[r].status = "RUNNING" /\ runs' = [runs EXCEPT ![r].status = "COMPLETED",
                                                             ![r].execution = "ENDED"]
       \/ runs' = [runs EXCEPT ![r].status = "FAILED", ![r].execution = "ENDED"]
    /\ UNCHANGED <<batchRows, allowance, request>>

Execute(r) == InitRun(r) \/ EndRun(r)

AdmissionTypeOK ==
    /\ batchRows \in [Batches -> {Absent, Listed, Whole}]
    /\ runs \in [Runs -> RunStates \cup {NoOne}]
    /\ allowance \in 0 .. RunsPerHour

-----------------------------------------------------------------------------
(* What the endpoints owe everyone                                         *)

\* The hourly allowance is checked and counted in one update: however many
\* handlers run at once, and although the SDK may take a slot twice, every run
\* created has a slot and no hour has more runs than its allowance.
NoRunBeyondAllowance ==
    /\ Cardinality(Stored) <= allowance
    /\ allowance <= RunsPerHour

\* count_running is a separate request, so the cap can be exceeded, but by no
\* more than the handlers that counted before the others started.
PastTheCap == {q \in Requests : \E s \in {"CONSUME", "CREATE", "START"} : Serving(q, "RUN", s)}
CapExceededOnlyByOverlap ==
    Cardinality(Executing) + Cardinality(PastTheCap) < MaxActiveRuns + Cardinality(Requests)

\* No run is ever of a batch that is only partly in the table, though such a
\* batch is listed for everyone to choose.
RunsHaveWholeBatches ==
    \A r \in Stored : batchRows[runs[r].experiment.batch] = Whole
=============================================================================
