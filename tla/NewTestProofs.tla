--------------------------- MODULE NewTestProofs ---------------------------
(***************************************************************************)
(* What the API's write endpoints owe everyone (RunAdmission) and what the  *)
(* wizard owes its visitor (NewTest, CsvCheck), for any number of requests, *)
(* runs, batches and texts.  The invariant says of every request what its   *)
(* handler has already done: a slot taken, a run or a batch written, an     *)
(* experiment that was checked against its rows.                            *)
(***************************************************************************)
EXTENDS NewTest, FiniteSetTheorems, TLAPS

Steps == {"ARRIVED", "ROWS", "CONSUME", "CREATE", "START", "LINK", "RECORD_FAILURE", "ANSWERED"}
Starters == {"runBoth", "runBothThen", "runOne", "second"}
Starts == [experiment : Experiments, processor : Processors]

RequestsOf(kind, whats, subjects, things) ==
    [kind : {kind}, subject : subjects,
     by : [what : whats, mounted : BOOLEAN, after : Runs \cup {NoOne}],
     step : Steps, made : things \cup {NoOne}, answer : Answers \cup {NoOne}]
BatchRequests == RequestsOf("BATCH", {"createBatch"}, {"valid", "invalid"}, Batches)
ExperimentRequests == RequestsOf("EXPERIMENT", {"createExperiment"}, Batches, Experiments)
StartRequests == RequestsOf("RUN", Starters, Starts, Runs)

WholeIn(rows, e) == e \in Experiments /\ rows[e.batch] = Whole

\* What a request's handler has done so far, given the tables.
RequestOK(m, rows, items) ==
    /\ m.kind \in {"BATCH", "EXPERIMENT", "RUN"}
    /\ m.kind = "BATCH" =>
          /\ m \in BatchRequests
          /\ m.step = "ROWS" \/ m.answer = "OK" => m.made \in Batches
    /\ m.kind = "EXPERIMENT" =>
          /\ m \in ExperimentRequests
          /\ m.answer = "OK" => WholeIn(rows, m.made)
    /\ m.kind = "RUN" =>
          /\ m \in StartRequests
          /\ WholeIn(rows, m.subject.experiment)
          /\ m.step \in {"START", "LINK", "RECORD_FAILURE"} \/ m.answer = "OK" =>
                m.made \in Runs /\ items[m.made] # NoOne

RequestsOK ==
    /\ DOMAIN request = Requests
    /\ \A q \in Requests : request[q] = NoOne \/ RequestOK(request[q], batchRows, runs)

\* A handler that has taken its slot and not created its run yet.
Creating == {q \in Requests : Serving(q, "RUN", "CREATE")}
SlotsCounted == Cardinality(Stored) + Cardinality(Creating) <= allowance

TablesOK == AdmissionTypeOK /\ RequestsOK /\ batchRows[DemoBatch] = Whole /\ RunsHaveWholeBatches
CountsOK == SlotsCounted /\ CapExceededOnlyByOverlap
AdmissionInv == TablesOK /\ CountsOK

\* The step has what it needs, and so will it when an experiment is answered.
FormOK ==
    /\ batch \in Batches \cup {NoOne} /\ experiment \in Experiments \cup {NoOne}
    /\ busy \in {Idle, "create", "both", "one", "second"}
    /\ overview \in 0 .. Cardinality(Runs)
    /\ first \in Runs \cup {NoOne}
    /\ step \in 1 .. 3
    /\ step >= 2 => batch # NoOne
    /\ step = 3 => experiment # NoOne
    /\ experiment # NoOne => WholeIn(batchRows, experiment)
ExperimentsHaveBatches ==
    page = Here => \A q \in Requests :
        request[q] # NoOne /\ request[q].kind = "EXPERIMENT" => batch # NoOne

\* A check that is not cancelled is of the text in the box, and once no check is
\* due or on its way, so is the preview.
CsvOK ==
    /\ CsvTypeOK
    /\ \A check \in csv.checks : check.cancelled \/ check.of = csv.text
    /\ csv.text \in Checkable /\ ~csv.timer /\ ~csv.error
       /\ (\A check \in csv.checks : check.cancelled) => csv.preview \subseteq {csv.text}

TestInv == AdmissionInv /\ FormOK /\ ExperimentsHaveBatches /\ CsvOK

-----------------------------------------------------------------------------
(* The form of "Upload a CSV"                                              *)

\* A form that is empty has nothing on its way.
LEMMA EmptyFormOK == csv = EmptyForm => CsvOK
  BY CsvAssumption DEF EmptyForm, CsvOK, CsvTypeOK, Checks, Checkable

\* Another text cancels every check: what was sent for the old one is ignored.
LEMMA TypingKeepsCsv ==
    ASSUME CsvOK, NEW text \in Texts, NEW reading \in SUBSET Texts,
           csv' = [setText(csv, text) EXCEPT !.reading = reading]
    PROVE  CsvOK'
<1> DEFINE cancelled == {[check EXCEPT !.cancelled = TRUE] : check \in csv.checks}
<1>1. CASE text = csv.text
  <2>1. csv' = [csv EXCEPT !.reading = reading]
    BY <1>1 DEF setText
  <2> QED
    BY <2>1 DEF CsvOK, CsvTypeOK
<1>2. CASE text # csv.text
  <2>1. PICK timer \in BOOLEAN : timer = (text \in Checkable)
    <3>1. CASE text \in Checkable
      <4>1. TRUE = (text \in Checkable)
        BY <3>1
      <4> QED
        BY <4>1
    <3>2. CASE text \notin Checkable
      <4>1. FALSE = (text \in Checkable)
        BY <3>2
      <4> QED
        BY <4>1
    <3> QED
      BY <3>1, <3>2
  <2>5. csv' = [[csv EXCEPT !.text = text, !.timer = timer, !.checks = cancelled]
                  EXCEPT !.reading = reading]
    BY <1>2, <2>1 DEF setText
  <2>2. cancelled \in SUBSET Checks /\ \A check \in cancelled : check.cancelled
    <3>1. \A check \in csv.checks : [check EXCEPT !.cancelled = TRUE] \in Checks
      BY DEF CsvOK, CsvTypeOK, Checks
    <3>2. \A check \in csv.checks : [check EXCEPT !.cancelled = TRUE].cancelled
      BY DEF CsvOK, CsvTypeOK, Checks
    <3> QED
      BY <3>1, <3>2
  <2> HIDE DEF cancelled
  <2>3. csv'.text = text /\ csv'.timer = (text \in Checkable) /\ csv'.checks = cancelled
    BY <2>1, <2>5 DEF CsvOK, CsvTypeOK
  <2>4. CsvTypeOK'
    BY <2>2, <2>5 DEF CsvOK, CsvTypeOK
  <2> QED
    BY <2>2, <2>3, <2>4 DEF CsvOK
<1> QED
  BY <1>1, <1>2

\* Nothing the visitor or the server does to the form leaves the preview of
\* another text.
LEMMA EditingKeepsCsv ==
    ASSUME CsvOK,
           \/ FileRead \/ CheckStarts
           \/ \E check \in csv.checks : CheckAnswered(check) \/ CheckFails(check)
           \/ \E text \in Texts : Type(text) \/ ChooseFile(text)
    PROVE  CsvOK'
<1>1. CASE FileRead
  <2>1. PICK text \in csv.reading : csv' = [setText(csv, text) EXCEPT !.reading = {}]
    BY <1>1 DEF FileRead
  <2> QED
    BY <2>1, TypingKeepsCsv DEF CsvOK, CsvTypeOK
<1>2. CASE CheckStarts
  <2>1. PICK sent : sent = [of |-> csv.text, cancelled |-> FALSE]
    OBVIOUS
  <2>2. sent \in Checks /\ sent.of = csv.text /\ sent.cancelled = FALSE
    BY <2>1 DEF CsvOK, CsvTypeOK, Checks
  <2>5. csv' = [csv EXCEPT !.timer = FALSE, !.checking = TRUE, !.checks = csv.checks \cup {sent}]
    BY <1>2, <2>1 DEF CheckStarts
  <2>3. CsvTypeOK'
    BY <2>2, <2>5 DEF CsvOK, CsvTypeOK
  <2>4. csv'.text = csv.text /\ csv'.checks = csv.checks \cup {sent}
    BY <2>5 DEF CsvOK, CsvTypeOK
  <2> QED
    BY <2>2, <2>3, <2>4 DEF CsvOK
<1>3. ASSUME NEW check \in csv.checks, CheckAnswered(check) PROVE CsvOK'
  <2>1. CASE check.cancelled
    <3>1. csv' = [csv EXCEPT !.checks = csv.checks \ {check}]
      BY <1>3, <2>1 DEF CheckAnswered, AnsweredUnless
    <3> QED
      BY <2>1, <3>1 DEF CsvOK, CsvTypeOK
  <2>2. CASE ~check.cancelled
    <3>1. csv' = [[csv EXCEPT !.checks = csv.checks \ {check}]
                    EXCEPT !.preview = {check.of}, !.error = FALSE, !.checking = FALSE]
      BY <1>3, <2>2 DEF CheckAnswered, AnsweredUnless
    <3>2. check.of = csv.text /\ csv.text \in Texts
      BY <2>2 DEF CsvOK, CsvTypeOK
    <3> QED
      BY <3>1, <3>2 DEF CsvOK, CsvTypeOK
  <2> QED
    BY <2>1, <2>2
<1>4. ASSUME NEW check \in csv.checks, CheckFails(check) PROVE CsvOK'
  <2>1. CASE check.cancelled
    <3>1. csv' = [csv EXCEPT !.checks = csv.checks \ {check}]
      BY <1>4, <2>1 DEF CheckFails
    <3> QED
      BY <2>1, <3>1 DEF CsvOK, CsvTypeOK
  <2>2. CASE ~check.cancelled
    <3>1. csv' = [[csv EXCEPT !.checks = csv.checks \ {check}]
                    EXCEPT !.error = TRUE, !.checking = FALSE]
      BY <1>4, <2>2 DEF CheckFails
    <3> QED
      BY <3>1 DEF CsvOK, CsvTypeOK
  <2> QED
    BY <2>1, <2>2
<1>5. ASSUME NEW text \in Texts, Type(text) PROVE CsvOK'
  <2>1. csv' = [setText(csv, text) EXCEPT !.reading = csv.reading]
    BY <1>5 DEF Type, setText, CsvOK, CsvTypeOK
  <2> QED
    BY <2>1, TypingKeepsCsv DEF CsvOK, CsvTypeOK
<1>6. ASSUME NEW text \in Texts, ChooseFile(text) PROVE CsvOK'
  BY <1>6 DEF ChooseFile, CsvOK, CsvTypeOK
<1> QED
  BY <1>1, <1>2, <1>3, <1>4, <1>5, <1>6

-----------------------------------------------------------------------------
(* Requests                                                                *)

\* A table row that was there stays there, and a whole batch stays whole.
TablesGrow ==
    /\ \A b \in Batches : batchRows[b] = Whole => batchRows'[b] = Whole
    /\ \A r \in Runs : runs[r] # NoOne => runs'[r] # NoOne

LEMMA FreshIdIsOneOfThem == ASSUME NEW ids, ids # {} PROVE FreshId(ids) \in ids
  BY DEF FreshId

LEMMA WholeStaysWhole ==
    ASSUME TablesGrow, NEW e, WholeIn(batchRows, e) PROVE WholeIn(batchRows', e)
  BY DEF TablesGrow, WholeIn, Experiments, ExperimentOn

\* What a handler has done is not undone by what happens to the tables.
LEMMA RequestStaysOK ==
    ASSUME TablesGrow, NEW m, RequestOK(m, batchRows, runs)
    PROVE  RequestOK(m, batchRows', runs')
<1>1. m.kind = "EXPERIMENT" /\ m.answer = "OK" => WholeIn(batchRows', m.made)
  BY WholeStaysWhole DEF RequestOK
<1>2. m.kind = "RUN" => WholeIn(batchRows', m.subject.experiment)
  BY WholeStaysWhole DEF RequestOK
<1> QED
  BY <1>1, <1>2 DEF RequestOK, TablesGrow

LEMMA OneRequest ==
    ASSUME RequestsOK, TablesGrow, NEW q \in Requests, NEW m,
           request' = [request EXCEPT ![q] = m], m = NoOne \/ RequestOK(m, batchRows', runs')
    PROVE  RequestsOK'
<1>1. DOMAIN request' = Requests
  BY DEF RequestsOK
<1>2. request'[q] = NoOne \/ RequestOK(request'[q], batchRows', runs')
  BY DEF RequestsOK
<1>3. ASSUME NEW other \in Requests, other # q
      PROVE  request'[other] = NoOne \/ RequestOK(request'[other], batchRows', runs')
  <2>1. request'[other] = request[other]
    BY <1>3 DEF RequestsOK
  <2> QED
    BY <2>1, RequestStaysOK DEF RequestsOK
<1> QED
  BY <1>1, <1>2, <1>3 DEF RequestsOK

LEMMA SameRequests ==
    ASSUME RequestsOK, TablesGrow, UNCHANGED request PROVE RequestsOK'
  BY RequestStaysOK DEF RequestsOK

\* The same request, later.
MovedTo(m, s) == [m EXCEPT !.step = s]
AnsweredWith(m, a) == [m EXCEPT !.step = "ANSWERED", !.answer = a]
HavingMade(m, s, made) == [m EXCEPT !.step = s, !.made = made]
OrphanOf(m) == [m EXCEPT !.by.mounted = FALSE]

\* When a handler may move on to step s, or answer a, without having written.
MayMove(m, s, items) ==
    /\ m.kind = "BATCH" => s # "ROWS"
    /\ m.kind = "RUN" /\ s \in {"START", "LINK", "RECORD_FAILURE"} =>
          m.made \in Runs /\ items[m.made] # NoOne
MayAnswer(m, a, items) ==
    a = "OK" => /\ m.kind # "EXPERIMENT"
                /\ m.kind = "BATCH" => m.made \in Batches
                /\ m.kind = "RUN" => m.made \in Runs /\ items[m.made] # NoOne

\* A request that moves to another step of its handler.
LEMMA Moved ==
    ASSUME NEW rows, NEW items, NEW m, RequestOK(m, rows, items), NEW s \in Steps,
           MayMove(m, s, items),
           NEW n, n = MovedTo(m, s)
    PROVE  RequestOK(n, rows, items) /\ n.kind = m.kind /\ n.step = s
<1>1. CASE m.kind = "BATCH"
  BY <1>1 DEF MovedTo, MayMove, RequestOK, BatchRequests, RequestsOf
<1>2. CASE m.kind = "EXPERIMENT"
  BY <1>2 DEF MovedTo, MayMove, RequestOK, ExperimentRequests, RequestsOf
<1>3. CASE m.kind = "RUN"
  BY <1>3 DEF MovedTo, MayMove, RequestOK, StartRequests, RequestsOf
<1> QED
  BY <1>1, <1>2, <1>3 DEF MovedTo, RequestOK

\* A request that is answered.
LEMMA Answered ==
    ASSUME NEW rows, NEW items, NEW m, RequestOK(m, rows, items), NEW a \in Answers,
           MayAnswer(m, a, items),
           NEW n, n = AnsweredWith(m, a)
    PROVE  RequestOK(n, rows, items) /\ n.kind = m.kind /\ n.step = "ANSWERED"
<1>1. CASE m.kind = "BATCH"
  BY <1>1 DEF AnsweredWith, MayAnswer, RequestOK, BatchRequests, RequestsOf, Steps
<1>2. CASE m.kind = "EXPERIMENT"
  BY <1>2 DEF AnsweredWith, MayAnswer, RequestOK, ExperimentRequests, RequestsOf, Steps
<1>3. CASE m.kind = "RUN"
  BY <1>3 DEF AnsweredWith, MayAnswer, RequestOK, StartRequests, RequestsOf, Steps
<1> QED
  BY <1>1, <1>2, <1>3 DEF AnsweredWith, RequestOK

\* A request whose handler has written a batch or a run.
LEMMA Written ==
    ASSUME NEW rows, NEW items, NEW m, RequestOK(m, rows, items), NEW s, NEW made,
           \/ m.kind = "BATCH" /\ s = "ROWS" /\ made \in Batches
           \/ m.kind = "RUN" /\ s = "START" /\ made \in Runs /\ items[made] # NoOne,
           NEW n, n = HavingMade(m, s, made)
    PROVE  RequestOK(n, rows, items) /\ n.kind = m.kind /\ n.step = s
<1>1. CASE m.kind = "BATCH"
  BY <1>1 DEF HavingMade, RequestOK, BatchRequests, RequestsOf, Steps
<1>2. CASE m.kind = "RUN"
  BY <1>2 DEF HavingMade, RequestOK, StartRequests, RequestsOf, Steps
<1> QED
  BY <1>1, <1>2

\* A form that is gone is not reported to; nothing else of the request changes.
LEMMA OrphanOK ==
    ASSUME NEW rows, NEW items, NEW m, RequestOK(m, rows, items),
           NEW n, n = OrphanOf(m)
    PROVE  RequestOK(n, rows, items) /\ n.kind = m.kind /\ n.step = m.step
<1>0. PICK by : by = [m.by EXCEPT !.mounted = FALSE]
  OBVIOUS
<1>4. n = [m EXCEPT !.by = by]
  BY <1>0 DEF OrphanOf
<1>1. CASE m.kind = "BATCH"
  BY ONLY <1>0, <1>1, <1>4, RequestOK(m, rows, items) DEF RequestOK, BatchRequests, RequestsOf
<1>2. CASE m.kind = "EXPERIMENT"
  BY ONLY <1>0, <1>2, <1>4, RequestOK(m, rows, items) DEF RequestOK, ExperimentRequests, RequestsOf
<1>3. CASE m.kind = "RUN"
  BY ONLY <1>0, <1>3, <1>4, RequestOK(m, rows, items) DEF RequestOK, StartRequests, RequestsOf
<1> QED
  BY <1>1, <1>2, <1>3 DEF RequestOK

\* The tables a step leaves behind: grown, well typed, every run of a whole batch.
TablesNext == TablesGrow /\ AdmissionTypeOK' /\ RunsHaveWholeBatches'

LEMMA SameTables ==
    ASSUME TablesOK, UNCHANGED <<batchRows, runs>>, allowance' \in 0 .. RunsPerHour
    PROVE  TablesNext
  BY DEF TablesOK, TablesNext, TablesGrow, AdmissionTypeOK, RunsHaveWholeBatches, Stored

LEMMA OneRun ==
    ASSUME TablesOK, UNCHANGED batchRows, allowance' \in 0 .. RunsPerHour,
           NEW r \in Runs, NEW m \in RunStates, batchRows[m.experiment.batch] = Whole,
           runs' = [runs EXCEPT ![r] = m]
    PROVE  TablesNext /\ runs'[r] # NoOne
<1>1. runs' \in [Runs -> RunStates \cup {NoOne}] /\ runs'[r] = m
  BY DEF TablesOK, AdmissionTypeOK
<1>2. \A other \in Runs : other # r => runs'[other] = runs[other]
  BY DEF TablesOK, AdmissionTypeOK
<1>3. m # NoOne
  BY NoOneAssumption
<1>4. \A other \in Runs : runs'[other] # NoOne =>
         other = r \/ (runs[other] # NoOne /\ runs'[other] = runs[other])
  BY <1>2
<1>5. RunsHaveWholeBatches'
  BY <1>1, <1>4 DEF RunsHaveWholeBatches, Stored, TablesOK
<1> QED
  BY <1>1, <1>2, <1>3, <1>5 DEF TablesOK, TablesNext, TablesGrow, AdmissionTypeOK

\* Only the status and the execution of a run ever change.
LEMMA SameRunOtherState ==
    ASSUME TablesOK, UNCHANGED batchRows, allowance' \in 0 .. RunsPerHour,
           NEW r \in Stored, NEW m \in RunStates, m.experiment = runs[r].experiment,
           runs' = [runs EXCEPT ![r] = m]
    PROVE  TablesNext
<1>1. r \in Runs /\ batchRows[m.experiment.batch] = Whole
  BY DEF TablesOK, RunsHaveWholeBatches, Stored
<1> QED
  BY <1>1, OneRun

LEMMA OneBatch ==
    ASSUME TablesOK, UNCHANGED <<runs, allowance>>, NEW b \in Batches, NEW rows \in {Listed, Whole},
           batchRows[b] # Whole \/ rows = Whole, batchRows' = [batchRows EXCEPT ![b] = rows]
    PROVE  TablesNext
<1>1. \A other \in Batches : batchRows[other] = Whole => batchRows'[other] = Whole
  BY DEF TablesOK, AdmissionTypeOK
<1>2. \A r \in Stored : runs[r].experiment.batch \in Batches
  BY DEF TablesOK, AdmissionTypeOK, Stored, RunStates, Experiments, ExperimentOn
<1> QED
  BY <1>1, <1>2
  DEF TablesOK, TablesNext, TablesGrow, AdmissionTypeOK, RunsHaveWholeBatches, Stored

\* What one step of a handler leaves behind.
KindsKept ==
    \A q \in Requests : request'[q] # NoOne =>
        request[q] # NoOne /\ request'[q].kind = request[q].kind
HandledOK == TablesOK' /\ TablesGrow /\ KindsKept

LEMMA RequestHandled ==
    ASSUME TablesOK, TablesNext, NEW q \in Requests, request[q] # NoOne, NEW n,
           request' = [request EXCEPT ![q] = n],
           RequestOK(n, batchRows', runs') /\ n.kind = request[q].kind
    PROVE  HandledOK
<1>1. RequestsOK'
  BY OneRequest DEF TablesOK, TablesNext
<1>2. KindsKept
  BY DEF KindsKept, TablesOK, RequestsOK
<1>3. batchRows'[DemoBatch] = Whole
  BY AdmissionAssumption DEF TablesNext, TablesGrow, TablesOK
<1> QED
  BY <1>1, <1>2, <1>3 DEF HandledOK, TablesOK, TablesNext

LEMMA OnwardHandled ==
    ASSUME TablesOK, TablesNext, NEW q \in Requests, request[q] # NoOne, NEW s \in Steps,
           MayMove(request[q], s, runs'),
           Onward(q, s)
    PROVE  HandledOK
<1>1. PICK m : m = request[q]
  OBVIOUS
<1>2. PICK n : n = MovedTo(m, s)
  OBVIOUS
<1>3. request' = [request EXCEPT ![q] = n]
  BY <1>1, <1>2 DEF Onward, MovedTo
<1>4. RequestOK(m, batchRows', runs')
  BY <1>1, RequestStaysOK DEF TablesOK, TablesNext, RequestsOK
<1>5. MayMove(m, s, runs')
  BY <1>1
<1>6. RequestOK(n, batchRows', runs') /\ n.kind = m.kind
  BY <1>2, <1>4, <1>5, Moved
<1> QED
  BY <1>1, <1>3, <1>6, RequestHandled

LEMMA AnswerHandled ==
    ASSUME TablesOK, TablesNext, NEW q \in Requests, request[q] # NoOne, NEW a \in Answers,
           MayAnswer(request[q], a, runs'),
           Answer(q, a)
    PROVE  HandledOK
<1>1. PICK m : m = request[q]
  OBVIOUS
<1>2. PICK n : n = AnsweredWith(m, a)
  OBVIOUS
<1>3. request' = [request EXCEPT ![q] = n]
  BY <1>1, <1>2 DEF Answer, AnsweredWith
<1>4. RequestOK(m, batchRows', runs')
  BY <1>1, RequestStaysOK DEF TablesOK, TablesNext, RequestsOK
<1>5. MayAnswer(m, a, runs')
  BY <1>1
<1>6. RequestOK(n, batchRows', runs') /\ n.kind = m.kind
  BY <1>2, <1>4, <1>5, Answered
<1> QED
  BY <1>1, <1>3, <1>6, RequestHandled

LEMMA WrittenHandled ==
    ASSUME TablesOK, TablesNext, NEW q \in Requests, request[q] # NoOne, NEW s, NEW made,
           \/ request[q].kind = "BATCH" /\ s = "ROWS" /\ made \in Batches
           \/ request[q].kind = "RUN" /\ s = "START" /\ made \in Runs /\ runs'[made] # NoOne,
           OnwardWith(q, s, made)
    PROVE  HandledOK
<1>1. PICK m : m = request[q]
  OBVIOUS
<1>2. PICK n : n = HavingMade(m, s, made)
  OBVIOUS
<1>3. request' = [request EXCEPT ![q] = n]
  BY <1>1, <1>2 DEF OnwardWith, HavingMade
<1>4. RequestOK(m, batchRows', runs')
  BY <1>1, RequestStaysOK DEF TablesOK, TablesNext, RequestsOK
<1>5. RequestOK(n, batchRows', runs') /\ n.kind = m.kind
  BY <1>1, <1>2, <1>4, Written
<1> QED
  BY <1>1, <1>3, <1>5, RequestHandled

-----------------------------------------------------------------------------
(* The handlers, one by one                                                *)

LEMMA TheAllowanceIsBounded ==
    ASSUME TablesOK, UNCHANGED allowance PROVE allowance' \in 0 .. RunsPerHour
  BY DEF TablesOK, AdmissionTypeOK

\* A handler that answers without having written, or dies, leaves the tables alone.
LEMMA AnsweringKeeps ==
    ASSUME TablesOK, NEW q \in Requests, request[q] # NoOne, UNCHANGED <<batchRows, runs, allowance>>,
           NEW a \in {"ERROR", "LIMITED", "CONFLICT"}, Answer(q, a)
    PROVE  HandledOK
<1>1. TablesNext
  BY SameTables, TheAllowanceIsBounded
<1>2. a \in Answers /\ MayAnswer(request[q], a, runs')
  BY DEF Answers, Refusals, MayAnswer
<1> QED
  BY <1>1, <1>2, AnswerHandled

LEMMA BatchHandlersKeep ==
    ASSUME TablesOK, NEW q \in Requests,
           RefuseBatch(q) \/ LimitCreation(q) \/ ListBatch(q) \/ WriteRows(q)
    PROVE  HandledOK
<1>1. CASE RefuseBatch(q)
  BY <1>1, AnsweringKeeps DEF RefuseBatch, Serving
<1>2. CASE LimitCreation(q)
  BY <1>2, AnsweringKeeps DEF LimitCreation, Serving
<1>3. CASE ListBatch(q)
  <2>1. PICK b : b = FreshId(Unwritten)
    OBVIOUS
  <2>2. b \in Batches /\ batchRows[b] # Whole
    BY <1>3, <2>1, FreshIdIsOneOfThem DEF ListBatch, Unwritten, Absent, Whole
  <2>3. /\ batchRows' = [batchRows EXCEPT ![b] = Listed] /\ UNCHANGED <<runs, allowance>>
        /\ OnwardWith(q, "ROWS", b)
        /\ request[q] # NoOne /\ request[q].kind = "BATCH"
    BY <1>3, <2>1 DEF ListBatch, Serving
  <2>4. TablesNext
    BY <2>2, <2>3, OneBatch
  <2> QED
    BY <2>2, <2>3, <2>4, WrittenHandled
<1>4. CASE WriteRows(q)
  <2>1. PICK b : b = request[q].made
    OBVIOUS
  <2>2. request[q] # NoOne /\ request[q].kind = "BATCH" /\ b \in Batches
    BY <1>4, <2>1 DEF WriteRows, Serving, TablesOK, RequestsOK, RequestOK
  <2>3. /\ batchRows' = [batchRows EXCEPT ![b] = Whole] /\ UNCHANGED <<runs, allowance>>
        /\ Answer(q, "OK")
    BY <1>4, <2>1 DEF WriteRows
  <2>4. TablesNext
    BY <2>2, <2>3, OneBatch
  <2>5. MayAnswer(request[q], "OK", runs') /\ "OK" \in Answers
    BY <2>1, <2>2 DEF MayAnswer, Answers
  <2> QED
    BY <2>2, <2>3, <2>4, <2>5, AnswerHandled
<1> QED
  BY <1>1, <1>2, <1>3, <1>4

\* An experiment is defined only on a batch that is whole, and stays so.
LEMMA DefineKeeps ==
    ASSUME TablesOK, NEW q \in Requests, Define(q) PROVE HandledOK
<1>1. /\ request[q] # NoOne /\ request[q].kind = "EXPERIMENT"
      /\ UNCHANGED <<batchRows, runs, allowance>>
  BY DEF Define, DefineIf, Serving
<1>2. PICK m : m = request[q]
  OBVIOUS
<1>3. TablesNext
  BY <1>1, SameTables, TheAllowanceIsBounded
<1>4. RequestOK(m, batchRows', runs') /\ m.kind = "EXPERIMENT"
  BY <1>1, <1>2, <1>3, RequestStaysOK DEF TablesOK, TablesNext, RequestsOK
<1>5. m.subject \in Batches
  BY <1>4 DEF RequestOK, ExperimentRequests, RequestsOf
<1>6. CASE batchRows[m.subject] = Whole
  <2>1. PICK e : e = ExperimentOn(m.subject)
    OBVIOUS
  <2>2. e \in Experiments /\ WholeIn(batchRows', e)
    BY <1>1, <1>5, <1>6, <2>1 DEF ExperimentOn, Experiments, WholeIn
  <2>3. PICK n : n = [m EXCEPT !.step = "ANSWERED", !.made = e, !.answer = "OK"]
    OBVIOUS
  <2>4. request' = [request EXCEPT ![q] = n]
    BY <1>1, <1>2, <1>6, <2>1, <2>3 DEF Define, DefineIf
  <2>5. RequestOK(n, batchRows', runs') /\ n.kind = m.kind
    BY <1>4, <2>2, <2>3 DEF RequestOK, ExperimentRequests, RequestsOf, Steps, Answers
  <2> QED
    BY <1>1, <1>2, <1>3, <2>4, <2>5, RequestHandled
<1>7. CASE batchRows[m.subject] # Whole
  <2>3. PICK n : n = [m EXCEPT !.step = "ANSWERED", !.made = NoOne, !.answer = "CONFLICT"]
    OBVIOUS
  <2>4. request' = [request EXCEPT ![q] = n]
    BY <1>1, <1>2, <1>7, <2>3 DEF Define, DefineIf
  <2>5. RequestOK(n, batchRows', runs') /\ n.kind = m.kind
    BY <1>4, <2>3 DEF RequestOK, ExperimentRequests, RequestsOf, Steps, Answers, Refusals
  <2> QED
    BY <1>1, <1>2, <1>3, <2>4, <2>5, RequestHandled
<1> QED
  BY <1>6, <1>7

\* Counting the running executions and taking a slot of the allowance.
LEMMA ChecksKeep ==
    ASSUME TablesOK, NEW q \in Requests, CountRunning(q) \/ Consume(q) \/ ConsumeAgain(q)
    PROVE  HandledOK
<1>1. request[q] # NoOne /\ request[q].kind = "RUN" /\ UNCHANGED <<batchRows, runs>>
  BY DEF CountRunning, CountRunningBelow, Consume, ConsumeBelow, ConsumeAgain, Serving
<1>2. allowance' \in 0 .. RunsPerHour
  BY AdmissionAssumption
  DEF TablesOK, AdmissionTypeOK, CountRunning, CountRunningBelow, Consume, ConsumeBelow, ConsumeAgain
<1>3. TablesNext
  BY <1>1, <1>2, SameTables
<1>4. CASE Answer(q, "CONFLICT") \/ Answer(q, "LIMITED")
  <2>1. \A a \in {"CONFLICT", "LIMITED"} : a \in Answers /\ MayAnswer(request[q], a, runs')
    BY DEF Answers, Refusals, MayAnswer
  <2> QED
    BY <1>1, <1>3, <1>4, <2>1, AnswerHandled
<1>5. CASE Onward(q, "CONSUME") \/ Onward(q, "CREATE")
  <2>1. \A s \in {"CONSUME", "CREATE"} : s \in Steps /\ MayMove(request[q], s, runs')
    BY <1>1 DEF Steps, MayMove
  <2> QED
    BY <1>1, <1>3, <1>5, <2>1, OnwardHandled
<1>6. CASE UNCHANGED request
  BY <1>3, <1>6, SameRequests, AdmissionAssumption
  DEF HandledOK, KindsKept, TablesOK, TablesNext, TablesGrow
<1> QED
  BY <1>4, <1>5, <1>6 DEF CountRunning, CountRunningBelow, Consume, ConsumeBelow, ConsumeAgain

\* The run of a request is in the table from its creation on.
LEMMA MadeIsStored ==
    ASSUME TablesOK, NEW q \in Requests,
           Serving(q, "RUN", "START") \/ Serving(q, "RUN", "LINK") \/ Serving(q, "RUN", "RECORD_FAILURE")
    PROVE  request[q].made \in Stored /\ runs[request[q].made] \in RunStates
  BY DEF TablesOK, RequestsOK, RequestOK, Serving, Stored, AdmissionTypeOK

LEMMA CreateRunKeeps ==
    ASSUME TablesOK, NEW q \in Requests, CreateRun(q) PROVE HandledOK
<1>1. PICK r : r = FreshId(Unused)
  OBVIOUS
<1>2. r \in Runs
  BY <1>1, FreshIdIsOneOfThem DEF CreateRun, Unused
<1>3. request[q] # NoOne /\ request[q].kind = "RUN" /\ UNCHANGED <<batchRows, allowance>>
  BY DEF CreateRun, Serving
<1>4. PICK m : m = [experiment |-> request[q].subject.experiment,
                    processor |-> request[q].subject.processor,
                    status |-> "QUEUED", execution |-> "NONE"]
  OBVIOUS
<1>5. runs' = [runs EXCEPT ![r] = m] /\ OnwardWith(q, "START", r)
  BY <1>1, <1>4 DEF CreateRun
<1>6. request[q].subject \in Starts /\ WholeIn(batchRows, request[q].subject.experiment)
  BY <1>3 DEF TablesOK, RequestsOK, RequestOK, StartRequests, RequestsOf
<1>7. m \in RunStates /\ batchRows[m.experiment.batch] = Whole
  BY <1>4, <1>6 DEF RunStates, Starts, WholeIn
<1>8. TablesNext /\ runs'[r] # NoOne
  BY <1>2, <1>3, <1>5, <1>7, OneRun, TheAllowanceIsBounded
<1> QED
  BY <1>2, <1>3, <1>5, <1>8, WrittenHandled

\* Only the status or the execution of the request's run is written.
LEMMA StartKeeps ==
    ASSUME TablesOK, NEW q \in Requests,
           StartExecution(q) \/ StartRaises(q) \/ RecordStartFailure(q) \/ Link(q)
    PROVE  HandledOK
<1>1. PICK r : r = request[q].made
  OBVIOUS
<1>2. /\ request[q] # NoOne /\ request[q].kind = "RUN" /\ r \in Stored /\ runs[r] \in RunStates
      /\ UNCHANGED <<batchRows, allowance>>
  BY <1>1, MadeIsStored DEF StartExecution, StartRaises, RecordStartFailure, Link, Serving
<1>3. PICK old : old = runs[r]
  OBVIOUS
<1>4. PICK new \in RunStates : runs' = [runs EXCEPT ![r] = new] /\ new.experiment = old.experiment
  <2>1. ASSUME NEW state \in {"NONE", "RUNNING"}, runs' = [runs EXCEPT ![r].execution = state]
        PROVE  \E new \in RunStates : runs' = [runs EXCEPT ![r] = new] /\ new.experiment = old.experiment
    <3>1. PICK new : new = [old EXCEPT !.execution = state]
      OBVIOUS
    <3>2. new \in RunStates /\ new.experiment = old.experiment
      BY <1>2, <1>3, <3>1 DEF RunStates
    <3>3. runs' = [runs EXCEPT ![r] = new]
      BY <1>3, <2>1, <3>1
    <3> QED
      BY <3>2, <3>3
  <2>2. ASSUME runs' = [runs EXCEPT ![r].status = "FAILED"]
        PROVE  \E new \in RunStates : runs' = [runs EXCEPT ![r] = new] /\ new.experiment = old.experiment
    <3>1. PICK new : new = [old EXCEPT !.status = "FAILED"]
      OBVIOUS
    <3>2. new \in RunStates /\ new.experiment = old.experiment
      BY <1>2, <1>3, <3>1 DEF RunStates
    <3>3. runs' = [runs EXCEPT ![r] = new]
      BY <1>3, <2>2, <3>1
    <3> QED
      BY <3>2, <3>3
  <2>3. ASSUME runs' = runs
        PROVE  \E new \in RunStates : runs' = [runs EXCEPT ![r] = new] /\ new.experiment = old.experiment
    <3>1. runs' = [runs EXCEPT ![r] = old]
      BY <1>2, <1>3, <2>3 DEF TablesOK, AdmissionTypeOK, Stored
    <3> QED
      BY <1>2, <1>3, <3>1
  <2> QED
    BY <1>1, <2>1, <2>2, <2>3 DEF StartExecution, StartRaises, RecordStartFailure, Link
<1>5. TablesNext
  BY <1>2, <1>3, <1>4, SameRunOtherState, TheAllowanceIsBounded
<1>6. r \in Runs /\ runs'[r] # NoOne
  BY <1>2, <1>5 DEF Stored, TablesNext, TablesGrow
<1>7. \A s \in {"LINK", "RECORD_FAILURE"} : s \in Steps /\ MayMove(request[q], s, runs')
  BY <1>1, <1>2, <1>6 DEF MayMove, Steps
<1>8. \A a \in {"OK", "ERROR"} : a \in Answers /\ MayAnswer(request[q], a, runs')
  BY <1>1, <1>2, <1>6 DEF MayAnswer, Answers
<1>9. CASE Onward(q, "LINK") \/ Onward(q, "RECORD_FAILURE")
  BY <1>2, <1>5, <1>7, <1>9, OnwardHandled
<1>10. CASE Answer(q, "OK") \/ Answer(q, "ERROR")
  BY <1>2, <1>5, <1>8, <1>10, AnswerHandled
<1> QED
  BY <1>9, <1>10 DEF StartExecution, StartRaises, RecordStartFailure, Link

LEMMA HandlersKeep ==
    ASSUME TablesOK, NEW q \in Requests, Handle(q) \/ HandlerDies(q) \/ ConsumeAgain(q)
    PROVE  HandledOK
<1>1. CASE HandlerDies(q) \/ OutOfIds(q)
  BY <1>1, AnsweringKeeps DEF HandlerDies, OutOfIds, Serving
<1> QED
  BY <1>1, BatchHandlersKeep, DefineKeeps, ChecksKeep, CreateRunKeeps, StartKeeps DEF Handle

LEMMA ExecutionsKeep ==
    ASSUME TablesOK, NEW r \in Runs, Execute(r) PROVE HandledOK
<1>1. r \in Stored /\ runs[r] \in RunStates /\ UNCHANGED <<batchRows, allowance, request>>
  BY DEF Execute, InitRun, EndRun, Executing, Stored, TablesOK, AdmissionTypeOK
<1>2. PICK old : old = runs[r]
  OBVIOUS
<1>3. PICK new \in RunStates : runs' = [runs EXCEPT ![r] = new] /\ new.experiment = old.experiment
  <2>1. CASE InitRun(r)
    <3>1. PICK new : new = [old EXCEPT !.status = "RUNNING"]
      OBVIOUS
    <3>2. new \in RunStates /\ new.experiment = old.experiment
      BY <1>1, <1>2, <3>1 DEF RunStates
    <3>3. runs' = [runs EXCEPT ![r] = new]
      BY <1>2, <2>1, <3>1 DEF InitRun
    <3> QED
      BY <3>2, <3>3
  <2>2. ASSUME NEW status \in {"COMPLETED", "FAILED"},
               runs' = [runs EXCEPT ![r].status = status, ![r].execution = "ENDED"]
        PROVE  \E new \in RunStates : runs' = [runs EXCEPT ![r] = new] /\ new.experiment = old.experiment
    <3>1. PICK new : new = [old EXCEPT !.status = status, !.execution = "ENDED"]
      OBVIOUS
    <3>2. new \in RunStates /\ new.experiment = old.experiment
      BY <1>1, <1>2, <3>1 DEF RunStates
    <3>3. runs' = [runs EXCEPT ![r] = new]
      BY <1>1, <1>2, <2>2, <3>1 DEF TablesOK, AdmissionTypeOK
    <3> QED
      BY <3>2, <3>3
  <2> QED
    BY <2>1, <2>2 DEF Execute, EndRun
<1>4. TablesNext
  BY <1>1, <1>2, <1>3, SameRunOtherState, TheAllowanceIsBounded
<1> QED
  BY <1>1, <1>4, SameRequests, AdmissionAssumption
  DEF HandledOK, KindsKept, TablesOK, TablesNext, TablesGrow

LEMMA DemoRunTypes == DemoRun \in RunStates /\ DemoRun.experiment.batch = DemoBatch
  BY AdmissionAssumption DEF DemoRun, RunStates, ExperimentOn, Experiments, Processors

LEMMA OthersKeep ==
    ASSUME TablesOK, SomeoneStarts PROVE HandledOK
<1>1. PICK r : r = FreshId(Unused)
  OBVIOUS
<1>2. r \in Runs
  BY <1>1, FreshIdIsOneOfThem DEF SomeoneStarts, Unused
<1>3. runs' = [runs EXCEPT ![r] = DemoRun] /\ UNCHANGED <<batchRows, request>>
  BY <1>1 DEF SomeoneStarts
<1>4. allowance' \in 0 .. RunsPerHour
  BY AdmissionAssumption DEF SomeoneStarts, TablesOK, AdmissionTypeOK
<1>5. batchRows[DemoRun.experiment.batch] = Whole
  BY DemoRunTypes DEF TablesOK
<1>6. TablesNext
  BY <1>2, <1>3, <1>4, <1>5, DemoRunTypes, OneRun
<1> QED
  BY <1>3, <1>6, SameRequests, AdmissionAssumption
  DEF HandledOK, KindsKept, TablesOK, TablesNext, TablesGrow

-----------------------------------------------------------------------------
(* The counts                                                              *)

LEMMA FiniteCounts ==
    /\ IsFiniteSet(Stored) /\ IsFiniteSet(Executing) /\ IsFiniteSet(Active)
    /\ IsFiniteSet(Creating) /\ IsFiniteSet(PastTheCap)
    /\ \A s \in {Cardinality(Stored), Cardinality(Executing), Cardinality(Active),
                 Cardinality(Creating), Cardinality(PastTheCap)} : s \in Nat
<1>1. /\ Stored \in SUBSET Runs /\ Executing \in SUBSET Runs /\ Active \in SUBSET Runs
      /\ Creating \in SUBSET Requests /\ PastTheCap \in SUBSET Requests
  BY DEF Stored, Executing, Active, Creating, PastTheCap
<1>2. /\ IsFiniteSet(Stored) /\ IsFiniteSet(Executing) /\ IsFiniteSet(Active)
      /\ IsFiniteSet(Creating) /\ IsFiniteSet(PastTheCap)
  BY <1>1, FS_Subset, AdmissionAssumption
<1> QED
  BY <1>2, FS_CardinalityType

LEMMA FiniteCountsNext ==
    /\ IsFiniteSet(Stored') /\ IsFiniteSet(Executing')
    /\ IsFiniteSet(Creating') /\ IsFiniteSet(PastTheCap')
    /\ \A s \in {Cardinality(Stored'), Cardinality(Executing'),
                 Cardinality(Creating'), Cardinality(PastTheCap')} : s \in Nat
<1>1. /\ Stored' \in SUBSET Runs /\ Executing' \in SUBSET Runs
      /\ Creating' \in SUBSET Requests /\ PastTheCap' \in SUBSET Requests
  BY DEF Stored, Executing, Creating, PastTheCap
<1>2. /\ IsFiniteSet(Stored') /\ IsFiniteSet(Executing')
      /\ IsFiniteSet(Creating') /\ IsFiniteSet(PastTheCap')
  BY <1>1, FS_Subset, AdmissionAssumption
<1> QED
  BY <1>2, FS_CardinalityType

LEMMA NoMore ==
    ASSUME NEW S, IsFiniteSet(S), NEW T \in SUBSET S
    PROVE  Cardinality(T) <= Cardinality(S)
  BY FS_Subset

LEMMA OneMore ==
    ASSUME NEW S, IsFiniteSet(S), NEW x, NEW T \in SUBSET (S \cup {x})
    PROVE  Cardinality(T) <= Cardinality(S) + 1
<1>1. /\ IsFiniteSet(S \cup {x}) /\ Cardinality(S) \in Nat
      /\ Cardinality(S \cup {x}) \in {Cardinality(S), Cardinality(S) + 1}
  BY FS_AddElement, FS_CardinalityType
<1>2. IsFiniteSet(T) /\ Cardinality(T) <= Cardinality(S \cup {x}) /\ Cardinality(T) \in Nat
  BY <1>1, FS_Subset, FS_CardinalityType
<1> QED
  BY <1>1, <1>2

LEMMA OneLess ==
    ASSUME NEW S, IsFiniteSet(S), NEW x \in S, NEW T \in SUBSET (S \ {x})
    PROVE  Cardinality(T) + 1 <= Cardinality(S)
<1>1. /\ IsFiniteSet(S \ {x}) /\ Cardinality(S) \in Nat
      /\ Cardinality(S \ {x}) = Cardinality(S) - 1
  BY FS_RemoveElement, FS_CardinalityType
<1>2. IsFiniteSet(T) /\ Cardinality(T) <= Cardinality(S \ {x}) /\ Cardinality(T) \in Nat
  BY <1>1, FS_Subset, FS_CardinalityType
<1> QED
  BY <1>1, <1>2

\* Where a request of each kind is, after one of them has become m.
LEMMA OtherRequestsStand ==
    ASSUME RequestsOK, NEW q \in Requests, NEW m, request' = [request EXCEPT ![q] = m]
    PROVE  /\ Creating' \subseteq Creating \cup {q} /\ PastTheCap' \subseteq PastTheCap \cup {q}
           /\ m.step # "CREATE" => q \notin Creating'
           /\ m.step \notin {"CONSUME", "CREATE", "START"} => q \notin PastTheCap'
<1>1. request'[q] = m /\ \A other \in Requests : other # q => request'[other] = request[other]
  BY DEF RequestsOK
<1> QED
  BY <1>1 DEF Creating, PastTheCap, Serving

\* The cap has room for everything that is not counted yet.
LEMMA QuietCounts ==
    ASSUME TablesOK, CountsOK, allowance' \in 0 .. RunsPerHour, allowance <= allowance',
           Stored' \subseteq Stored, Executing' \subseteq Executing,
           Creating' \subseteq Creating, PastTheCap' \subseteq PastTheCap
    PROVE  CountsOK'
<1>1. /\ Cardinality(Stored') <= Cardinality(Stored) /\ Cardinality(Executing') <= Cardinality(Executing)
      /\ Cardinality(Creating') <= Cardinality(Creating)
      /\ Cardinality(PastTheCap') <= Cardinality(PastTheCap)
  BY FiniteCounts, NoMore
<1>2. PICK held \in Nat : held = Cardinality(Requests)
  BY AdmissionAssumption, FS_CardinalityType
<1> QED
  BY <1>1, <1>2, FiniteCounts, FiniteCountsNext, AdmissionAssumption
  DEF TablesOK, AdmissionTypeOK, CountsOK, SlotsCounted, CapExceededOnlyByOverlap

LEMMA StepIs ==
    ASSUME NEW rows, NEW items, NEW m, RequestOK(m, rows, items), NEW s, NEW made, NEW a
    PROVE  /\ MovedTo(m, s).step = s /\ HavingMade(m, s, made).step = s
           /\ AnsweredWith(m, a).step = "ANSWERED"
<1>1. CASE m.kind = "BATCH"
  BY <1>1 DEF RequestOK, BatchRequests, RequestsOf, MovedTo, HavingMade, AnsweredWith
<1>2. CASE m.kind = "EXPERIMENT"
  BY <1>2 DEF RequestOK, ExperimentRequests, RequestsOf, MovedTo, HavingMade, AnsweredWith
<1>3. CASE m.kind = "RUN"
  BY <1>3 DEF RequestOK, StartRequests, RequestsOf, MovedTo, HavingMade, AnsweredWith
<1> QED
  BY <1>1, <1>2, <1>3 DEF RequestOK

LEMMA OnwardGoes ==
    ASSUME TablesOK, NEW q \in Requests, request[q] # NoOne, NEW s, NEW made,
           Onward(q, s) \/ OnwardWith(q, s, made)
    PROVE  /\ Creating' \subseteq Creating \cup {q} /\ PastTheCap' \subseteq PastTheCap \cup {q}
           /\ s # "CREATE" => Creating' \subseteq Creating \ {q}
           /\ s \notin {"CONSUME", "CREATE", "START"} => PastTheCap' \subseteq PastTheCap \ {q}
<1>1. PICK m : m = request[q]
  OBVIOUS
<1>2. RequestOK(m, batchRows, runs) /\ RequestsOK
  BY <1>1 DEF TablesOK, RequestsOK
<1>3. PICK n : request' = [request EXCEPT ![q] = n] /\ n.step = s
  <2>1. request' = [request EXCEPT ![q] = MovedTo(m, s)]
          \/ request' = [request EXCEPT ![q] = HavingMade(m, s, made)]
    BY <1>1 DEF Onward, OnwardWith, MovedTo, HavingMade
  <2> QED
    BY <1>2, <2>1, StepIs
<1> QED
  BY <1>2, <1>3, OtherRequestsStand

LEMMA AnsweringLeaves ==
    ASSUME TablesOK, NEW q \in Requests, request[q] # NoOne, NEW a, Answer(q, a)
    PROVE  Creating' \subseteq Creating \ {q} /\ PastTheCap' \subseteq PastTheCap \ {q}
<1>1. PICK m : m = request[q]
  OBVIOUS
<1>2. RequestOK(m, batchRows, runs) /\ RequestsOK
  BY <1>1 DEF TablesOK, RequestsOK
<1>3. request' = [request EXCEPT ![q] = AnsweredWith(m, a)]
  BY <1>1 DEF Answer, AnsweredWith
<1>4. AnsweredWith(m, a).step = "ANSWERED"
  BY <1>2, StepIs
<1> QED
  BY <1>2, <1>3, <1>4, OtherRequestsStand

\* Who is stored and who executes, after the item of one run has become m.
LEMMA OtherRunsStand ==
    ASSUME TablesOK, NEW r \in Runs, NEW m \in RunStates, runs' = [runs EXCEPT ![r] = m]
    PROVE  /\ Stored' \subseteq Stored \cup {r} /\ Executing' \subseteq Executing \cup {r}
           /\ m.execution # "RUNNING" => Executing' \subseteq Executing
<1>1. runs'[r] = m /\ \A other \in Runs : other # r => runs'[other] = runs[other]
  BY DEF TablesOK, AdmissionTypeOK
<1> QED
  BY <1>1 DEF Stored, Executing

LEMMA SameRunsStand ==
    ASSUME UNCHANGED runs PROVE Stored' = Stored /\ Executing' = Executing
  BY DEF Stored, Executing

\* A handler that neither counts, takes a slot, creates nor starts.
LEMMA QuietHandlersCount ==
    ASSUME TablesOK, CountsOK, NEW q \in Requests,
           \/ RefuseBatch(q) \/ LimitCreation(q) \/ ListBatch(q) \/ WriteRows(q) \/ Define(q)
           \/ Link(q) \/ OutOfIds(q) \/ HandlerDies(q)
    PROVE  CountsOK'
<1>1. request[q] # NoOne /\ UNCHANGED <<runs, allowance>>
  BY DEF RefuseBatch, LimitCreation, ListBatch, WriteRows, Define, DefineIf, Link, OutOfIds,
         HandlerDies, Serving
<1>2. Creating' \subseteq Creating /\ PastTheCap' \subseteq PastTheCap
  <2>1. CASE Define(q)
    <3>1. PICK m : m = request[q]
      OBVIOUS
    <3>2. RequestOK(m, batchRows, runs) /\ m.kind = "EXPERIMENT" /\ RequestsOK
      BY <2>1, <3>1 DEF Define, DefineIf, Serving, TablesOK, RequestsOK
    <3>3. PICK made, answer : request' = [request EXCEPT ![q] = [m EXCEPT !.step = "ANSWERED",
                                                   !.made = made, !.answer = answer]]
      BY <2>1, <3>1 DEF Define, DefineIf
    <3>4. PICK n : n = [m EXCEPT !.step = "ANSWERED", !.made = made, !.answer = answer]
      OBVIOUS
    <3>5. n.step = "ANSWERED"
      BY <3>2, <3>4 DEF RequestOK, ExperimentRequests, RequestsOf
    <3> QED
      BY <3>2, <3>3, <3>4, <3>5, OtherRequestsStand
  <2>2. CASE ListBatch(q)
    <3>1. OnwardWith(q, "ROWS", FreshId(Unwritten))
      BY <2>2 DEF ListBatch
    <3> QED
      BY <1>1, <3>1, OnwardGoes
  <2>3. CASE \E a \in Answers : Answer(q, a)
    BY <1>1, <2>3, AnsweringLeaves
  <2> QED
    BY <2>1, <2>2, <2>3
    DEF RefuseBatch, LimitCreation, WriteRows, Link, OutOfIds, HandlerDies, Answers, Refusals
<1>3. Stored' = Stored /\ Executing' = Executing
  BY <1>1, SameRunsStand
<1>4. allowance' \in 0 .. RunsPerHour /\ allowance <= allowance'
  BY <1>1, TheAllowanceIsBounded, AdmissionAssumption DEF TablesOK, AdmissionTypeOK
<1> QED
  BY <1>2, <1>3, <1>4, QuietCounts

\* A handler passes the count only while there is room under the cap.
LEMMA CountingKeepsTheCap ==
    ASSUME TablesOK, CountsOK, NEW q \in Requests, CountRunning(q) PROVE CountsOK'
<1>1. request[q] # NoOne /\ UNCHANGED <<runs, allowance>>
  BY DEF CountRunning, CountRunningBelow, Serving
<1>2. Stored' = Stored /\ Executing' = Executing
  BY <1>1, SameRunsStand
<1>3. allowance' \in 0 .. RunsPerHour /\ allowance <= allowance'
  BY <1>1, TheAllowanceIsBounded, AdmissionAssumption DEF TablesOK, AdmissionTypeOK
<1>4. CASE Answer(q, "CONFLICT")
  <2>1. Creating' \subseteq Creating /\ PastTheCap' \subseteq PastTheCap
    BY <1>1, <1>4, AnsweringLeaves
  <2> QED
    BY <1>2, <1>3, <2>1, QuietCounts
<1>5. CASE Cardinality(Executing) < MaxActiveRuns /\ Onward(q, "CONSUME")
  <2>1. Creating' \subseteq Creating
    BY <1>1, <1>5, OnwardGoes
  <2>2. Cardinality(Creating') <= Cardinality(Creating)
    BY <2>1, FiniteCounts, NoMore
  <2>3. PastTheCap' \in SUBSET Requests
    BY DEF PastTheCap
  <2>4. PICK held \in Nat : held = Cardinality(Requests)
    BY AdmissionAssumption, FS_CardinalityType
  <2>5. Cardinality(PastTheCap') <= held
    BY <2>3, <2>4, NoMore, AdmissionAssumption
  <2> QED
    BY <1>1, <1>2, <1>5, <2>2, <2>4, <2>5, FiniteCounts, FiniteCountsNext, AdmissionAssumption
    DEF TablesOK, AdmissionTypeOK, CountsOK, SlotsCounted, CapExceededOnlyByOverlap
<1> QED
  BY <1>4, <1>5, FiniteCounts, AdmissionAssumption DEF CountRunning, CountRunningBelow

\* The update that checks the allowance takes the slot.
LEMMA ConsumingKeepsSlots ==
    ASSUME TablesOK, CountsOK, NEW q \in Requests, Consume(q) \/ ConsumeAgain(q) PROVE CountsOK'
<1>1. request[q] # NoOne /\ UNCHANGED runs /\ q \in PastTheCap
  BY DEF Consume, ConsumeBelow, ConsumeAgain, Serving, PastTheCap
<1>2. Stored' = Stored /\ Executing' = Executing
  BY <1>1, SameRunsStand
<1>3. allowance \in Nat /\ RunsPerHour \in Nat
  BY AdmissionAssumption DEF TablesOK, AdmissionTypeOK
<1>4. CASE Answer(q, "LIMITED") /\ UNCHANGED allowance
  <2>1. Creating' \subseteq Creating /\ PastTheCap' \subseteq PastTheCap
    BY <1>1, <1>4, AnsweringLeaves
  <2> QED
    BY <1>2, <1>3, <1>4, <2>1, QuietCounts, TheAllowanceIsBounded
<1>5. CASE allowance < RunsPerHour /\ allowance' = allowance + 1 /\ UNCHANGED request
  <2>1. Creating' = Creating /\ PastTheCap' = PastTheCap
    BY <1>5 DEF Creating, PastTheCap, Serving
  <2> QED
    BY <1>2, <1>3, <1>5, <2>1, QuietCounts
<1>6. CASE allowance < RunsPerHour /\ allowance' = allowance + 1 /\ Onward(q, "CREATE")
  <2>1. Creating' \subseteq Creating \cup {q} /\ PastTheCap' \subseteq PastTheCap
    BY <1>1, <1>6, OnwardGoes
  <2>2. /\ Cardinality(Creating') <= Cardinality(Creating) + 1
        /\ Cardinality(PastTheCap') <= Cardinality(PastTheCap)
    BY <2>1, FiniteCounts, NoMore, OneMore
  <2>3. PICK held \in Nat : held = Cardinality(Requests)
    BY AdmissionAssumption, FS_CardinalityType
  <2> QED
    BY <1>2, <1>3, <1>6, <2>2, <2>3, FiniteCounts, FiniteCountsNext, AdmissionAssumption
    DEF CountsOK, SlotsCounted, CapExceededOnlyByOverlap
<1> QED
  BY <1>4, <1>5, <1>6 DEF Consume, ConsumeBelow, ConsumeAgain

\* Every run created gives up the slot that its handler held.
LEMMA CreatingKeepsSlots ==
    ASSUME TablesOK, CountsOK, NEW q \in Requests, CreateRun(q) PROVE CountsOK'
<1>1. request[q] # NoOne /\ UNCHANGED allowance /\ q \in PastTheCap /\ q \in Creating
  BY DEF CreateRun, Serving, PastTheCap, Creating
<1>2. PICK r : r = FreshId(Unused)
  OBVIOUS
<1>3. r \in Runs
  BY <1>2, FreshIdIsOneOfThem DEF CreateRun, Unused
<1>4. PICK m : m = [experiment |-> request[q].subject.experiment,
                    processor |-> request[q].subject.processor,
                    status |-> "QUEUED", execution |-> "NONE"]
  OBVIOUS
<1>5. m \in RunStates /\ m.execution = "NONE"
  BY <1>1, <1>4 DEF TablesOK, RequestsOK, RequestOK, StartRequests, RequestsOf, Starts, RunStates,
                    Creating, Serving
<1>6. runs' = [runs EXCEPT ![r] = m] /\ OnwardWith(q, "START", r)
  BY <1>2, <1>4 DEF CreateRun
<1>7. Stored' \subseteq Stored \cup {r} /\ Executing' \subseteq Executing
  BY <1>3, <1>5, <1>6, OtherRunsStand
<1>8. Creating' \subseteq Creating \ {q} /\ PastTheCap' \subseteq PastTheCap
  BY <1>1, <1>6, OnwardGoes
<1>9. /\ Cardinality(Stored') <= Cardinality(Stored) + 1
      /\ Cardinality(Executing') <= Cardinality(Executing)
      /\ Cardinality(Creating') + 1 <= Cardinality(Creating)
      /\ Cardinality(PastTheCap') <= Cardinality(PastTheCap)
  BY <1>1, <1>7, <1>8, FiniteCounts, NoMore, OneMore, OneLess
<1>10. PICK held \in Nat : held = Cardinality(Requests)
  BY AdmissionAssumption, FS_CardinalityType
<1> QED
  BY <1>1, <1>9, <1>10, FiniteCounts, FiniteCountsNext, AdmissionAssumption
  DEF TablesOK, AdmissionTypeOK, CountsOK, SlotsCounted, CapExceededOnlyByOverlap

\* An execution that starts is one that its handler's count made room for.
LEMMA StartingKeepsTheCap ==
    ASSUME TablesOK, CountsOK, NEW q \in Requests, StartExecution(q) \/ StartRaises(q)
    PROVE  CountsOK'
<1>1. request[q] # NoOne /\ UNCHANGED allowance /\ q \in PastTheCap
  BY DEF StartExecution, StartRaises, Serving, PastTheCap
<1>2. PICK r : r = request[q].made
  OBVIOUS
<1>3. r \in Stored /\ r \in Runs /\ runs[r] \in RunStates
  BY <1>2, MadeIsStored DEF StartExecution, StartRaises, Stored
<1>4. PICK state \in {"NONE", "RUNNING"} : runs' = [runs EXCEPT ![r].execution = state]
  BY <1>2 DEF StartExecution, StartRaises
<1>5. PICK old : old = runs[r]
  OBVIOUS
<1>6. PICK m : m = [old EXCEPT !.execution = state]
  OBVIOUS
<1>7. m \in RunStates /\ runs' = [runs EXCEPT ![r] = m]
  BY <1>3, <1>4, <1>5, <1>6 DEF RunStates
<1>8. Stored' \subseteq Stored /\ Executing' \subseteq Executing \cup {r}
  BY <1>3, <1>7, OtherRunsStand
<1>9. Creating' \subseteq Creating \ {q} /\ PastTheCap' \subseteq PastTheCap \ {q}
  <2>1. CASE Onward(q, "LINK")
    BY <1>1, <2>1, OnwardGoes
  <2>2. CASE Onward(q, "RECORD_FAILURE")
    BY <1>1, <2>2, OnwardGoes
  <2> QED
    BY <2>1, <2>2 DEF StartExecution, StartRaises
<1>10. /\ Cardinality(Stored') <= Cardinality(Stored)
       /\ Cardinality(Executing') <= Cardinality(Executing) + 1
       /\ Cardinality(Creating') <= Cardinality(Creating)
       /\ Cardinality(PastTheCap') + 1 <= Cardinality(PastTheCap)
  BY <1>1, <1>8, <1>9, FiniteCounts, NoMore, OneMore, OneLess
<1>11. PICK held \in Nat : held = Cardinality(Requests)
  BY AdmissionAssumption, FS_CardinalityType
<1> QED
  BY <1>1, <1>10, <1>11, FiniteCounts, FiniteCountsNext, AdmissionAssumption
  DEF TablesOK, AdmissionTypeOK, CountsOK, SlotsCounted, CapExceededOnlyByOverlap

\* Neither a recorded failure nor an execution that goes on or ends needs room.
LEMMA EndingKeepsCounts ==
    ASSUME TablesOK, CountsOK,
           (\E q \in Requests : RecordStartFailure(q)) \/ (\E r \in Runs : Execute(r))
    PROVE  CountsOK'
<1>1. UNCHANGED allowance
  BY DEF RecordStartFailure, Execute, InitRun, EndRun
<1>2. allowance' \in 0 .. RunsPerHour /\ allowance <= allowance'
  BY <1>1, TheAllowanceIsBounded, AdmissionAssumption DEF TablesOK, AdmissionTypeOK
<1>3. Creating' \subseteq Creating /\ PastTheCap' \subseteq PastTheCap
  <2>1. CASE \E q \in Requests : RecordStartFailure(q)
    BY <2>1, AnsweringLeaves DEF RecordStartFailure, Serving
  <2>2. CASE UNCHANGED request
    BY <2>2 DEF Creating, PastTheCap, Serving
  <2> QED
    BY <2>1, <2>2 DEF Execute, InitRun, EndRun
<1>4. Stored' \subseteq Stored /\ Executing' \subseteq Executing
  <2>1. ASSUME NEW r \in Stored, NEW m \in RunStates, runs' = [runs EXCEPT ![r] = m],
               m.execution = "RUNNING" => r \in Executing
        PROVE  Stored' \subseteq Stored /\ Executing' \subseteq Executing
    BY <2>1, OtherRunsStand DEF Stored
  <2>2. ASSUME NEW q \in Requests, RecordStartFailure(q)
        PROVE  Stored' \subseteq Stored /\ Executing' \subseteq Executing
    <3>1. PICK r : r = request[q].made
      OBVIOUS
    <3>2. r \in Stored /\ runs[r] \in RunStates
      BY <2>2, <3>1, MadeIsStored DEF RecordStartFailure
    <3>3. PICK old : old = runs[r]
      OBVIOUS
    <3>4. PICK m : m = [old EXCEPT !.status = "FAILED"]
      OBVIOUS
    <3>5. m \in RunStates /\ m.execution = old.execution
      BY <3>2, <3>3, <3>4 DEF RunStates
    <3>6. runs' = [runs EXCEPT ![r] = m]
      BY <2>2, <3>1, <3>3, <3>4 DEF RecordStartFailure
    <3> QED
      BY <2>1, <3>2, <3>3, <3>5, <3>6 DEF Executing
  <2>3. ASSUME NEW r \in Runs, Execute(r)
        PROVE  Stored' \subseteq Stored /\ Executing' \subseteq Executing
    <3>1. r \in Executing /\ r \in Stored /\ runs[r] \in RunStates
      BY <2>3 DEF Execute, InitRun, EndRun, Executing, Stored, TablesOK, AdmissionTypeOK
    <3>2. PICK old : old = runs[r]
      OBVIOUS
    <3>3. CASE InitRun(r)
      <4>1. PICK m : m = [old EXCEPT !.status = "RUNNING"]
        OBVIOUS
      <4>2. m \in RunStates
        BY <3>1, <3>2, <4>1 DEF RunStates
      <4>3. runs' = [runs EXCEPT ![r] = m]
        BY <3>2, <3>3, <4>1 DEF InitRun
      <4> QED
        BY <2>1, <3>1, <4>2, <4>3
    <3>4. ASSUME NEW status \in {"COMPLETED", "FAILED"},
                 runs' = [runs EXCEPT ![r].status = status, ![r].execution = "ENDED"]
          PROVE  Stored' \subseteq Stored /\ Executing' \subseteq Executing
      <4>1. PICK m : m = [old EXCEPT !.status = status, !.execution = "ENDED"]
        OBVIOUS
      <4>2. m \in RunStates
        BY <3>1, <3>2, <4>1 DEF RunStates
      <4>3. runs' = [runs EXCEPT ![r] = m]
        BY <3>1, <3>2, <3>4, <4>1 DEF TablesOK, AdmissionTypeOK
      <4> QED
        BY <2>1, <3>1, <4>2, <4>3
    <3> QED
      BY <2>3, <3>3, <3>4 DEF Execute, EndRun
  <2> QED
    BY <2>2, <2>3
<1> QED
  BY <1>2, <1>3, <1>4, QuietCounts

LEMMA OthersKeepCounts ==
    ASSUME TablesOK, CountsOK, SomeoneStarts PROVE CountsOK'
<1>1. PICK r : r = FreshId(Unused)
  OBVIOUS
<1>2. r \in Runs
  BY <1>1, FreshIdIsOneOfThem DEF SomeoneStarts, Unused
<1>3. runs' = [runs EXCEPT ![r] = DemoRun] /\ UNCHANGED request
  BY <1>1 DEF SomeoneStarts
<1>4. Stored' \subseteq Stored \cup {r} /\ Executing' \subseteq Executing \cup {r}
  BY <1>2, <1>3, DemoRunTypes, OtherRunsStand
<1>5. Creating' = Creating /\ PastTheCap' = PastTheCap
  BY <1>3 DEF Creating, PastTheCap, Serving
<1>6. /\ Cardinality(Stored') <= Cardinality(Stored) + 1
      /\ Cardinality(Executing') <= Cardinality(Executing) + 1
  BY <1>4, FiniteCounts, OneMore
<1>7. Cardinality(PastTheCap') = 0
  BY <1>5, FS_EmptySet DEF SomeoneStarts
<1>8. PICK held \in Nat : held = Cardinality(Requests) /\ held > 0
  BY AdmissionAssumption, FS_CardinalityType, FS_EmptySet
<1> QED
  BY <1>5, <1>6, <1>7, <1>8, FiniteCounts, FiniteCountsNext, AdmissionAssumption
  DEF SomeoneStarts, TablesOK, AdmissionTypeOK, CountsOK, SlotsCounted, CapExceededOnlyByOverlap

-----------------------------------------------------------------------------
(* The wizard                                                              *)

LEMMA FreshCsv == csv' = EmptyForm => CsvOK'
  BY CsvAssumption DEF EmptyForm, CsvOK, CsvTypeOK, Checks, Checkable

LEMMA SameCsv == CsvOK /\ UNCHANGED csv => CsvOK'
  BY DEF CsvOK, CsvTypeOK

\* A step of the wizard that only drops requests, or the forms they report to.
QuietRequests ==
    /\ DOMAIN request' = Requests
    /\ \A q \in Requests : request'[q] # NoOne =>
          /\ request[q] # NoOne /\ RequestOK(request'[q], batchRows, runs)
          /\ request'[q].kind = request[q].kind /\ request'[q].step = request[q].step

LEMMA UnchangedIsQuiet ==
    ASSUME TablesOK, UNCHANGED request PROVE QuietRequests
  BY DEF TablesOK, RequestsOK, QuietRequests

LEMMA OrphaningIsQuiet ==
    ASSUME TablesOK, DOMAIN request' = Requests,
           \A q \in Requests : request'[q] = NoOne \/ request'[q] = Orphaned(q)
    PROVE  QuietRequests
<1>1. ASSUME NEW q \in Requests, request'[q] # NoOne
      PROVE  /\ request[q] # NoOne /\ RequestOK(request'[q], batchRows, runs)
             /\ request'[q].kind = request[q].kind /\ request'[q].step = request[q].step
  <2>1. request'[q] = Orphaned(q) /\ request[q] # NoOne
    BY <1>1 DEF Orphaned
  <2>2. PICK m : m = request[q]
    OBVIOUS
  <2>3. request'[q] = OrphanOf(m) /\ RequestOK(m, batchRows, runs)
    BY <2>1, <2>2 DEF Orphaned, OrphanOf, TablesOK, RequestsOK
  <2> QED
    BY <2>1, <2>2, <2>3, OrphanOK
<1> QED
  BY <1>1 DEF QuietRequests

LEMMA DoneIsQuiet ==
    ASSUME TablesOK, NEW q \in Requests, Done(q) PROVE QuietRequests
  BY DEF Done, TablesOK, RequestsOK, QuietRequests

LEMMA UnmountingIsQuiet ==
    ASSUME TablesOK,
           \/ request' = [q \in Requests |-> Orphaned(q)]
           \/ \E q \in Requests : DoneUnmounting(q)
    PROVE  QuietRequests
<1>1. DOMAIN request' = Requests
  BY DEF DoneUnmounting
<1>2. \A q \in Requests : request'[q] = NoOne \/ request'[q] = Orphaned(q)
  BY DEF DoneUnmounting
<1> QED
  BY <1>1, <1>2, OrphaningIsQuiet

\* The tables and the requests after a step of the wizard.
LEMMA WizardKeepsTables ==
    ASSUME AdmissionInv, UNCHANGED <<batchRows, runs, allowance>>, RequestsOK',
           Creating' \subseteq Creating, PastTheCap' \subseteq PastTheCap
    PROVE  AdmissionInv'
<1>1. TablesOK'
  BY DEF AdmissionInv, TablesOK, AdmissionTypeOK, RunsHaveWholeBatches, Stored
<1>2. Stored' = Stored /\ Executing' = Executing
  BY SameRunsStand
<1>3. allowance' \in 0 .. RunsPerHour /\ allowance <= allowance'
  BY AdmissionAssumption DEF AdmissionInv, TablesOK, AdmissionTypeOK
<1> QED
  BY <1>1, <1>2, <1>3, QuietCounts DEF AdmissionInv

LEMMA QuietWizard ==
    ASSUME AdmissionInv, UNCHANGED <<batchRows, runs, allowance>>, QuietRequests
    PROVE  AdmissionInv' /\ KindsKept
<1>1. RequestsOK' /\ KindsKept
  BY DEF QuietRequests, RequestsOK, KindsKept
<1>2. Creating' \subseteq Creating /\ PastTheCap' \subseteq PastTheCap
  BY DEF QuietRequests, Creating, PastTheCap, Serving
<1> QED
  BY <1>1, <1>2, WizardKeepsTables

\* A request is posted when its component has what its body names.
MayPost(kind, what, subject, rows) ==
    \/ kind = "BATCH" /\ what = "createBatch" /\ subject \in {"valid", "invalid"}
    \/ kind = "EXPERIMENT" /\ what = "createExperiment" /\ subject \in Batches
    \/ kind = "RUN" /\ what \in Starters /\ subject \in Starts /\ WholeIn(rows, subject.experiment)

LEMMA PostKeeps ==
    ASSUME AdmissionInv, NEW q \in Requests, NEW kind, NEW subject, NEW what,
           NEW after \in Runs \cup {NoOne}, NEW busyWith,
           Submit(q, kind, subject, By(what, after), busyWith),
           MayPost(kind, what, subject, batchRows)
    PROVE  /\ AdmissionInv'
           /\ CsvOK => CsvOK'
           /\ \A other \in Requests : request'[other] # NoOne /\ request'[other].kind = "EXPERIMENT" =>
                 kind = "EXPERIMENT" \/ (request[other] # NoOne /\ request[other].kind = "EXPERIMENT")
<1>3. PICK by \in [what : {what}, mounted : BOOLEAN, after : Runs \cup {NoOne}] :
        by = By(what, after)
  BY DEF By
<1>1. PICK m : m = [kind |-> kind, subject |-> subject, by |-> by, step |-> "ARRIVED",
                    made |-> NoOne, answer |-> NoOne]
  OBVIOUS
<1>2. request' = [request EXCEPT ![q] = m] /\ UNCHANGED <<batchRows, runs, allowance, csv>>
  BY <1>1, <1>3 DEF Submit, Post
<1>6. m.step = "ARRIVED" /\ m.kind = kind
  BY <1>1
<1>4. m = NoOne \/ RequestOK(m, batchRows', runs')
  <2>1. CASE kind = "BATCH"
    <3>1. what = "createBatch" /\ subject \in {"valid", "invalid"}
      BY <1>2, <2>1 DEF MayPost
    <3>2. by \in [what : {"createBatch"}, mounted : BOOLEAN, after : Runs \cup {NoOne}]
      BY <1>3, <3>1
    <3>3. m \in BatchRequests
      BY ONLY <1>1, <2>1, <3>1, <3>2 DEF BatchRequests, RequestsOf, Steps
    <3>4. m.kind = kind /\ m.subject = subject /\ m.step = "ARRIVED" /\ m.answer = NoOne
      BY ONLY <1>1
    <3> QED
      BY <2>1, <3>1, <3>3, <3>4, NoOneAssumption DEF RequestOK, Answers
  <2>2. CASE kind = "EXPERIMENT"
    <3>1. what = "createExperiment" /\ subject \in Batches
      BY <1>2, <2>2 DEF MayPost
    <3>2. by \in [what : {"createExperiment"}, mounted : BOOLEAN, after : Runs \cup {NoOne}]
      BY <1>3, <3>1
    <3>3. m \in ExperimentRequests
      BY ONLY <1>1, <2>2, <3>1, <3>2 DEF ExperimentRequests, RequestsOf, Steps
    <3>4. m.kind = kind /\ m.subject = subject /\ m.step = "ARRIVED" /\ m.answer = NoOne
      BY ONLY <1>1
    <3> QED
      BY <2>2, <3>1, <3>3, <3>4, NoOneAssumption DEF RequestOK, Answers
  <2>3. CASE kind = "RUN"
    <3>1. what \in Starters /\ subject \in Starts /\ WholeIn(batchRows', subject.experiment)
      BY <1>2, <2>3 DEF MayPost
    <3>2. by \in [what : Starters, mounted : BOOLEAN, after : Runs \cup {NoOne}]
      BY <1>3, <3>1
    <3>3. m \in StartRequests
      BY ONLY <1>1, <2>3, <3>1, <3>2 DEF StartRequests, RequestsOf, Steps
    <3>4. m.kind = kind /\ m.subject = subject /\ m.step = "ARRIVED" /\ m.answer = NoOne
      BY ONLY <1>1
    <3> QED
      BY <2>3, <3>1, <3>3, <3>4, NoOneAssumption DEF RequestOK, Answers
  <2> QED
    BY <2>1, <2>2, <2>3 DEF MayPost
<1>5. RequestsOK'
  BY <1>2, <1>4, OneRequest DEF AdmissionInv, TablesOK, TablesGrow
<1>7. Creating' \subseteq Creating /\ PastTheCap' \subseteq PastTheCap
  BY <1>2, <1>6, OtherRequestsStand DEF AdmissionInv, TablesOK
<1>8. AdmissionInv'
  BY <1>2, <1>5, <1>7, WizardKeepsTables
<1>9. \A other \in Requests : request'[other] # NoOne /\ request'[other].kind = "EXPERIMENT" =>
         kind = "EXPERIMENT" \/ (request[other] # NoOne /\ request[other].kind = "EXPERIMENT")
  BY <1>2, <1>6 DEF AdmissionInv, TablesOK, RequestsOK
<1> QED
  BY <1>2, <1>8, <1>9, SameCsv

-----------------------------------------------------------------------------
(* The clicks                                                              *)

\* What a step leaves of the invariant when it drops requests at most.
LEMMA QuietStep ==
    ASSUME TestInv, UNCHANGED <<batchRows, runs, allowance>>, QuietRequests,
           FormOK', page' = Here => page = Here /\ (batch # NoOne => batch' # NoOne), CsvOK'
    PROVE  TestInv'
<1>1. AdmissionInv' /\ KindsKept
  BY QuietWizard DEF TestInv
<1>2. ExperimentsHaveBatches'
  BY <1>1 DEF TestInv, ExperimentsHaveBatches, KindsKept
<1> QED
  BY <1>1, <1>2 DEF TestInv

LEMMA SetSourceKeeps ==
    ASSUME TestInv, NEW s \in Sources, SetSource(s) PROVE TestInv'
<1>1. QuietRequests
  BY UnmountingIsQuiet DEF TestInv, AdmissionInv, SetSource
<1>2. CsvOK'
  BY FreshCsv DEF SetSource, Fresh
<1>3. FormOK'
  BY DEF TestInv, FormOK, SetSource, Fresh, WholeIn
<1> QED
  BY <1>1, <1>2, <1>3, QuietStep DEF SetSource

LEMMA PickKeeps ==
    ASSUME TestInv, NEW b \in Batches, Pick(b) PROVE TestInv'
<1>1. QuietRequests
  BY UnchangedIsQuiet DEF TestInv, AdmissionInv, Pick, admissionVars
<1>2. CsvOK'
  BY FreshCsv DEF Pick, Fresh
<1>3. b # NoOne
  BY NoOneAssumption
<1>4. FormOK'
  BY <1>3 DEF TestInv, FormOK, Pick, Choose, ChooseThen, Fresh, WholeIn, admissionVars
<1> QED
  BY <1>1, <1>2, <1>3, <1>4, QuietStep DEF Pick, Choose, ChooseThen, admissionVars, OnStep

LEMMA CreateBatchKeeps ==
    ASSUME TestInv, NEW q \in Requests, CreateBatch(q) PROVE TestInv'
<1>1. PICK subject \in {"valid", "invalid"} :
        Submit(q, "BATCH", subject, By("createBatch", NoOne), "create")
  BY DEF CreateBatch
<1>2. /\ AdmissionInv' /\ CsvOK'
      /\ \A other \in Requests : request'[other] # NoOne /\ request'[other].kind = "EXPERIMENT" =>
            request[other] # NoOne /\ request[other].kind = "EXPERIMENT"
  <2>1. MayPost("BATCH", "createBatch", subject, batchRows)
    BY DEF MayPost
  <2> QED
    BY <1>1, <2>1, PostKeeps DEF TestInv
<1>3. FormOK' /\ ExperimentsHaveBatches'
  BY <1>1, <1>2 DEF TestInv, FormOK, ExperimentsHaveBatches, Submit, WholeIn, testVars
<1> QED
  BY <1>2, <1>3 DEF TestInv

LEMMA CreateExperimentKeeps ==
    ASSUME TestInv, NEW q \in Requests, CreateExperiment(q) PROVE TestInv'
<1>1. batch \in Batches /\ batch # NoOne
  BY DEF TestInv, FormOK, CreateExperiment, OnStep
<1>2. PICK subject : subject = batch
  OBVIOUS
<1>3. Submit(q, "EXPERIMENT", subject, By("createExperiment", NoOne), "create")
  BY <1>2 DEF CreateExperiment
<1>4. AdmissionInv' /\ CsvOK'
  <2>1. MayPost("EXPERIMENT", "createExperiment", subject, batchRows)
    BY <1>1, <1>2 DEF MayPost
  <2> QED
    BY <1>3, <2>1, PostKeeps DEF TestInv
<1>5. FormOK' /\ ExperimentsHaveBatches'
  BY <1>1, <1>3 DEF TestInv, FormOK, ExperimentsHaveBatches, Submit, WholeIn, testVars
<1> QED
  BY <1>4, <1>5 DEF TestInv

LEMMA StartKeepsTest ==
    ASSUME TestInv, NEW q \in Requests, NEW processor \in Processors, NEW what \in Starters,
           NEW after \in Runs \cup {NoOne}, NEW busyWith \in {"both", "one", "second"},
           Start(q, processor, By(what, after), busyWith)
    PROVE  TestInv'
<1>1. WholeIn(batchRows, experiment) /\ experiment \in Experiments
  BY DEF TestInv, FormOK, Start, OnStep, WholeIn
<1>2. PICK subject : subject = [experiment |-> experiment, processor |-> processor]
  OBVIOUS
<1>3. Submit(q, "RUN", subject, By(what, after), busyWith)
  BY <1>2 DEF Start
<1>4. subject \in Starts /\ WholeIn(batchRows, subject.experiment)
  BY <1>1, <1>2 DEF Starts
<1>5. /\ AdmissionInv' /\ CsvOK'
      /\ \A other \in Requests : request'[other] # NoOne /\ request'[other].kind = "EXPERIMENT" =>
            request[other] # NoOne /\ request[other].kind = "EXPERIMENT"
  <2>1. MayPost("RUN", what, subject, batchRows)
    BY <1>4 DEF MayPost
  <2> QED
    BY <1>3, <2>1, PostKeeps DEF TestInv
<1>6. FormOK' /\ ExperimentsHaveBatches'
  BY <1>3, <1>5 DEF TestInv, FormOK, ExperimentsHaveBatches, Submit, WholeIn, testVars
<1> QED
  BY <1>5, <1>6 DEF TestInv

LEMMA StartsKeep ==
    ASSUME TestInv, NEW q \in Requests,
           RunBoth(q) \/ StartSecond(q) \/ \E p \in Processors : RunOne(q, p)
    PROVE  TestInv'
<1>1. CASE RunBoth(q)
  BY <1>1, StartKeepsTest DEF RunBoth, Processors, Starters
<1>2. CASE StartSecond(q)
  <2>1. PICK after \in Runs \cup {NoOne} : after = first
    BY DEF TestInv, FormOK
  <2>2. Start(q, "protected", By("second", after), "second")
    BY <1>2, <2>1 DEF StartSecond
  <2> QED
    BY <2>2, StartKeepsTest DEF Processors, Starters
<1>3. ASSUME NEW p \in Processors, RunOne(q, p) PROVE TestInv'
  BY <1>3, StartKeepsTest DEF RunOne, Starters
<1> QED
  BY <1>1, <1>2, <1>3

LEMMA BackKeeps ==
    ASSUME TestInv, Back PROVE TestInv'
<1>1. QuietRequests
  BY UnmountingIsQuiet DEF TestInv, AdmissionInv, Back
<1>2. CsvOK'
  BY FreshCsv DEF Back, Fresh
<1>3. FormOK'
  BY DEF TestInv, FormOK, Back, OnStep, Fresh, WholeIn
<1> QED
  BY <1>1, <1>2, <1>3, QuietStep DEF Back

LEMMA LeaveKeeps ==
    ASSUME TestInv, Leave PROVE TestInv'
<1>1. QuietRequests
  BY UnmountingIsQuiet DEF TestInv, AdmissionInv, Leave
<1>2. CsvOK'
  BY FreshCsv DEF Leave, Unmounted, Fresh
<1>3. Cardinality(Runs) \in Nat
  BY AdmissionAssumption, FS_CardinalityType
<1>4. FormOK'
  BY <1>3 DEF TestInv, FormOK, Leave, Unmounted, Fresh, WholeIn, Idle
<1>5. page' # Here
  BY DEF Leave, Here, Away
<1> QED
  BY <1>1, <1>2, <1>4, <1>5, QuietStep DEF Leave

LEMMA EditKeeps ==
    ASSUME TestInv,
           \/ Editing(FileRead \/ CheckStarts \/ \E check \in csv.checks : CheckAnswered(check))
           \/ Editing(\E text \in Texts : Type(text) \/ ChooseFile(text))
           \/ Editing(\E check \in csv.checks : CheckFails(check))
    PROVE  TestInv'
<1>1. UNCHANGED <<admissionVars, page, testVars, busy, error, first, firstEnded, overview>>
  BY DEF Editing
<1>2. QuietRequests
  BY <1>1, UnchangedIsQuiet DEF TestInv, AdmissionInv, admissionVars
<1>3. CsvOK'
  BY EditingKeepsCsv DEF TestInv, Editing
<1>4. FormOK'
  BY <1>1 DEF TestInv, FormOK, WholeIn, admissionVars, testVars
<1> QED
  BY <1>1, <1>2, <1>3, <1>4, QuietStep DEF admissionVars, testVars

LEMMA PollsKeep ==
    ASSUME TestInv, PollOverview \/ PollFirst PROVE TestInv'
<1>1. UNCHANGED <<admissionVars, page, testVars, csv>>
  BY DEF PollOverview, PollOverviewIf, PollFirst, formVars
<1>2. QuietRequests
  BY <1>1, UnchangedIsQuiet DEF TestInv, AdmissionInv, admissionVars
<1>3. CsvOK'
  BY <1>1, SameCsv DEF TestInv
<1>4. overview' \in 0 .. Cardinality(Runs)
  <2>1. Active \in SUBSET Runs
    BY DEF Active, Stored
  <2>2. Cardinality(Active) <= Cardinality(Runs) /\ Cardinality(Runs) \in Nat
    BY <2>1, NoMore, AdmissionAssumption, FS_CardinalityType
  <2> QED
    BY <2>2, FiniteCounts DEF PollOverview, PollOverviewIf, PollFirst, TestInv, FormOK
<1>5. FormOK'
  BY <1>1, <1>4
  DEF TestInv, FormOK, WholeIn, admissionVars, testVars, formVars, PollOverview, PollOverviewIf, PollFirst
<1> QED
  BY <1>1, <1>2, <1>3, <1>5, QuietStep DEF admissionVars, testVars

-----------------------------------------------------------------------------
(* The answers                                                             *)

\* What an answer that says OK has made, by who asked.
LEMMA HeardMade ==
    ASSUME TestInv, NEW q \in Requests, NEW what, Heard(q, what, TRUE)
    PROVE  /\ what = "createBatch" => request[q].kind = "BATCH" /\ request[q].made \in Batches
           /\ what = "createExperiment" => request[q].kind = "EXPERIMENT" /\ WholeIn(batchRows, request[q].made)
           /\ what \in Starters => request[q].kind = "RUN" /\ request[q].made \in Runs
<1>1. PICK m : m = request[q]
  OBVIOUS
<1>2. RequestOK(m, batchRows, runs) /\ m.by.what = what /\ m.answer = "OK"
  BY <1>1 DEF Heard, TestInv, AdmissionInv, TablesOK, RequestsOK
<1>3. CASE m.kind = "BATCH"
  BY <1>1, <1>2, <1>3 DEF RequestOK, BatchRequests, RequestsOf, Starters
<1>4. CASE m.kind = "EXPERIMENT"
  BY <1>1, <1>2, <1>4 DEF RequestOK, ExperimentRequests, RequestsOf, Starters
<1>5. CASE m.kind = "RUN"
  BY <1>1, <1>2, <1>5 DEF RequestOK, StartRequests, RequestsOf, Starters
<1> QED
  BY <1>2, <1>3, <1>4, <1>5 DEF RequestOK

LEMMA BatchCreatedKeeps ==
    ASSUME TestInv, NEW q \in Requests, BatchCreated(q) PROVE TestInv'
<1>1. UNCHANGED <<batchRows, runs, allowance, page, overview>>
  BY DEF BatchCreated
<1>2. QuietRequests
  BY DoneIsQuiet, UnmountingIsQuiet DEF TestInv, AdmissionInv, BatchCreated
<1>3. CsvOK'
  BY FreshCsv, SameCsv DEF TestInv, BatchCreated, formVars, Fresh
<1>4. PICK b : b = request[q].made
  OBVIOUS
<1>5. b \in Batches /\ b # NoOne
  BY <1>4, HeardMade, NoOneAssumption DEF BatchCreated
<1>6. CASE page # Here
  <2>1. UNCHANGED <<testVars, formVars>>
    BY <1>6 DEF BatchCreated
  <2>2. FormOK'
    BY <1>1, <2>1 DEF TestInv, FormOK, WholeIn, testVars, formVars
  <2> QED
    BY <1>1, <1>2, <1>3, <1>6, <2>2, QuietStep
<1>7. CASE page = Here
  <2>1. Choose(b)
    BY <1>4, <1>7 DEF BatchCreated
  <2>2. FormOK'
    BY <1>1, <1>5, <1>7, <2>1
    DEF TestInv, FormOK, WholeIn, BatchCreated, Choose, ChooseThen, formVars, Fresh
  <2> QED
    BY <1>1, <1>2, <1>3, <1>5, <1>7, <2>1, <2>2, QuietStep DEF Choose, ChooseThen
<1> QED
  BY <1>6, <1>7

LEMMA ExperimentCreatedKeeps ==
    ASSUME TestInv, NEW q \in Requests, ExperimentCreated(q) PROVE TestInv'
<1>1. UNCHANGED <<batchRows, runs, allowance, page, overview>>
  BY DEF ExperimentCreated
<1>2. QuietRequests
  BY DoneIsQuiet, UnmountingIsQuiet DEF TestInv, AdmissionInv, ExperimentCreated
<1>3. CsvOK'
  BY FreshCsv, SameCsv DEF TestInv, ExperimentCreated, formVars, Fresh
<1>4. PICK e : e = request[q].made
  OBVIOUS
<1>5. /\ WholeIn(batchRows, e) /\ e \in Experiments /\ e # NoOne
      /\ request[q] # NoOne /\ request[q].kind = "EXPERIMENT"
  BY <1>4, HeardMade, NoOneAssumption DEF ExperimentCreated, WholeIn, Heard
<1>6. CASE page # Here
  <2>1. UNCHANGED <<testVars, formVars>>
    BY <1>6 DEF ExperimentCreated
  <2>2. FormOK'
    BY <1>1, <2>1 DEF TestInv, FormOK, WholeIn, testVars, formVars
  <2> QED
    BY <1>1, <1>2, <1>3, <1>6, <2>2, QuietStep
<1>7. CASE page = Here
  <2>1. experiment' = e /\ step' = 3 /\ UNCHANGED <<batch, source>>
    BY <1>4, <1>7 DEF ExperimentCreated
  <2>2. batch # NoOne
    BY <1>5, <1>7 DEF TestInv, ExperimentsHaveBatches
  <2>3. FormOK'
    BY <1>1, <1>5, <1>7, <2>1, <2>2
    DEF TestInv, FormOK, WholeIn, ExperimentCreated, formVars, Fresh
  <2> QED
    BY <1>1, <1>2, <1>3, <1>7, <2>1, <2>3, QuietStep
<1> QED
  BY <1>6, <1>7

LEMMA FailuresKeep ==
    ASSUME TestInv, NEW q \in Requests, CreateFailed(q) \/ StartFailed(q) PROVE TestInv'
<1>1. UNCHANGED <<batchRows, runs, allowance, page, testVars, csv, overview>> /\ Done(q)
  BY DEF CreateFailed, CreateFailedBeing, StartFailed, formVars
<1>2. QuietRequests
  BY <1>1, DoneIsQuiet DEF TestInv, AdmissionInv
<1>3. CsvOK'
  BY <1>1, SameCsv DEF TestInv
<1>4. first' \in Runs \cup {NoOne}
  <2>1. request[q] # NoOne
    BY DEF CreateFailed, CreateFailedBeing, StartFailed, Heard
  <2>2. PICK m : m = request[q]
    OBVIOUS
  <2>3. RequestOK(m, batchRows, runs)
    BY <2>1, <2>2 DEF TestInv, AdmissionInv, TablesOK, RequestsOK
  <2>4. m.by.after \in Runs \cup {NoOne}
    <3>1. CASE m.kind = "BATCH"
      BY <2>3, <3>1 DEF RequestOK, BatchRequests, RequestsOf
    <3>2. CASE m.kind = "EXPERIMENT"
      BY <2>3, <3>2 DEF RequestOK, ExperimentRequests, RequestsOf
    <3>3. CASE m.kind = "RUN"
      BY <2>3, <3>3 DEF RequestOK, StartRequests, RequestsOf
    <3> QED
      BY <2>3, <3>1, <3>2, <3>3 DEF RequestOK
  <2> QED
    BY <2>2, <2>4 DEF TestInv, FormOK, CreateFailed, CreateFailedBeing, StartFailed, formVars
<1>5. FormOK'
  BY <1>1, <1>4
  DEF TestInv, FormOK, WholeIn, testVars, formVars, CreateFailed, CreateFailedBeing, StartFailed
<1> QED
  BY <1>1, <1>2, <1>3, <1>5, QuietStep DEF testVars

LEMMA StartedKeeps ==
    ASSUME TestInv, NEW q \in Requests, Started(q) PROVE TestInv'
<1>1. QuietRequests
  BY UnmountingIsQuiet DEF TestInv, AdmissionInv, Started
<1>2. CsvOK'
  BY FreshCsv DEF Started, Unmounted, Fresh
<1>3. Cardinality(Runs) \in Nat
  BY AdmissionAssumption, FS_CardinalityType
<1>4. FormOK'
  BY <1>3 DEF TestInv, FormOK, Started, Unmounted, Fresh, WholeIn, Idle
<1>5. page' # Here
  <2>1. page'.at # Here.at
    BY DEF Started, Here
  <2> QED
    BY <2>1
<1> QED
  BY <1>1, <1>2, <1>4, <1>5, QuietStep DEF Started

\* The protected run of "Run both" is posted with the same experiment.
LEMMA UnprotectedStartedKeeps ==
    ASSUME TestInv, NEW q \in Requests, UnprotectedStarted(q) PROVE TestInv'
<1>1. UNCHANGED <<batchRows, runs, allowance, wizardVars>> /\ Heard(q, "runBoth", TRUE)
  BY DEF UnprotectedStarted
<1>2. PICK m : m = request[q]
  OBVIOUS
<1>3. RequestOK(m, batchRows, runs) /\ m.kind = "RUN" /\ m.made \in Runs /\ request[q] # NoOne
  BY <1>1, <1>2, HeardMade DEF TestInv, AdmissionInv, TablesOK, RequestsOK, Heard, Starters
<1>4. m \in StartRequests /\ WholeIn(batchRows, m.subject.experiment)
  BY <1>3 DEF RequestOK
<1>5. PICK subject : subject = [m.subject EXCEPT !.processor = "protected"]
  OBVIOUS
<1>6. PICK by : by = [m.by EXCEPT !.what = "runBothThen", !.after = m.made]
  OBVIOUS
<1>7. PICK n : n = [m EXCEPT !.subject = subject, !.step = "ARRIVED", !.made = NoOne,
                            !.answer = NoOne, !.by = by]
  OBVIOUS
<1>8. request' = [request EXCEPT ![q] = n]
  BY <1>2, <1>4, <1>5, <1>6, <1>7 DEF UnprotectedStarted, StartRequests, RequestsOf, Starts
<1>9. subject \in Starts /\ subject.experiment = m.subject.experiment
  BY ONLY <1>4, <1>5 DEF StartRequests, RequestsOf, Starts, Processors
<1>10. by \in [what : Starters, mounted : BOOLEAN, after : Runs \cup {NoOne}]
  BY ONLY <1>3, <1>4, <1>6 DEF StartRequests, RequestsOf, Starters
<1>11. n \in StartRequests /\ n.kind = "RUN" /\ n.step = "ARRIVED" /\ n.subject = subject
       /\ n.answer = NoOne
  BY ONLY <1>4, <1>7, <1>9, <1>10 DEF StartRequests, RequestsOf, Steps
<1>12. RequestOK(n, batchRows', runs')
  BY <1>1, <1>4, <1>9, <1>11, NoOneAssumption DEF RequestOK, Answers
<1>13. RequestsOK'
  BY <1>1, <1>8, <1>12, OneRequest DEF TestInv, AdmissionInv, TablesOK, TablesGrow
<1>14. Creating' \subseteq Creating /\ PastTheCap' \subseteq PastTheCap
  BY <1>8, <1>11, OtherRequestsStand DEF TestInv, AdmissionInv, TablesOK
<1>15. AdmissionInv'
  BY <1>1, <1>13, <1>14, WizardKeepsTables DEF TestInv
<1>16. ExperimentsHaveBatches'
  BY <1>1, <1>8, <1>11
  DEF TestInv, AdmissionInv, TablesOK, RequestsOK, ExperimentsHaveBatches, wizardVars, testVars
<1>17. FormOK' /\ CsvOK'
  BY <1>1, SameCsv DEF TestInv, FormOK, WholeIn, wizardVars, testVars, formVars
<1> QED
  BY <1>15, <1>16, <1>17 DEF TestInv

-----------------------------------------------------------------------------
(* The theorems                                                            *)

\* Beside the wizard, the handlers, the executions and the other visitors.
LEMMA SystemKeeps ==
    ASSUME TestInv, UNCHANGED wizardVars,
           \/ \E q \in Requests : Handle(q) \/ HandlerDies(q) \/ ConsumeAgain(q)
           \/ \E r \in Runs : Execute(r)
           \/ SomeoneStarts
    PROVE  TestInv'
<1>1. HandledOK
  BY HandlersKeep, ExecutionsKeep, OthersKeep DEF TestInv, AdmissionInv
<1>2. CountsOK'
  BY QuietHandlersCount, CountingKeepsTheCap, ConsumingKeepsSlots, CreatingKeepsSlots,
     StartingKeepsTheCap, EndingKeepsCounts, OthersKeepCounts
  DEF TestInv, AdmissionInv, Handle
<1>3. experiment # NoOne => WholeIn(batchRows', experiment)
  BY <1>1, WholeStaysWhole DEF TestInv, FormOK, HandledOK
<1>4. FormOK' /\ CsvOK'
  BY <1>3, SameCsv DEF TestInv, FormOK, wizardVars, testVars, formVars
<1>5. ExperimentsHaveBatches'
  BY <1>1 DEF TestInv, ExperimentsHaveBatches, HandledOK, KindsKept, wizardVars, testVars
<1> QED
  BY <1>1, <1>2, <1>4, <1>5 DEF TestInv, AdmissionInv, HandledOK

LEMMA TestInitially == Init => TestInv
<1> SUFFICES ASSUME Init PROVE TestInv
  OBVIOUS
<1>1. PICK n \in Nat : n = left.executing /\ n <= MaxActiveRuns /\ n <= RunsPerHour
  BY NewTestAssumption DEF Init
<1>2. PICK others \in SUBSET Runs :
        Cardinality(others) = n /\ runs = [r \in Runs |-> IF r \in others THEN DemoRun ELSE NoOne]
  BY <1>1 DEF Init, AdmissionInit
<1>3. /\ request = [q \in Requests |-> NoOne] /\ allowance = n
      /\ batchRows \in [Batches -> {Absent, Listed, Whole}] /\ batchRows[DemoBatch] = Whole
  BY <1>1, AdmissionAssumption DEF Init, AdmissionInit
<1>4. TablesOK
  BY <1>1, <1>2, <1>3, DemoRunTypes, AdmissionAssumption
  DEF TablesOK, AdmissionTypeOK, RequestsOK, RunsHaveWholeBatches, Stored
<1>5. CountsOK
  <2>1. DemoRun # NoOne
    BY DemoRunTypes, NoOneAssumption
  <2>2. Stored = others /\ Executing \subseteq others
    BY <1>2, <2>1 DEF Stored, Executing
  <2>3. Creating = {} /\ PastTheCap = {}
    BY <1>3 DEF Creating, PastTheCap, Serving
  <2>4. IsFiniteSet(others)
    BY FS_Subset, AdmissionAssumption
  <2>5. Cardinality(Executing) <= n
    BY <1>2, <2>2, <2>4, NoMore
  <2>6. PICK held \in Nat : held = Cardinality(Requests) /\ held > 0
    BY AdmissionAssumption, FS_CardinalityType, FS_EmptySet
  <2> QED
    BY <1>1, <1>2, <1>3, <2>2, <2>3, <2>5, <2>6, FiniteCounts, FS_EmptySet, AdmissionAssumption
    DEF CountsOK, SlotsCounted, CapExceededOnlyByOverlap
<1>6. Cardinality(Runs) \in Nat
  BY AdmissionAssumption, FS_CardinalityType
<1>7. ExperimentOn(DemoBatch) \in Experiments /\ ExperimentOn(DemoBatch).batch = DemoBatch
  BY AdmissionAssumption DEF Experiments, ExperimentOn
<1>8. step \in {1, 3}
  BY NewTestAssumption DEF Init
<1>9. FormOK
  BY <1>3, <1>6, <1>7, <1>8, AdmissionAssumption, NoOneAssumption DEF FormOK, Init, WholeIn, Idle
<1>10. ExperimentsHaveBatches
  BY <1>3 DEF ExperimentsHaveBatches
<1>11. CsvOK
  BY EmptyFormOK DEF Init
<1> QED
  BY <1>4, <1>5, <1>9, <1>10, <1>11 DEF TestInv, AdmissionInv

LEMMA TestInductive == TestInv /\ [Next]_vars => TestInv'
<1> SUFFICES ASSUME TestInv, [Next]_vars PROVE TestInv'
  OBVIOUS
<1>1. CASE System
  BY <1>1, SystemKeeps, BatchCreatedKeeps, ExperimentCreatedKeeps, FailuresKeep,
     UnprotectedStartedKeeps, StartedKeeps, PollsKeep, EditKeeps
  DEF System, Hear
<1>2. CASE Visitor
  BY <1>2, SetSourceKeeps, PickKeeps, CreateBatchKeeps, CreateExperimentKeeps, StartsKeep, BackKeeps
  DEF Visitor
<1>3. CASE Editing(\E text \in Texts : Type(text) \/ ChooseFile(text))
           \/ Editing(\E check \in csv.checks : CheckFails(check))
  BY <1>3, EditKeeps
<1>4. CASE Leave
  BY <1>4, LeaveKeeps
<1>5. CASE SomeoneStarts
  BY <1>5, SystemKeeps DEF SomeoneStarts
<1>6. CASE \E q \in Requests : (HandlerDies(q) \/ ConsumeAgain(q)) /\ UNCHANGED wizardVars
  BY <1>6, SystemKeeps
<1>7. CASE UNCHANGED vars
  <2>1. UNCHANGED <<admissionVars, page, testVars, csv>>
    BY <1>7 DEF vars, wizardVars, formVars
  <2>2. QuietRequests
    BY <2>1, UnchangedIsQuiet DEF TestInv, AdmissionInv, admissionVars
  <2>3. FormOK' /\ CsvOK'
    BY <1>7, SameCsv
    DEF TestInv, FormOK, WholeIn, vars, admissionVars, wizardVars, testVars, formVars
  <2> QED
    BY <2>1, <2>2, <2>3, QuietStep DEF admissionVars, testVars
<1> QED
  BY <1>1, <1>2, <1>3, <1>4, <1>5, <1>6, <1>7 DEF Next

\* Every request has done what its step says, whatever else is on its way: the
\* inductive invariant that the theorems below rest on.
THEOREM TestInvariant == Spec => []TestInv
<1> QED
  BY TestInitially, TestInductive, PTL DEF Spec

\* No hour has more runs than its allowance, however many POST /runs overlap, die
\* or take a slot twice: the check and the count are one conditional update.
THEOREM AllowanceIsKept == Spec => []NoRunBeyondAllowance
<1>1. TestInv => NoRunBeyondAllowance
  BY FiniteCounts, AdmissionAssumption
  DEF TestInv, AdmissionInv, TablesOK, AdmissionTypeOK, CountsOK, SlotsCounted, NoRunBeyondAllowance
<1> QED
  BY <1>1, TestInvariant, PTL

\* count_running and start_execution are separate requests, and the cap on running
\* executions is exceeded by no more than the handlers between the two.
THEOREM CapHoldsButForOverlap == Spec => []CapExceededOnlyByOverlap
<1>1. TestInv => CapExceededOnlyByOverlap
  BY DEF TestInv, AdmissionInv, CountsOK
<1> QED
  BY <1>1, TestInvariant, PTL

\* A run is of an experiment whose batch was whole when it was defined, and a
\* batch that is whole stays so.
THEOREM OnlyWholeBatchesRun == Spec => []RunsHaveWholeBatches
<1>1. TestInv => RunsHaveWholeBatches
  BY DEF TestInv, AdmissionInv, TablesOK
<1> QED
  BY <1>1, TestInvariant, PTL

\* Whatever answers arrive late, and whether or not the visitor has gone back or
\* chosen another batch meanwhile, the wizard's step can be rendered.
THEOREM WizardIsNeverBlank == Spec => []NeverBlank
<1>1. TestInv => NeverBlank
  BY DEF TestInv, AdmissionInv, TablesOK, FormOK, CsvOK, NeverBlank, WizardTypeOK
<1> QED
  BY <1>1, TestInvariant, PTL

\* A dry run of an earlier text never leaves its preview behind.
THEOREM PreviewIsNeverOfAnotherText == Spec => []PreviewIsOfTheText
<1>1. TestInv => PreviewIsOfTheText
  BY DEF TestInv, CsvOK, PreviewIsOfTheText
<1> QED
  BY <1>1, TestInvariant, PTL
=============================================================================
