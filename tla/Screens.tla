------------------------------ MODULE Screens ------------------------------
(***************************************************************************)
(* What the pages say of a run: each component as a function from the data *)
(* it is given to the facts it shows.  Words, figures' formats and layout  *)
(* are left out.                                                           *)
(***************************************************************************)
EXTENDS Theater

CONSTANT None    \* null: no verdict, no row, no run
ASSUME ScreensAssumption == None \notin {"PASS", "FAIL"}

\* A run as the API describes it (public_run), for a run that has the rows of
\* script when it is over.  The summary is there when the verdict is.  What names
\* a test, its experiment_id or its fingerprint, follows from its definition.
Statuses == {"QUEUED", "RUNNING", "COMPLETED", "FAILED"}
RunRecord(id, script, status, evaluated) ==
    [run_id |-> id, processor |-> script.processor, fingerprint |-> script.fingerprint,
     status |-> status, expected_deliveries |-> Len(script.rows),
     verdict |-> IF evaluated THEN verdictOf(evaluate(script.rows)) ELSE None,
     summary |-> IF evaluated THEN evaluate(script.rows) ELSE evaluate(<<>>)]

is_terminal(run) == run.status \in {"COMPLETED", "FAILED"}

-----------------------------------------------------------------------------
(* The outcome of a run, in one word                                       *)

RunOutcomeBadge(run) == IF run.verdict # None THEN run.verdict ELSE run.status

\* "My runs"
statusOf(run) ==
    CASE ~is_terminal(run) -> "running"
      [] is_terminal(run) /\ run.verdict = "PASS" -> "passed"
      [] is_terminal(run) /\ run.verdict = "FAIL" -> "failed"
      [] OTHER -> "incomplete"

\* The runs listed for a status, found by a student when the search box has one.
HistoryRows(all, status, students) ==
    {run \in all :
        /\ status \in {"all", statusOf(run)}
        /\ students = {} \/ (run.verdict # None /\
              students \cap (run.summary.double_paid_ids \cup run.summary.unpaid_ids) # {})}

toastOfVerdict(run) ==    \* mutant: a run that failed late keeps its verdict
    IF run.verdict = "PASS" THEN "verified" ELSE "failed"
toastOf(run) ==
    CASE run.status = "FAILED" -> "without a verdict"
      [] run.status # "FAILED" /\ run.verdict = "PASS" -> "verified"
      [] OTHER -> "failed"

-----------------------------------------------------------------------------
(* The theater                                                             *)

BudgetBar(state) ==
    LET spent == state.spentFirst + state.spentRepeat
        remaining == Less(TotalBudget, spent)
    IN  [first |-> state.spentFirst, repeat |-> state.spentRepeat, remaining |-> remaining,
         leaked |-> IF state.spentRepeat > 0 THEN state.paidTwice ELSE 0,
         refused |-> IF state.spentRepeat > 0 THEN 0 ELSE state.repeatsRefused,
         starved |-> IF remaining = 0 THEN state.unpaid ELSE 0]

Counters(run, state) ==
    [arrived |-> <<state.arrived, run.expected_deliveries>>,
     payments |-> <<state.payments, Cardinality(Entitlements)>>,
     twice |-> state.paidTwice, zero |-> state.unpaid,
     repeatsRefused |-> IF run.processor = "protected" \/ state.repeatsRefused > 0
                        THEN {state.repeatsRefused} ELSE {}]

FlowStrip(run, state, complete) ==
    [moving |-> state.arrived > 0 /\ ~complete,
     arrived |-> state.arrived,
     payments |-> state.payments,
     refused |-> state.repeatsRefused + state.budgetRefusals,
     verify |-> CASE complete /\ run.verdict # None -> run.verdict
                  [] ~(complete /\ run.verdict # None) /\ run.status = "FAILED" -> "not evaluated"
                  [] OTHER -> "after all arrive"]

failSentence(s) ==
    CASE s.double_paid > 0 /\ s.unpaid > 0 -> "paid again, budget ran out"
      [] s.double_paid > 0 /\ s.unpaid = 0 -> "paid more than once"
      [] s.double_paid = 0 /\ s.unpaid > 0 -> "not paid"
      [] OTHER -> "a check failed"

Climax(run) ==
    LET s == run.summary IN
    [pass |-> run.verdict = "PASS",
     sentence |-> IF run.verdict = "PASS" THEN "exactly one payment each" ELSE failSentence(s),
     paidTwice |-> s.double_paid, unpaid |-> s.unpaid, paidOnce |-> <<s.paid_once, s.eligible>>,
     repeatsRefused |-> s.duplicates_suppressed, misallocated |-> s.misallocated,
     checks |-> [id \in DOMAIN checks(s) |->
                    IF checks(s)[id] THEN "PASS" ELSE "FAIL"],
     figures |-> [one_payment_per_entitlement |-> s.double_paid,
                  every_eligible_paid |-> s.eligible - s.unpaid,
                  budget_guard |-> s.spent]]

\* The two examples, and whether the money of the repeats is said to be exactly
\* what those left with nothing needed.
WhyItFailed(run, rows) ==
    LET facts == inspect(rows) IN
    [doublePaid |-> facts.doublePaid,
     unpaid |-> {rows[i].entitlement : i \in facts.unpaid},
     repeats |-> <<facts.repeatPayments, run.summary.misallocated>>,
     zero |-> facts.unpaidStudents,
     exact |-> facts.unpaidStudents > 0 /\ run.summary.misallocated = facts.unpaidNeed]

\* What stands under the flow strip.
Panel(run, complete) ==
    CASE run.status = "FAILED" -> "incomplete"
      [] run.status # "FAILED" /\ complete /\ run.verdict # None -> "climax"
      [] OTHER -> "nothing"

\* The composition; alternate is the run of the same test by the other
\* processor, shown instead when asked for.  {} stands for what has not loaded.
RunTheater(run, entitlements, rows, cursor, complete, alternate, showAlternate) ==
    LET ready == entitlements # {} /\ rows # {}
        state == {deriveTheater(r, cursor) : r \in IF ready THEN rows ELSE {}}
        own == IF complete /\ run.verdict # None /\ entitlements # {}
               THEN entitlements ELSE {s.tiles : s \in state}
        paired == {a \in alternate : a.run.fingerprint = run.fingerprint}
        swapped == showAlternate /\ paired # {}
        shownRun == IF swapped THEN CHOOSE r \in {a.run : a \in paired} : TRUE ELSE run
        tiles == IF swapped THEN UNION {a.tiles : a \in paired} ELSE own
    IN  [state |-> state, tiles |-> tiles, shown |-> shownRun,
         legend |-> {countStates(t) : t \in tiles},
         glow |-> CASE swapped /\ shownRun.verdict = "FAIL" -> "fail"
                    [] paired # {} /\ ~swapped /\ shownRun.verdict = "PASS" -> "pass"
                    [] OTHER -> "none",
         panel |-> Panel(run, complete)]

\* The badge over a grid that can show either run of a pair.
ProcessorToggle(showAlternate, current, other) ==
    LET unprotected == IF current.processor = "protected" THEN other ELSE current
        protected == IF current.processor = "protected" THEN current ELSE other
        showingUnprotected == showAlternate = (other.processor = "vulnerable")
    IN  IF showingUnprotected
        THEN [of |-> unprotected, figures |-> <<unprotected.summary.double_paid, unprotected.summary.unpaid>>]
        ELSE [of |-> protected, figures |-> <<protected.summary.duplicates_suppressed>>]

-----------------------------------------------------------------------------
(* Two runs side by side                                                   *)

runStory(run) ==
    LET s == run.summary IN
    CASE run.verdict = None -> {}
      [] run.verdict = "PASS" -> {<<"paid exactly once", s.paid_once>>, <<"refused", s.duplicates_suppressed>>}
      [] run.verdict = "FAIL" ->
            {line \in {<<"paid twice", s.double_paid>>, <<"got nothing", s.unpaid>>,
                      <<"beyond the budget", Less(s.spent, TotalBudget)>>} : line[2] > 0}

Side(run) ==
    [stamp |-> run.verdict,
     story |-> IF runStory(run) # {} THEN runStory(run)
               ELSE {<<IF is_terminal(run) THEN "no verdict" ELSE "running now", 0>>},
     figures |-> <<run.summary.double_paid, run.summary.unpaid, run.summary.misallocated>>]

METRIC_ROWS(run) ==
    LET s == run.summary
        tone(n) == IF n > 0 THEN "danger" ELSE "plain"
        passFail(id) == IF checks(s)[id] THEN "PASS" ELSE "FAIL"
    IN  [deliveries |-> s.deliveries, effects |-> s.ledger_effects,
         paid_once |-> <<s.paid_once, s.eligible>>,
         double_paid |-> <<s.double_paid, tone(s.double_paid)>>,
         unpaid |-> <<s.unpaid, tone(s.unpaid)>>,
         suppressed |-> s.duplicates_suppressed, budget_exhausted |-> s.budget_exhausted,
         misallocated |-> <<s.misallocated, tone(s.misallocated)>>,
         one_payment |-> passFail("one_payment_per_entitlement"),
         every_paid |-> <<passFail("every_eligible_paid"), s.eligible - s.unpaid>>,
         budget_guard |-> passFail("budget_guard"),
         verdict |-> run.verdict]

\* lib/api/pairing.ts.  runs is newest first, as GET /runs is; {} stands for null.
evaluated(run) == run.status = "COMPLETED" /\ run.verdict # None
find(runs, wanted) ==
    {runs[i] : i \in {j \in DOMAIN runs : runs[j] \in wanted /\ \A k \in 1 .. j - 1 : runs[k] \notin wanted}}

pairFor(runs, fingerprint) ==
    LET latest(p) == find(runs, {run \in Range(runs) : /\ run.fingerprint = fingerprint
                                                       /\ run.processor = p /\ evaluated(run)})
    IN  [unprotected |-> latest("vulnerable"), protected |-> latest("protected"),
         matched |-> \E a \in latest("vulnerable"), b \in latest("protected") :
                        a.fingerprint = b.fingerprint]

useSiblingRun(run, runs) ==
    find(runs, {other \in Range(runs) : /\ other.run_id # run.run_id
                                        /\ other.fingerprint = run.fingerprint
                                        /\ other.processor # run.processor /\ evaluated(other)})

SameTestCard(pair) ==
    [says |-> CASE pair.matched -> "match"
                [] ~pair.matched /\ pair.unprotected # {} /\ pair.protected # {} -> "fingerprints differ"
                [] pair.unprotected = {} -> "unprotected run missing"
                [] OTHER -> "protected run missing",
     replay |-> pair.protected # {}]

\* Where "Compare side by side" leads from a protected run.
ProveActions(run, pair) ==
    [a |-> {other \in pair.unprotected : other.fingerprint = run.fingerprint}, b |-> run]

MatchBanner(a, b) ==
    CASE a.fingerprint # b.fingerprint -> "different tests"
      [] a.fingerprint = b.fingerprint /\ a.processor # b.processor -> "only the processor changed"
      [] OTHER -> "same test, same processor"

GridCard(run, tiles) ==
    [badge |-> RunOutcomeBadge(run), counts |-> {countStates(t) : t \in tiles}]

-----------------------------------------------------------------------------
(* One student, one receipt, one trace through AWS                         *)

\* GET /students/{id}: the rows of one student, and what the tile is.
student_detail(run, rows, e) ==
    LET mine == RowsAt(rows, {i \in DOMAIN rows : rows[i].entitlement = e})
        tiles == studentTiles(rows, run.verdict # None)
    IN  [run |-> run, state |-> tiles[e], deliveries |-> mine,
         payments |-> Paid(rows, e),
         double_paid |-> IF tiles[e] = "unpaid" THEN In(tiles, "paid_twice") ELSE {}]

\* What became of each instruction, and the money received.
RunColumnOfArrivals(detail) ==    \* mutant: every instruction brought money
    [results |-> [i \in DOMAIN detail.deliveries |-> ToneOf(detail.deliveries, i)],
     received |-> Len(detail.deliveries)]
RunColumn(detail) ==
    [results |-> [i \in DOMAIN detail.deliveries |-> ToneOf(detail.deliveries, i)],
     received |-> detail.payments]

RootCause(detail) ==
    LET s == detail.run.summary
        starved == detail.state = "unpaid" /\ detail.run.verdict # None
        refused == \E i \in DOMAIN detail.deliveries :
                      detail.deliveries[i].outcome = "DUPLICATE_SUPPRESSED"
    IN  CASE detail.state = "paid_twice" -> <<"pays every instruction">>
          [] starved -> <<"the repeats used the budget", Less(s.ledger_effects, s.paid_once + s.double_paid)>>
          [] detail.state # "paid_twice" /\ ~starved /\ refused -> <<"the record already existed">>
          [] OTHER -> <<>>

\* The drawer of one student, with their detail in the sibling run if there is one.
StudentDrawer(detail, other) ==
    LET rejections == WithOutcome(detail.deliveries, "BUDGET_EXHAUSTED")
    IN  [status |-> detail.state,
         figures |-> <<detail.payments, Len(detail.deliveries)>>,
         columns |-> {RunColumn(d) : d \in {detail} \cup other},
         cause |-> RootCause(detail),
         whyNothing |-> rejections # {},
         paidMeanwhile |-> IF rejections # {} THEN detail.double_paid ELSE {}]

affected(tiles) == In(tiles, "paid_twice") \cup In(tiles, "unpaid")

\* The receipt is built from an evaluation of its own (generate_receipt).
ReceiptPage(run, rows) ==
    IF run.status # "COMPLETED"
    THEN [shows |-> IF run.status = "FAILED" THEN "failed before evaluation" ELSE "not yet",
          verdict |-> None, summary |-> evaluate(<<>>), humanSummary |-> <<>>]
    ELSE LET c == evaluate(rows) IN
         [shows |-> "receipt", verdict |-> verdictOf(c), summary |-> c,
          humanSummary |-> <<c.eligible - c.unpaid, c.double_paid, c.misallocated>>]

CountsTable(c) ==
    [deliveries |-> c.deliveries, effects |-> c.ledger_effects,
     once |-> c.paid_once, twice |-> c.double_paid, zero |-> c.unpaid,
     refused |-> c.duplicates_suppressed, broke |-> c.budget_exhausted,
     spent |-> <<c.spent, TotalBudget>>, misallocated |-> c.misallocated]

\* What can be checked of a result, in one line under its verdict.
VerificationPill(run) ==
    [says |-> IF run.verdict = "PASS" THEN "Integrity verified" ELSE "Integrity failed",
     receipt |-> run.status = "COMPLETED"]

ServicePath(run, dlq) ==
    LET s == run.summary IN
    [deadLetters |-> dlq,
     process |-> IF run.verdict # None THEN {s.deliveries} ELSE {},
     record |-> IF run.verdict # None
                THEN {<<s.ledger_effects, s.duplicates_suppressed + s.budget_exhausted>>} ELSE {},
     verify |-> IF run.verdict # None THEN {run.verdict} ELSE {},
     prove |-> run.status = "COMPLETED"]
=============================================================================
