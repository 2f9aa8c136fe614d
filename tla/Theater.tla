------------------------------ MODULE Theater ------------------------------
(***************************************************************************)
(* What a browser makes of a run: the Run Theater's numbers, derived from  *)
(* the Deliveries rows it has fetched (features/theater/replay.ts and      *)
(* RunTheater.tsx), beside those of the backend's evaluation               *)
(* (domain/evaluator.py), and the tests and stories other pages tell of    *)
(* runs.  All of it is pure: wording and layout are left out.              *)
(***************************************************************************)
EXTENDS Naturals, Sequences, FiniteSets, SequencesExt

CONSTANTS
    Entitlements,   \* of the run's batch, one student each
    Amount,         \* entitlement -> money
    TotalBudget,    \* total_budget_paise: the batch's entitlements, no more (_build_meta)
    FeedLines       \* replay.ts: FEED_LINES

ASSUME TheaterAssumption ==
    /\ IsFiniteSet(Entitlements) /\ Amount \in [Entitlements -> Nat \ {0}]
    /\ TotalBudget = SumFunctionOnSet(Amount, Entitlements) /\ FeedLines \in Nat \ {0}

\* A row of GET /runs/{id}/deliveries, as far as it is looked at.
RowOutcomes == {"COMMITTED", "DUPLICATE_SUPPRESSED", "BUDGET_EXHAUSTED"}
DeliveryRows == [entitlement : Entitlements, outcome : RowOutcomes]
TileStates == {"paid_once", "paid_twice", "unpaid", "pending"}

Total(value, S) == SumFunctionOnSet(value, S)
Less(a, b) == IF a > b THEN a - b ELSE 0

Sorted(positions) ==
    CHOOSE s \in [1 .. Cardinality(positions) -> positions] :
        \A j, k \in DOMAIN s : j < k => s[j] < s[k]
RowsAt(rows, positions) == [k \in 1 .. Cardinality(positions) |-> rows[Sorted(positions)[k]]]
RowsOf(rows, e, o) == {i \in DOMAIN rows : rows[i].entitlement = e /\ rows[i].outcome = o}
Paid(rows, e) == Cardinality(RowsOf(rows, e, "COMMITTED"))
Refused(rows, e) == RowsOf(rows, e, "BUDGET_EXHAUSTED") # {}
WithOutcome(rows, o) == {i \in DOMAIN rows : rows[i].outcome = o}
\* Every entitlement was sent, and what refuses a repeat is a payment.
Resolved(rows) ==
    /\ \A e \in Entitlements : \E i \in DOMAIN rows : rows[i].entitlement = e
    /\ \A i \in WithOutcome(rows, "DUPLICATE_SUPPRESSED") : Paid(rows, rows[i].entitlement) > 0
RepeatsCountingFirst(rows, e) == Paid(rows, e)    \* mutant
Repeats(rows, e) == Less(Paid(rows, e), 1)
In(tiles, state) == {e \in Entitlements : tiles[e] = state}
countStates(tiles) == [s \in TileStates |-> Cardinality(In(tiles, s))]

-----------------------------------------------------------------------------
(* The replay                                                              *)

tileRefusedFirst(commits, refused) ==    \* mutant: a refused repeat hides a payment
    IF refused THEN "unpaid" ELSE
    CASE commits >= 2 -> "paid_twice" [] commits = 1 -> "paid_once" [] OTHER -> "pending"

tileState(commits, refused) ==
    CASE commits >= 2 -> "paid_twice"
      [] commits = 1  -> "paid_once"
      [] OTHER        -> IF refused THEN "unpaid" ELSE "pending"

\* What one row adds to the feed: nothing, unless its outcome is known.
ToneOf(rows, i) ==
    CASE rows[i].outcome = "COMMITTED" ->
            IF Paid(SubSeq(rows, 1, i - 1), rows[i].entitlement) = 0 THEN "paid" ELSE "twice"
      [] rows[i].outcome = "DUPLICATE_SUPPRESSED" -> "refused"
      [] rows[i].outcome = "BUDGET_EXHAUSTED" -> "unpaid"

deriveTheater(rows, cursor) ==
    LET shown == SubSeq(rows, 1, Min({cursor, Len(rows)}))
        first == [e \in Entitlements |-> IF Paid(shown, e) > 0 THEN Amount[e] ELSE 0]
        repeat == [e \in Entitlements |-> Repeats(shown, e) * Amount[e]]
        repeated == [e \in Entitlements |-> Repeats(shown, e)]
        tiles == [e \in Entitlements |-> tileState(Paid(shown, e), Refused(shown, e))]
    IN  [arrived |-> Len(shown),
         payments |-> Cardinality(WithOutcome(shown, "COMMITTED")),
         paidTwice |-> Cardinality(In(tiles, "paid_twice")),
         repeatPayments |-> Total(repeated, Entitlements),
         unpaid |-> Cardinality(In(tiles, "unpaid")),
         repeatsRefused |-> Cardinality(WithOutcome(shown, "DUPLICATE_SUPPRESSED")),
         budgetRefusals |-> Cardinality(WithOutcome(shown, "BUDGET_EXHAUSTED")),
         spentFirst |-> Total(first, Entitlements),
         spentRepeat |-> Total(repeat, Entitlements),
         tiles |-> tiles,
         feed |-> [k \in 1 .. Min({FeedLines, Len(shown)}) |->    \* newest first
                      ToneOf(shown, Len(shown) + 1 - k)]]

\* The facts of "Why it failed": the student paid twice whose first payment is
\* the earliest, and the first refusal of a student who was never paid.
inspect(rows) ==
    LET doubles == {e \in Entitlements : Paid(rows, e) > 1}
        firstPayment(e) == Min(RowsOf(rows, e, "COMMITTED"))
        refusals == {i \in WithOutcome(rows, "BUDGET_EXHAUSTED") : Paid(rows, rows[i].entitlement) = 0}
        unpaid == {e \in Entitlements : Paid(rows, e) = 0}
        repeat == [e \in Entitlements |-> Repeats(rows, e) * Amount[e]]
        repeated == [e \in Entitlements |-> Repeats(rows, e)]
    IN  [doublePaid |-> {e \in doubles : \A f \in doubles : firstPayment(e) <= firstPayment(f)},
         unpaid |-> {i \in refusals : \A j \in refusals : i <= j},
         repeatSpend |-> Total(repeat, Entitlements),
         repeatPayments |-> Total(repeated, Entitlements),
         unpaidNeed |-> Total(Amount, unpaid),
         unpaidStudents |-> Cardinality(unpaid)]

-----------------------------------------------------------------------------
(* The backend: GET /students, and the evaluation of a run's ledger, where *)
(* every COMMITTED row has its effect (VulnerableProcessor and             *)
(* ProtectedProcessor say when it has).                                    *)

stateFor(payments, rejected, evaluated) ==
    CASE payments >= 2 -> "paid_twice"
      [] payments = 1  -> "paid_once"
      [] OTHER         -> IF evaluated \/ rejected THEN "unpaid" ELSE "pending"

studentTiles(rows, evaluated) ==
    [e \in Entitlements |-> stateFor(Paid(rows, e), Refused(rows, e), evaluated)]

evaluate(rows) ==
    LET doubles == {e \in Entitlements : Paid(rows, e) > 1}
        spent == [e \in Entitlements |-> Paid(rows, e) * Amount[e]]
        repeat == [e \in doubles |-> (Paid(rows, e) - 1) * Amount[e]]
    IN  [eligible |-> Cardinality(Entitlements),
         deliveries |-> Len(rows),
         ledger_effects |-> Cardinality(WithOutcome(rows, "COMMITTED")),
         paid_once |-> Cardinality({e \in Entitlements : Paid(rows, e) = 1}),
         double_paid |-> Cardinality(doubles),
         unpaid |-> Cardinality({e \in Entitlements : Paid(rows, e) = 0}),
         double_paid_ids |-> doubles,
         unpaid_ids |-> {e \in Entitlements : Paid(rows, e) = 0},
         duplicates_suppressed |-> Cardinality(WithOutcome(rows, "DUPLICATE_SUPPRESSED")),
         budget_exhausted |-> Cardinality(WithOutcome(rows, "BUDGET_EXHAUSTED")),
         spent |-> Total(spent, Entitlements),
         misallocated |-> Total(repeat, doubles)]

checks(s) ==
    [one_payment_per_entitlement |-> s.double_paid = 0,
     every_eligible_paid |-> s.unpaid = 0,
     budget_guard |-> s.spent <= TotalBudget]

verdictOf(s) == IF \A id \in DOMAIN checks(s) : checks(s)[id] THEN "PASS" ELSE "FAIL"
=============================================================================
