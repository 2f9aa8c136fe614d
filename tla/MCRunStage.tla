----------------------------- MODULE MCRunStage -----------------------------
EXTENDS RunStage
CONSTANTS live, recorded, e1, e2
MCEntitlements == {e1, e2}
MCAmount == e1 :> 1 @@ e2 :> 2
MCRuns == {live, recorded}
Row(e, o) == [entitlement |-> e, outcome |-> o]
Paid1 == Row(e1, "COMMITTED")
Paid2 == Row(e2, "COMMITTED")
Again1 == Row(e1, "DUPLICATE_SUPPRESSED")
Short2 == Row(e2, "BUDGET_EXHAUSTED")
Run(p, rows) == [processor |-> p, fingerprint |-> 1, rows |-> rows]
Tell(l, r) == live :> l @@ recorded :> r
\* e1 paid twice and e2 nothing; e1's repeat refused, and listed before what
\* refuses it; e2's repeat out of budget, and listed before the payment.
Unprotected == Run("vulnerable", <<Paid1, Paid1, Short2>>)
Protected == Run("protected", <<Again1, Paid1, Paid2>>)
Spent == Run("vulnerable", <<Short2, Paid2, Paid1>>)
Scope(l, r, at, on, began, loaded, moves, clicks, errors, faults) ==
    [story |-> Tell(l, r), at |-> at, on |-> on, live |-> began, loaded |-> loaded,
     moves |-> moves, clicks |-> clicks, errors |-> errors, faults |-> faults]
MCScopes ==
    {Scope(Spent, Protected, "run", live, "begun", FALSE, 0, 0, 0, 0),
     Scope(Protected, Protected, "home", recorded, "absent", TRUE, 0, 1, 0, 0),
     Scope(Protected, Unprotected, "run", live, "handled", FALSE, 0, 0, 1, 0),
     Scope(Unprotected, Unprotected, "home", recorded, "handled", FALSE, 0, 2, 1, 0),
     Scope(Protected, Unprotected, "compare", live, "handled", FALSE, 1, 0, 0, 0),
     Scope(Protected, Unprotected, "run", live, "handled", TRUE, 1, 0, 0, 1)}
=============================================================================
