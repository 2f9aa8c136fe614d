----------------------------- MODULE MCNewTest -----------------------------
EXTENDS NewTest, TLC
CONSTANTS blank, good, bad, huge, demo, fresh, r1, r2, q1, q2
MCBatches == {demo, fresh}
MCRuns == {r1, r2}
MCRequests == {q1, q2}
Scope(from, executing, listed, clicks, edits, others, deaths) ==
    [from |-> from, executing |-> executing, listed |-> listed,
     clicks |-> clicks, edits |-> edits, others |-> others, deaths |-> deaths]
MCTexts == {blank, good, bad, huge}
MCValid == {good}
MCTooBig == {huge}
MCScopes ==
    {Scope(1, 0, FALSE, 5, 0, 0, 0), Scope(1, 0, TRUE, 4, 0, 0, 1), Scope(1, 0, FALSE, 3, 3, 0, 0),
     Scope(3, 0, FALSE, 2, 0, 1, 1), Scope(3, 2, FALSE, 4, 0, 0, 0)}
=============================================================================
