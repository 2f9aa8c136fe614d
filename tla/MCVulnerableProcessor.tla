----------------------- MODULE MCVulnerableProcessor -----------------------
(* The first entitlement is delivered twice.                               *)
EXTENDS VulnerableProcessor, TLC

CONSTANTS e1, e2, d1, d1copy, d2, m1, m1again, m1copy, m2, w1, w2

MCEntitlements == {e1, e2}
MCDeliveries == {d1, d1copy, d2}
MCEntitlementOf == d1 :> e1 @@ d1copy :> e1 @@ d2 :> e2
MCAmount == e1 :> 2 @@ e2 :> 1
MCMessages == {m1, m1copy, m2}
MCDeliveryOf == m1 :> d1 @@ m1copy :> d1copy @@ m2 :> d2

\* The inject task was retried: one delivery, two messages, no other trouble.
MCResentMessages == {m1, m1again}
MCEqualAmount == e1 :> 1 @@ e2 :> 1
MCResentDeliveryOf == m1 :> d1 @@ m1again :> d1

\* The retry wave of a batch whose amounts differ: phase B has not begun.
MCPhaseAMessages == {m1, m1copy}
MCPhaseADeliveryOf == m1 :> d1 @@ m1copy :> d1copy

MCWorkers == {w1, w2}
WorkerSymmetry == Permutations(MCWorkers)
=============================================================================
