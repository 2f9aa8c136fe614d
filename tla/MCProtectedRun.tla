--------------------------- MODULE MCProtectedRun ---------------------------
(* Two students, one of them duplicated.                                   *)
EXTENDS ProtectedRun, TLC

CONSTANTS e1, e2, d1, d1copy, d2, m1, m1again, m1copy, m2, w1, c1, c2

MCEntitlements == {e1, e2}
MCDuplicated == {e1}
MCDeliveries == {d1, d1copy, d2}
MCEntitlementOf == d1 :> e1 @@ d1copy :> e1 @@ d2 :> e2
MCAmount == e1 :> 2 @@ e2 :> 1
MCMessages == {m1, m1copy, m2}
MCDeliveryOf == m1 :> d1 @@ m1copy :> d1copy @@ m2 :> d2
\* A retried injection sends one delivery again.
MCResentMessages == {m1, m1again, m1copy, m2}
MCResentDeliveryOf == MCDeliveryOf @@ m1again :> d1
MCWorkers == {w1}
MCCalls == {c1, c2}
Symmetry == Permutations(MCCalls)
=============================================================================
