--------------------------- MODULE MCVulnerableRun ---------------------------
(* Three students who are owed the same, one of them duplicated.            *)
EXTENDS VulnerableRun, TLC

CONSTANTS e1, e2, e3, d1, d1copy, d2, d3, m1, m1copy, m2, m3, w1, w2, c1, c2

MCEntitlements == {e1, e2, e3}
MCDuplicated == {e1}
MCDeliveries == {d1, d1copy, d2, d3}
MCEntitlementOf == d1 :> e1 @@ d1copy :> e1 @@ d2 :> e2 @@ d3 :> e3
MCEqualAmount == e1 :> 1 @@ e2 :> 1 @@ e3 :> 1
MCMessages == {m1, m1copy, m2, m3}
MCDeliveryOf == m1 :> d1 @@ m1copy :> d1copy @@ m2 :> d2 @@ m3 :> d3
MCWorkers == {w1, w2}
MCCalls == {c1, c2}
Symmetry == Permutations(MCWorkers) \cup Permutations(MCCalls)
=============================================================================
