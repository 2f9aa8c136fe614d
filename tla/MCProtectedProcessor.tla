------------------------ MODULE MCProtectedProcessor ------------------------
(* Two entitlements owed 5 in all; the first one has a business duplicate.   *)
EXTENDS ProtectedProcessor, TLC

CONSTANTS e1, e2, d1, d1copy, d2, m1, m1copy, m2, w1, w2

MCEntitlements == {e1, e2}
MCDeliveries == {d1, d1copy, d2}
MCEntitlementOf == d1 :> e1 @@ d1copy :> e1 @@ d2 :> e2
MCAmount == e1 :> 2 @@ e2 :> 3
MCMessages == {m1, m1copy, m2}
MCDeliveryOf == m1 :> d1 @@ m1copy :> d1copy @@ m2 :> d2
MCWorkers == {w1, w2}
WorkerSymmetry == Permutations(MCWorkers)
=============================================================================
