----------------------------- MODULE MCRaceLab -----------------------------
(* Three copies of one payment of 2, two of them in flight at a time, and  *)
(* the budget of three payments that every race of three copies is given.  *)
EXTENDS RaceLab, TLC

CONSTANTS e1, c1, c2, c3, m1, m2, m3, w1, w2

MCEntitlements == {e1}
MCDeliveries == {c1, c2, c3}
MCEntitlementOf == [d \in MCDeliveries |-> e1]
MCAmount == e1 :> 2
MCMessages == {m1, m2, m3}
MCDeliveryOf == m1 :> c1 @@ m2 :> c2 @@ m3 :> c3
MCWorkers == {w1, w2}
=============================================================================
