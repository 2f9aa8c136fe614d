--------------------------- MODULE PaymentContract ---------------------------
(***************************************************************************)
(* What a safe processor promises of one run: each delivery gets one       *)
(* outcome, decided and recorded at one instant, and it pays only if       *)
(* nobody has paid its entitlement and the money is there.                 *)
(***************************************************************************)
EXTENDS Integers

CONSTANTS Entitlements, Deliveries, EntitlementOf, Amount, Budget, NoClaim,
          ReasonsMayBeMasked

VARIABLES
    payer,    \* the delivery that paid an entitlement
    outcome,  \* what was decided for a delivery
    fund      \* the money left

contractVars == <<payer, outcome, fund>>

Undecided == "NO_ROW"

Init ==
    /\ payer = [e \in Entitlements |-> NoClaim]
    /\ outcome = [d \in Deliveries |-> Undecided]
    /\ fund = Budget

Decide(d, o) ==
    /\ outcome[d] = Undecided
    /\ outcome' = [outcome EXCEPT ![d] = o]

Pay(d) ==
    LET e == EntitlementOf[d] IN
    /\ payer[e] = NoClaim
    /\ fund >= Amount[e]
    /\ payer' = [payer EXCEPT ![e] = d]
    /\ fund' = fund - Amount[e]
    /\ Decide(d, "COMMITTED")

Suppress(d) ==
    /\ payer[EntitlementOf[d]] # NoClaim
    /\ Decide(d, "DUPLICATE_SUPPRESSED")
    /\ UNCHANGED <<payer, fund>>

\* With masked cancellation reasons a duplicate may be refused as unaffordable.
Refuse(d) ==
    /\ fund < Amount[EntitlementOf[d]]
    /\ payer[EntitlementOf[d]] = NoClaim \/ ReasonsMayBeMasked
    /\ Decide(d, "BUDGET_EXHAUSTED")
    /\ UNCHANGED <<payer, fund>>

Next == \E d \in Deliveries : Pay(d) \/ Suppress(d) \/ Refuse(d)

Spec == Init /\ [][Next]_contractVars
=============================================================================
