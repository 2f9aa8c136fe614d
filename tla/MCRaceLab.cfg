SPECIFICATION FairSpec
CONSTANTS
    e1 = e1  c1 = c1  c2 = c2  c3 = c3  m1 = m1  m2 = m2  m3 = m3  w1 = w1  w2 = w2
    NoClaim = NoClaim  NoMessage = NoMessage
    Entitlements <- MCEntitlements
    Deliveries <- MCDeliveries
    EntitlementOf <- MCEntitlementOf
    Amount <- MCAmount
    Messages <- MCMessages
    DeliveryOf <- MCDeliveryOf
    Workers <- MCWorkers
    MaxReceives = 2
    MaxAttempts = 2
    Budget = 6
    MaxMishaps = 1
    MaxFinishes = 2
    ReasonsMayBeMasked = FALSE
CHECK_DEADLOCK FALSE
INVARIANTS
    RaceNeverOverspends
    ClaimMeansPaid
    OverpaymentBoundedByOverlap
    ResultMatchesLedger
PROPERTIES
    CompletedRaceIsFinal
    LabUnlocks
