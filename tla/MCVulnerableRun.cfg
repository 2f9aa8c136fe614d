SPECIFICATION RunSpec
CONSTANTS
    e1 = e1  e2 = e2  e3 = e3  d1 = d1  d1copy = d1copy  d2 = d2  d3 = d3
    m1 = m1  m1copy = m1copy  m2 = m2  m3 = m3  w1 = w1  w2 = w2  c1 = c1  c2 = c2
    NoClaim = NoClaim  NoMessage = NoMessage  Nothing = Nothing
    Entitlements <- MCEntitlements
    Duplicated <- MCDuplicated
    Deliveries <- MCDeliveries
    EntitlementOf <- MCEntitlementOf
    Amount <- MCEqualAmount
    Messages <- MCMessages
    DeliveryOf <- MCDeliveryOf
    Workers <- MCWorkers
    Calls <- MCCalls
    MaxReceives = 1
    MaxAttempts = 2
    MaxResends = 0
    Budget = 3
    MaxDrainIterations = 2
    MaxTaskAttempts = 2
    Unreliable = {"Evaluate", "InjectPhaseA"}
    Faulty = FALSE
    ReasonsMayBeMasked = FALSE
SYMMETRY Symmetry
INVARIANT ExactlyDStarve
