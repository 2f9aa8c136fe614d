SPECIFICATION Spec
CONSTANTS
    e1 = e1  e2 = e2  d1 = d1  d1copy = d1copy  d2 = d2
    m1 = m1  m1again = m1again  m1copy = m1copy  m2 = m2  w1 = w1  w2 = w2
    NoClaim = NoClaim  NoMessage = NoMessage
    Entitlements <- MCEntitlements
    Deliveries <- MCDeliveries
    EntitlementOf <- MCEntitlementOf
    Amount <- MCAmount
    Messages <- MCPhaseAMessages
    DeliveryOf <- MCPhaseADeliveryOf
    Workers <- MCWorkers
    MaxReceives = 2
    MaxAttempts = 2
    MaxResends = 0
    Budget = 3
    Faulty = FALSE
    ReasonsMayBeMasked = FALSE
PROPERTY UnpaidIsCertain
