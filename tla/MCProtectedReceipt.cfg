SPECIFICATION RunSpec
CONSTANTS
    e1 = e1  e2 = e2  d1 = d1  d1copy = d1copy  d2 = d2
    m1 = m1  m1again = m1again  m1copy = m1copy  m2 = m2  w1 = w1  c1 = c1  c2 = c2
    NoClaim = NoClaim  NoMessage = NoMessage  Nothing = Nothing
    Entitlements <- MCEntitlements
    Duplicated <- MCDuplicated
    Deliveries <- MCDeliveries
    EntitlementOf <- MCEntitlementOf
    Amount <- MCAmount
    Messages <- MCMessages
    DeliveryOf <- MCDeliveryOf
    Workers <- MCWorkers
    Calls <- MCCalls
    MaxReceives = 1
    MaxAttempts = 1
    Budget = 3
    MaxDrainIterations = 1
    MaxTaskAttempts = 2
    Unreliable = {"Evaluate", "GenerateReceipt"}
    ReasonsMayBeMasked = FALSE
INVARIANT ReceiptMatchesHash
