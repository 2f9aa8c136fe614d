SPECIFICATION FairSpec
CONSTANTS
    e1 = e1  e2 = e2  d1 = d1  d1copy = d1copy  d2 = d2
    m1 = m1  m1copy = m1copy  m2 = m2  w1 = w1  w2 = w2
    NoClaim = NoClaim  NoMessage = NoMessage
    Entitlements <- MCEntitlements
    Deliveries <- MCDeliveries
    EntitlementOf <- MCEntitlementOf
    Amount <- MCAmount
    Messages <- MCMessages
    DeliveryOf <- MCDeliveryOf
    Workers <- MCWorkers
    MaxReceives = 2
    MaxAttempts = 2
    Budget = 4
    ReasonsMayBeMasked = FALSE
INVARIANTS
    TypeOK
    AtMostOnePayment
    MoneyConserved
    CountersMatchRows
    TablesAgree
    DeletedMeansRecorded
    PendingDecisionsHold
PROPERTIES
    RecordsAreFinal
    ContractSpec
    EveryDeliverySettled
