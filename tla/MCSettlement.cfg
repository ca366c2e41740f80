SPECIFICATION SettlementSpec
CONSTANTS
    o1 = o1
    p1 = p1
    p2 = p2
    o2 = o2
    r1 = r1
    r2 = r2
    r3 = r3
    pay1 = pay1
    pay2 = pay2
    pay3 = pay3
    None = None
    Orders = {o1}
    Products = {p1, p2}
    ProviderOrders = {r1, r2, r3}
    Payments = {pay1, pay2, pay3}
    Keys = {}
    Amounts = {1, 2}
    Events <- Contended
    InitialEvents <- Contended
    InitialOrders <- MCOrders
    Workers = {w1, w2}
    Sweepers = {s1}
    Sessions <- MCSessions
    MaxFailures = 1
SYMMETRY WorkerSymmetry
INVARIANTS
    PaidMeansEntitled
    PaidMeansCharged
    VerdictsAreTrue
    CountsMatchCaptures
    AnsweredMeansRecorded
    SettlementInv
PROPERTIES
    StatusIsFinal
    ImplementsLedger
