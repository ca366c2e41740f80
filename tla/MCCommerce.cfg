SPECIFICATION CommerceSpec
CONSTANTS
    k1 = k1
    p1 = p1
    p2 = p2
    r1 = r1
    r2 = r2
    pay1 = pay1
    pay2 = pay2
    None = None
    Orders = {o1, o2}
    Products = {p1, p2}
    ProviderOrders = {r1, r2}
    Payments = {pay1, pay2}
    Keys = {k1}
    Amounts = {1, 2}
    Events <- MCEvents
    InitialEvents = {}
    InitialOrders <- MCOrders
    Workers = {w1}
    Sweepers = {s1}
    Sessions <- MCSessions
    MaxFailures = 1
    Requests = {q1, q2}
    KeyOf <- MCKeyOf
    CartOf <- MCCartOf
    CreatorOf <- MCCreatorOf
    MaxItems = 2
    ProviderEnabled = TRUE
    InitialCatalog <- MCCatalog
    MaxEdits = 1
    MaxMishaps = 2
INVARIANTS
    OneOrderPerKey
    ReplaysAgree
    WindowsAreHonoured
    CapturesFindTheirOrder
    CommerceInv
PROPERTIES
    ImplementsLedger
