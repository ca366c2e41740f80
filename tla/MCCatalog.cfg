SPECIFICATION CatalogSpec
CONSTANTS
    None = None
    Callers = {c1, c2}
    Files = {f1, f2}
    Contents = {v1, v2}
    Orders = {o1}
    MaxFiles = 1
    MaxFaults = 1
SYMMETRY CatalogSymmetry
INVARIANTS
    RowsHaveObjects
    CapIsNearlyKept
    BoughtFilesStay
    PublishedIsDeliverable
PROPERTIES
    AcceptedIsFinal
