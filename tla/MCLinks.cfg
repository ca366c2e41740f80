SPECIFICATION LinksSpec
CONSTANTS
    None = None
    Callers = {c1, c2, c3}
    Links = {l1, l2, l3, l4}
    MaxLinks = 3
SYMMETRY LinksSymmetry
INVARIANTS
    CapIsKept
    CommitsNeverClash
PROPERTIES
    OrderIsAsked
