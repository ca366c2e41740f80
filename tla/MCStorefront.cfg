SPECIFICATION StorefrontSpec
CONSTANTS
    None = None
    Callers = {c1, c2}
    Links = {l1}
    MaxLinks = 1
    Slugs = {s1, s2}
    Offers = {o1}
    Listings = {f1, f2}
    MayFail = TRUE
SYMMETRY StorefrontSymmetry
INVARIANTS
    PagesAreFresh
