SPECIFICATION SessionsSpec
CONSTANTS
    None = None
    rahul = rahul
    asha = asha
    laptop = laptop
    tablet = tablet
    Users = {rahul, asha}
    Browsers = {laptop, tablet}
    OwnerOf <- MCOwnerOf
    Tokens = {t1, t2, t3, t4}
    Requests = {q1, q2}
    MaxFaults = 1
SYMMETRY SessionsSymmetry
INVARIANTS
    SessionsInv
    RotationIsAtomic
    ReuseEndsOpenSessions
    NoFalseAlarm
PROPERTIES
    EndsAreOwnAndFinal
