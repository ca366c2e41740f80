SPECIFICATION RateSpec
CONSTANTS
    None = None
    Requests = {q1, q2}
    Limit = 2
    Window = 3
    Second = 2
    Patience = 1
    MaxStrays = 1
    MaxRestarts = 1
SYMMETRY RequestSymmetry
INVARIANTS
    AdmissionIsBounded
    RefusalIsEarned
    WaitIsEnough
    RateInv
