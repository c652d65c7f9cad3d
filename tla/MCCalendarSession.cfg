SPECIFICATION Spec
CONSTANTS
    Uids = {u1, u2, u3}
    MaxPages = 2
    MaxKeys = 10
SYMMETRY Symmetry
INVARIANTS
    MutationsHitTheirEvent
    DoneMeansExecuted
