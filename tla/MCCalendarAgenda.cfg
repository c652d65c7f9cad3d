SPECIFICATION Spec
CONSTANTS
    Uids = {u1, u2}
    MaxPages = 2
    MaxKeys = 6
SYMMETRY Symmetry
INVARIANT
    WritersKeepTheirBindings
