SPECIFICATION Spec
CONSTANTS
    Calls = {c1, c2, c3, c4}
    Accounts = {a}
    None = None
    MaxSnapshots = 2
    Lifetime = 2
    PruneInterval = 2
    MaxMails = 3
    MaxLimit = 2
    MaxTime = 3
SYMMETRY Symmetry
INVARIANTS
    QueueMatchesStore
    PagesTile
    RefusalsAreDeserved
PROPERTIES
    NothingStaleIsServed
