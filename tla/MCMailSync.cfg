SPECIFICATION Spec
CONSTANTS
    NumFolders = 2
    Mails = {m1, m2}
    MaxPages = 3
    MaxKeys = 4
    MaxNews = 1
SYMMETRY Symmetry
INVARIANTS
    CacheMatchesKey
    ReadyMeansCurrent
    OutcomesAreTrue
