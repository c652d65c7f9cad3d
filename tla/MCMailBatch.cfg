SPECIFICATION Spec
CONSTANTS
    a = a
    b = b
    AccountOf <- Interleaved
    MaxRuns = 3
    MaxEdits = 2
INVARIANTS
    WrittenAsApproved
    EntriesAreTold
PROPERTIES
    NothingAfterUnknown
CHECK_DEADLOCK FALSE
