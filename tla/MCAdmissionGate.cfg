SPECIFICATION Spec
CONSTANTS
    c1 = c1
    c2 = c2
    c3 = c3
    m3 = m3
    r1 = r1
    m1 = m1
    m2 = m2
    Calls = {c1, c2, c3}
    Requests = {r1, m1, m2, m3}
    CallOf <- MCCallOf
    KindOf <- MCKindOf
    Limit <- MCLimit
    ReadRetries = 1
INVARIANTS
    PermitsAddUp
    FailureMeansUnsent
PROPERTIES
    CallsEnd
CHECK_DEADLOCK FALSE
