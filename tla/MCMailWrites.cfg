SPECIFICATION Spec
CONSTANTS
    Ops = {o1, o2}
    a = a
    b = b
    f1 = f1
    f2 = f2
    Accounts = {a}
    Payloads = {f1, f2}
    AccountOf <- OneAccount
    Wipeable = {a}
    ToldPartial = "failed"
    Steps = {done}
    Confirmed = done
    None = None
    Procs = {p1, p2}
    Calls = {c1, c2}
SYMMETRY SymmetryOfOneAccount
INVARIANTS
    TypeOK
    AtMostOnce
    TruthfulRecord
    TruthfulAnswers
    RunningWritesAreLeftAlone
PROPERTIES
    VerdictsStand
    RecoveryClosesOnlyOrphans
    KeepsPromise
