SPECIFICATION Spec
CONSTANTS
    Ops = {o1}
    a = a
    f1 = f1
    f2 = f2
    f3 = f3
    new_series = new_series
    truncate = truncate
    notify = notify
    response = response
    reply = reply
    settings = settings
    Accounts = {a}
    Payloads = {f1, f2, f3}
    AccountOf <- OneAccount
    PlanOf <- Plans
    Wipeable = {a}
    ToldPartial = "partial"
    Steps = {new_series, truncate, notify, response, reply, settings}
    ItemSteps = {new_series, truncate}
    CreateSteps = {new_series}
    VerifiedSteps = {settings}
    None = None
    Procs = {p1, p2}
    Calls = {c1, c2}
SYMMETRY Symmetry
INVARIANTS
    StepsHappenOnce
    StepsHappenInOrder
    RecordsAreTrue
    ClosedRecordsAreFinal
    TruthfulAnswers
PROPERTIES
    ProgressIsKept
