SPECIFICATION Spec
CONSTANTS
    Ops = {o1}
    a = a
    f1 = f1
    f2 = f2
    f3 = f3
    new_series = new_series
    truncate = truncate
    notify = notify
    response = response
    reply = reply
    settings = settings
    Accounts = {a}
    Payloads = {f1}
    AccountOf <- OneAccount
    PlanOf <- Plans
    Wipeable = {}
    ToldPartial = "partial"
    Steps = {new_series, truncate, notify}
    ItemSteps = {new_series, truncate}
    CreateSteps = {new_series}
    VerifiedSteps = {}
    None = None
    Procs = {p1}
    Calls = {c1}
INVARIANT
    FailureMeansUntouched
