SPECIFICATION FairSpec
CONSTANTS
    Ops = {o1}
    a = a
    b = b
    f1 = f1
    f2 = f2
    Accounts = {a}
    Payloads = {f1}
    AccountOf <- OneAccount
    Wipeable = {}
    ToldPartial = "failed"
    Steps = {done}
    Confirmed = done
    None = None
    Procs = {p1, p2}
    Calls = {c1, c2}
PROPERTIES
    NothingHangs
