SPECIFICATION FairSpec
CONSTANTS
    a1 = a1
    a2 = a2
    b1 = b1
    b2 = b2
    u = u
    v = v
    p = p
    q = q
    Calls = {a1, b1, b2}
    Users = {u, v}
    Procs = {p, q}
    UserOf <- AccountOfV
    ProcOf <- WorkerOfV
    Capacity = 1
    UserLimit <- OneADayOfV
    Daily <- OneADayOfV
    MaxCancels = 1
    Crashing = {p}
    Disabling = {v}
    Renewable = {a1}
INVARIANTS InstanceLimit LeaseIsReleased SentIsCharged DailyLimit
PROPERTIES Served
CHECK_DEADLOCK FALSE
