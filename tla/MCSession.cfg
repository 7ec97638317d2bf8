SPECIFICATION Spec
CONSTANTS
    Tasks = {t1, t2}
    Calls = {1}
    Pids = {p1, p2, p3, p4}
    NoPid = nopid
    NoTask = notask
    Risky = {1}
    External = {}
    Faults = {"backend", "error"}
    Requests = {"decide", "resume"}
    MaxEpoch = 2
INVARIANTS OneRecoverable
CHECK_DEADLOCK FALSE
