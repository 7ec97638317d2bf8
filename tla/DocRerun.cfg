SPECIFICATION Spec
CONSTANTS
    Tasks = {t1}
    Calls = {1}
    Pids = {p1, p2, p3, p4, p5, p6, p7}
    NoPid = nopid
    NoTask = notask
    Risky = {}
    External = {}
    Faults = {"backend", "worker"}
    Requests = {"resume"}
    MaxEpoch = 4
INVARIANT NotRunAgain
CHECK_DEADLOCK FALSE
