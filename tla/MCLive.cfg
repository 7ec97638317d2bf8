SPECIFICATION FairSpec
CONSTANTS
    Tasks = {t1}
    Calls = {1}
    Pids = {p1, p2, p3}
    NoPid = nopid
    NoTask = notask
    Risky = {1}
    External = {}
    Faults = {"worker", "backend", "idle", "dispatch"}
    Requests = {"decide", "shutdown", "stop"}
    MaxEpoch = 2
PROPERTIES StopEnds NoStrandedRunning SuspendedIsFreed
CHECK_DEADLOCK FALSE
