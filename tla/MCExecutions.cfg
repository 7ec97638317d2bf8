SPECIFICATION Spec
CONSTANTS
    Tasks = {t1}
    Calls = {1, 2, 3}
    Pids = {p1, p2, p3}
    NoPid = nopid
    NoTask = notask
    Risky = {1}
    External = {2, 3}
    Faults = {"worker", "backend", "dispatch"}
    Requests = {"decide", "resume", "shutdown", "mode"}
    MaxEpoch = 3
INVARIANTS AtMostOnce UnknownHoldsTask IInv ClaimsAreGranted
PROPERTIES ClaimsAreCurrent ImplementsOnce DenialsStand
CHECK_DEADLOCK FALSE
