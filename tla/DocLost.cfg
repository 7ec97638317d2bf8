SPECIFICATION Spec
CONSTANTS
    Pids = {p1}
    Old = 1
    MaxRounds = 2
    Inserts = {}
    Requests = {}
    Faults = {"disk"}
INVARIANTS EveryRoundIsKept
CHECK_DEADLOCK FALSE
