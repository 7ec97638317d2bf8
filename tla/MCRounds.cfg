SPECIFICATION Spec
CONSTANTS
    Pids = {p1, p2}
    Old = 1
    MaxRounds = 3
    Inserts = {0}
    Requests = {"replace", "insert", "stop", "resume", "delete"}
    Faults = {"worker", "backend", "disk"}
INVARIANTS RoundInv NoDuplicates NotLost
CONSTRAINT InsertsAreSure
SYMMETRY Workers
CHECK_DEADLOCK FALSE
