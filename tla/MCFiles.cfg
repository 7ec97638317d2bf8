SPECIFICATION Spec
CONSTANTS
    Keys = {k1}
    Regions = {1, 2}
    Lines = {0, 1}
    MaxVersions = 3
    MaxChain = 4
    MaxPending = 1
    Inputs <- MCInputs
    Faults = {"backend", "worker", "quota", "rmtree"}
INVARIANTS SnapshotsAreTrue DiskIsKnown
PROPERTIES HistoryGrows
CHECK_DEADLOCK FALSE
