SPECIFICATION FairSpec
CONSTANTS
    c1 = c1
    c2 = c2
    Pages = {c1, c2}
    NoPage = NoPage
    Creators = {c1}
    MaxFrames = 4
    Buffer = 2
    Faults = {"start", "append", "read"}
INVARIANTS
    StreamInv
    InOrder
    GapsAreFaults
    JournalIsReleased
PROPERTIES
    KeepsUp
CHECK_DEADLOCK FALSE
