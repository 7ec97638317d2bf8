SPECIFICATION FairSpec
CONSTANTS
    s1 = s1
    s2 = s2
    s3 = s3
    r1 = r1
    r2 = r2
    x = x
    y = y
    Senders = {s1, s2, s3}
    IdOf <- MCIds
    TextOf <- MCTexts
    NoText = none
    MaxRequests = 4
    Kinds = {"tty", "pipe"}
    Faults = {"stop", "kill", "sender", "slow", "metadata"}
INVARIANTS
    DeliveredOnce
    InOrder
    AcceptedIsDelivered
    NothingIsLeft
PROPERTIES
    ServedOrErased
CHECK_DEADLOCK FALSE
