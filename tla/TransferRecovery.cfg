SPECIFICATION FairRecoverySpec
CONSTANTS
    a1 = a1
    a2 = a2
    k1 = k1
    p1 = p1
    p2 = p2
    noKey = noKey
    stats = stats
    Attempts <- TwoAttempts
    Requests <- Unkeyed
    NoKey = noKey
    EventKinds <- NoEvents
    MaxRows = 2
    MaxExpiries = 0
PROPERTIES
    NoStuckOperation
CHECK_DEADLOCK FALSE
