SPECIFICATION RetrySpec
CONSTANTS
    a1 = a1
    a2 = a2
    k1 = k1
    p1 = p1
    p2 = p2
    noKey = noKey
    stats = stats
    Attempts <- TwoAttempts
    Requests <- Retries
    NoKey = noKey
    EventKinds <- OneEvent
    MaxRows = 2
    MaxExpiries = 0
SYMMETRY AttemptSymmetry
INVARIANTS
    MoneyMovedOncePerKey
CHECK_DEADLOCK FALSE
