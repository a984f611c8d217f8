SPECIFICATION HandlersSpec
CONSTANTS
    a1 = a1
    a2 = a2
    k1 = k1
    p1 = p1
    p2 = p2
    noKey = noKey
    stats = stats
    Attempts <- TwoAttempts
    Requests <- Sent
    NoKey = noKey
    EventKinds <- OneEvent
    MaxRows = 2
    MaxExpiries = 1
SYMMETRY AttemptSymmetry
INVARIANTS
    TypeOK
    NoMoneyCreated
    StatusMatchesLegs
    OneHolderPerKey
    AnnouncedTruthfully
    OneSuccessPerKey
PROPERTIES
    FollowsOperationState
CHECK_DEADLOCK FALSE
