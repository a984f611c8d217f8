SPECIFICATION MCSpec
CONSTANTS
    a1 = a1
    a2 = a2
    k1 = k1
    k2 = k2
    p1 = p1
    p2 = p2
    noKey = noKey
    stats = stats
    w1 = w1
    w2 = w2
    t1 = t1
    y1 = y1
    c1 = c1
    c2 = c2
    e1 = e1
    e2 = e2
    u1 = u1
    d1 = d1
    d2 = d2
    x1 = x1
    x2 = x2
    Attempts <- TwoAttempts
    Requests <- Sent
    NoKey = noKey
    EventKinds <- OneEvent
    MaxExpiries = 1
    Withdrawals <- TwoWithdrawals
    WithdrawRequests <- SentWithdrawals
    NoWithdrawKey = noKey
    Updates <- OneUpdate
    DailyLimit = 4
    Topups <- TwoTopups
    TopupRequests <- SentTopups
    NoTopupKey = noKey
    Services <- FourServices
    Edits <- TwoEdits
    Amounts = {1, 3}
    FirstAmount = 2
    Queries <- OneQuery
    MaxChanges = 2
    Faults <- AllFaults
    Calendars <- ShortMonths
    BillingDays <- FirstMiddleLast
    Cards <- TwoCards
    Schedulers <- TwoCalls
INVARIANTS
    LegsBacked
    StatusMatchesMoney
    OneSuccessRowPerKey
    AnnouncedTruthfully
    WithdrawRollbackBacked
    UnrepeatedWithdrawalPaid
    SerialLimitKept
    AnnouncedTopupStands
    FailedTopupSettled
    RollbackOfExecuted
    
    DeletedUnlessSpared
    StatementsTile
CHECK_DEADLOCK FALSE
