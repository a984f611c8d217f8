SPECIFICATION DeliverySpec
CONSTANTS
    o1 = o1
    o2 = o2
    r1 = r1
    r2 = r2
    g1 = g1
    g2 = g2
    q1 = q1
    q2 = q2
    u1 = u1
    Events <- TwoEvents
    Routed <- OneRouted
    Publishers <- TwoPublishers
    BatchSize = 2
    MaxAttempts = 3
    Messages = 4
    RowsPerBatch = 2
    MaxRetries = 2
    MaxSessions = 2
    Callers <- TwoCallers
    Threshold = 2
    HalfOpenMaxRequests = 2
    MaxBulkhead = 2
    Askers <- TwoAskers
    MaxAnswers = 1
    Queries <- OneQuery
    MaxChanges = 1
    Faults <- AllFaults
INVARIANTS
    PublishedWasSent
    AckedMeansKept
    PermitsReturned
    RefusedWhileOpen
PROPERTIES
    EventSettles
    BatchLeaves
    BreakerCloses
    CallersReturn
    CacheConverges
CHECK_DEADLOCK FALSE
