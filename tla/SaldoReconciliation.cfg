SPECIFICATION FairSpec
CONSTANTS
    c1 = c1
    c2 = c2
    o1 = o1
    t1 = t1
    Cards <- TwoCards
    Saldos <- TwoSaldos
    Ops <- OneOp
    Amounts <- OneAmount
    Times <- NoTimes
    BatchSize = 2
    MaxMutations = 2
    MaxInFlight = 0
INVARIANTS
    ReconcilesUnlessReopened
PROPERTIES
    MismatchRetained
    MismatchReported
