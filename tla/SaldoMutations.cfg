SPECIFICATION MutationSpec
CONSTANTS
    c1 = c1
    c2 = c2
    o1 = o1
    t1 = t1
    Cards <- OneCard
    Saldos <- TwoSaldos
    Ops <- OneOp
    Amounts <- OneAmount
    Times <- OneTime
    BatchSize = 2
    MaxMutations = 3
    MaxInFlight = 1
INVARIANTS
    TypeOK
    BalanceAccounted
    AckedExactlyOnce
    ChainLinked
    OneActivePerCard
    WithdrawMetadataBacked
PROPERTIES
    ImplementsBook
