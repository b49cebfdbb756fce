CONSTANTS
    Call = {c1, c2, c3}
    Tenant = {"t1", "t2"}
    Account = {1, 2}
    Period = {1, 2}
    Instant = {1, 2}
    PeriodOf <- MCPeriodOf
    Request <- PostingRequests
    AccountType <- SpendableType
    CurrencyOf <- BRL
    InitialChart <- Active
    AccountInput = {}
    PeriodInput = {}
    ManagedPeriods = {}
    PoolSize = 3
    MaxAmount = 4
    None = None
SYMMETRY CallSymmetry
SPECIFICATION Spec
INVARIANTS
    TypeOK
    SeqDense
    SeqTakenOnlyAcrossTenants
    BalanceIsSumOfLog
    AssetsNeverNegative
    AllOrNothing
    IdempotencyOnce
    ConflictIsReal
    EventsFollowLog
    NoDeadlock
PROPERTY ImplementsAtomicLedger
CHECK_DEADLOCK FALSE
