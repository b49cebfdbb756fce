CONSTANTS
    Call = {c1, c2, c3}
    Tenant = {"t1"}
    Account = {1, 2}
    Period = {1}
    Instant = {1}
    PeriodOf <- MCPeriodOf
    Request <- AllRequests
    OwnRequest <- OriginalRequests
    AccountType <- NotSpendable
    CurrencyOf <- BRL
    InitialChart <- LateChart
    AccountInput = {}
    PeriodInput = {}
    ManagedPeriods = {}
    PoolSize = 2
    MaxAmount = 9
    None = None
    ReverseInput <- KeyedInputs
    DerivedKey <- MCDerivedKey
SPECIFICATION RevFairSpec
INVARIANTS
    DerivedKeyReversesOnce
    ReversalCancelsOriginal
    DuplicateIsReversal
PROPERTY EveryCallAnswered
CHECK_DEADLOCK FALSE
