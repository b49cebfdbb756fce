CONSTANTS
    Call = {c1, c2, c3}
    Tenant = {"t1"}
    Account = {1, 2}
    Period = {1}
    Instant = {1}
    PeriodOf <- MCPeriodOf
    Request <- AllRequests
    OwnRequest <- OriginalRequests
    AccountType <- NotSpendable
    CurrencyOf <- BRL
    InitialChart <- Active
    AccountInput = {}
    PeriodInput = {}
    ManagedPeriods = {}
    PoolSize = 2
    MaxAmount = 9
    None = None
    ReverseInput <- KeyedInputs
    DerivedKey <- MCDerivedKey
SPECIFICATION RevSpec
INVARIANT SecondReversalRejected
CHECK_DEADLOCK FALSE
