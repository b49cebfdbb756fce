CONSTANTS
    Call = {c1, c2}
    Tenant = {"t1"}
    Account = {1, 2}
    Period = {1, 2}
    Instant = {1, 2}
    PeriodOf <- MCPeriodOf
    Request <- CentRequests
    AccountType <- SpendableType
    CurrencyOf <- BRL
    InitialChart <- Active
    AccountInput = {}
    PeriodInput = {}
    ManagedPeriods = {}
    PoolSize = 2
    MaxAmount = 999
    Decimals = 2
    IntegerDigits = 1
    MoneyError = MoneyError
    LimitInput = {0, 9}
    MaxLimit = 2
    None = None
SYMMETRY CallSymmetry
SPECIFICATION SSpec
INVARIANTS
    NoFalseAlarm
    StatementIsPrefix
    BalanceMatchesStatement
    TrialBalanceConserved
    TrialBalanceReadable
    AmountsRoundTrip
PROPERTY StatementEndsAtEnd
CHECK_DEADLOCK FALSE
