CONSTANTS
    Call = {c1, c2}
    Tenant = {"t1"}
    Account = {1, 2}
    Period = {1, 2}
    Instant = {1, 2}
    PeriodOf <- MCPeriodOf
    Request <- CancellingRequests
    AccountType <- SpendableType
    CurrencyOf <- BRL
    InitialChart <- Active
    AccountInput = {}
    PeriodInput = {}
    ManagedPeriods = {}
    PoolSize = 2
    MaxAmount = 9
    None = None
SYMMETRY CallSymmetry
SPECIFICATION RSpec
INVARIANT ReplayMatchesStored
CHECK_DEADLOCK FALSE
