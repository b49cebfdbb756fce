CONSTANTS
    Call = {c1, c2}
    Tenant = {"t1"}
    Account = {1, 2}
    Period = {1, 2}
    Instant = {1, 2}
    PeriodOf <- MCPeriodOf
    Request <- AdministrationRequests
    AccountType <- SpendableType
    CurrencyOf <- BRL
    InitialChart <- LateChart
    AccountInput = {"ACTIVE", "FROZEN"}
    PeriodInput = {"CLOSED"}
    ManagedPeriods <- AllPeriods
    PoolSize = 2
    MaxAmount = 9
    None = None
SYMMETRY CallSymmetry
SPECIFICATION Spec
PROPERTIES
    CommitRespectsStatuses
    ImplementsAtomicLedger
CHECK_DEADLOCK FALSE
