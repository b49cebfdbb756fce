CONSTANTS
    Process = {"p", "q"}
    Drain = {1, 2, 3}
    ProcessOf <- MCProcessOf
    BatchSize = 2
    MaxEvent = 3
    MaxFailures = 1
    Files = 2
SPECIFICATION BootFairSpec
INVARIANTS
    BootTypeOK
    MigratedInOrder
    AtMostOnceAfterCommit
    MarkedIsAccountedFor
PROPERTIES
    DeliveredUnlessLost
    RestartsServe
CHECK_DEADLOCK FALSE
