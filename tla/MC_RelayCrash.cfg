CONSTANTS
    Process = {"p", "q"}
    Drain = {1, 2, 3}
    ProcessOf <- MCProcessOf
    BatchSize = 2
    MaxEvent = 2
    MaxFailures = 1
SPECIFICATION FairSpec
PROPERTY AtLeastOnce
CHECK_DEADLOCK FALSE
