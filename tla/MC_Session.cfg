CONSTANTS
    Client = {c1, c2, c3, s1}
    Plain = {s1}
    Statements = 2
    MaxRefused = 1
    None = None
SPECIFICATION FairSpec
INVARIANTS
    TypeOK
    OneOwner
PROPERTIES
    FirstComeFirstServed
    RunsAlone
    ImplementsSerialSession
    EveryClientAnswered
CHECK_DEADLOCK FALSE
