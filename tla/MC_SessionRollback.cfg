CONSTANTS
    Client = {c1, c2, s1}
    Plain = {s1}
    Statements = 2
    MaxRefused = 1
    None = None
SPECIFICATION Spec
INVARIANT AcknowledgedIsCommitted
CHECK_DEADLOCK FALSE
