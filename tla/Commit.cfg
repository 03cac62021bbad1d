SPECIFICATION LiveSpec
CONSTANTS
    Client = {c1, c2, c3}
    Other = Other
    None = None
    SMFails = TRUE
    Refused = {c3}
    MaxWaiting = 1
    MaxCalls = 1
    MaxOther = 2
    MaxLags = 1
INVARIANTS
    LockInv
    ResultTruthful
    ExecutedOnce
PROPERTIES
    ContextAlive
    CallsReturn
CHECK_DEADLOCK FALSE
