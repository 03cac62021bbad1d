SPECIFICATION Spec
CONSTANTS
    Node <- Two
    Value = {v1, v2}
    None = None
    NoRecord = NoRecord
    MaxInstance = 2
    MaxProposalID = 2
    MaxInterrupts = 1
    Proposers = {1, 2}
    RestartNodes = {1, 2}
    TimerNodes = {1, 2}
    FaultyStore = {1, 2}
    Link <- FullLink
    Duplicates = TRUE
SYMMETRY ValueSymmetry
VIEW LiveView
CHECK_DEADLOCK FALSE
INVARIANTS
    TypeOK
    HandlerInv
    LearnedIsChosen
PROPERTIES
    PromiseDurable
