SPECIFICATION Spec
CONSTANTS
    Node <- Five
    Value = {v1, v2, v3}
    None = None
    NoRecord = NoRecord
    MaxInstance = 2
    MaxProposalID = 1
    MaxInterrupts = 0
    Proposers = {1, 3}
    RestartNodes = {}
    TimerNodes = {}
    FaultyStore = {}
    Link <- SplitLink
    Duplicates = FALSE
SYMMETRY ValueSymmetry
VIEW LiveView
CHECK_DEADLOCK FALSE
INVARIANTS
    SameOrder
