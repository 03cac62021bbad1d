SPECIFICATION Spec
CONSTANTS
    Node <- Three
    Value = {v1, v2, v3, v4}
    None = None
    NoRecord = NoRecord
    MaxInstance = 2
    MaxProposalID = 1
    MaxInterrupts = 1
    Proposers = {1, 3}
    RestartNodes = {2}
    TimerNodes = {}
    FaultyStore = {}
    Link <- FullLink
    Duplicates = FALSE
SYMMETRY ValueSymmetry
VIEW LiveView
CHECK_DEADLOCK FALSE
CONSTRAINT TwoDecide
INVARIANTS
    SameOrder
